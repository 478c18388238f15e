-------------------------------- MODULE Lseq --------------------------------
(***************************************************************************)
(* The LSEQ object of one editor (collaboration/CRDT/LSEQ.service.ts): the *)
(* atoms of the text in the order of their identifiers, and alloc, which   *)
(* draws an identifier between two others at random.  The specification    *)
(* runs it as the editor component does, with the neighbours of the edited *)
(* position taken from the atoms themselves; module Editor takes them from *)
(* the rope tree.                                                          *)
(***************************************************************************)
EXTENDS LseqIdentifier, SequencesExt

CONSTANTS
    Boundary,   \* LSEQ.boundary, the longest step from a neighbour (1000)
    Char,       \* what a key inserts
    MaxInsert   \* bound on the characters inserted in a behaviour

ASSUME LseqAssumption == Boundary \in Nat \ {0} /\ MaxInsert \in Nat

VARIABLES
    atoms,      \* LSEQ.atoms
    bpbm,       \* LSEQ.bpbm: for a depth, whether steps start from p
    call,       \* the last call of the component and its arguments
    inserted    \* the number of insertions so far (for MaxInsert)

vars == <<atoms, bpbm, call, inserted>>

Atom == [id : Identifier, value : Char]

Init ==
    /\ atoms = <<>>
    /\ bpbm = <<>>
    /\ call = [op |-> "none"]
    /\ inserted = 0

-----------------------------------------------------------------------------
(* alloc.                                                                  *)

prefix(id, depth, pushValue) ==
    [i \in 1..depth |-> IF i <= Len(id) THEN id[i] ELSE pushValue]

PrefixP(p, depth) == prefix(p, depth, SENT_START.path[1])
PrefixQ(q, depth) == prefix(q, depth, SENT_END.path[1])
Interval(p, q, depth) ==
    PrefixQ(q, depth)[depth] - PrefixP(p, depth)[depth] - 1

\* Where the loop of alloc stops.  It stops at the first depth beyond both
\* paths at the latest, the sentinels leaving room there.
StopsAt(p, q, depth) ==
    /\ Interval(p, q, depth) >= 1
    /\ \A d \in 1..(depth-1) : Interval(p, q, d) < 1
Depths(p, q) ==
    {depth \in 1..(Len(p) + Len(q) + 1) : StopsAt(p, q, depth)}

\* newDigits, for each outcome of Math.random(): p's digits, the last one
\* stepped up from p's or down from q's.
Steps(p, q, depth) ==
    1..(IF Boundary < Interval(p, q, depth) THEN Boundary
        ELSE Interval(p, q, depth))
LastDigit(p, q, depth, fromP, step) ==
    IF fromP THEN PrefixP(p, depth)[depth] + step
             ELSE PrefixQ(q, depth)[depth] - step
\* The step may be none: Math.random() without the + 1.
NewDigitsFromZero(p, q, depth, fromP) ==
    {[PrefixP(p, depth) EXCEPT ![depth] =
        LastDigit(p, q, depth, fromP, step - 1)] : step \in Steps(p, q, depth)}
NewDigits(p, q, depth, fromP) ==
    {[PrefixP(p, depth) EXCEPT ![depth] =
        LastDigit(p, q, depth, fromP, step)] : step \in Steps(p, q, depth)}

\* The memory counts the depths from 0.
AllocatesFromZero(depth, fromP) ==
    bpbm' = [d \in DOMAIN bpbm \cup {depth - 1} |->
               IF d = depth - 1 THEN fromP ELSE bpbm[d]]

\* alloc steps from p or from q at this depth: the side is drawn the first
\* time the depth is used, and remembered.
Allocates(depth, fromP) ==
    /\ depth \in DOMAIN bpbm => bpbm[depth] = fromP
    /\ bpbm' = [d \in DOMAIN bpbm \cup {depth} |->
                  IF d = depth THEN fromP ELSE bpbm[d]]
NewId(path) == [path |-> path, clientId |-> "client-id"]

-----------------------------------------------------------------------------
(* The atoms.                                                              *)

\* The first atom with a greater identifier, or the place after the last.
IndexFor(id) ==
    LET greater == {i \in DOMAIN atoms : Less(id, atoms[i].id)}
    IN  IF greater = {} THEN Len(atoms) + 1
        ELSE CHOOSE i \in greater : \A j \in greater : i <= j

\* Always at the end.
addAtomLast(atom) == atoms' = Append(atoms, atom)

addAtom(atom) == atoms' = InsertAt(atoms, IndexFor(atom.id), atom)

\* delete: the atom with this identifier, if there is one.
delete(id) ==
    LET same == {i \in DOMAIN atoms : atoms[i].id = id}
    IN  atoms' = IF same = {} THEN atoms
                 ELSE RemoveAt(atoms, CHOOSE i \in same :
                                        \A j \in same : i <= j)

PathAt(i) == IF i = 0 THEN SENT_START.path
             ELSE IF i > Len(atoms) THEN SENT_END.path
             ELSE atoms[i].id.path

-----------------------------------------------------------------------------
\* insertCharAtPosition between the neighbours of the position.
Insert(position, char) ==
    LET p == PathAt(position)
        q == PathAt(position + 1)
    IN  /\ inserted < MaxInsert
        /\ inserted' = inserted + 1
        /\ call' = [op |-> "insert", position |-> position, char |-> char]
        /\ \E depth \in Depths(p, q), fromP \in BOOLEAN :
             /\ Allocates(depth, fromP)
             /\ \E path \in NewDigits(p, q, depth, fromP) :
                  addAtom([id |-> NewId(path), value |-> char])

\* deleteCharAtPosition; after the last character it finds SENT_END, which
\* is no atom, or nothing.
Delete(position) ==
    /\ call' = [op |-> "delete", position |-> position]
    /\ delete(IF position < Len(atoms) THEN atoms[position + 1].id
              ELSE SENT_END)
    /\ UNCHANGED <<bpbm, inserted>>

Next ==
    \E position \in 0..Len(atoms) :
        (\E char \in Char : Insert(position, char)) \/ Delete(position)

Spec == Init /\ [][Next]_vars

-----------------------------------------------------------------------------
(* Properties.                                                             *)

\* Every variable has its type.
TypeOK ==
    /\ atoms \in Seq(Atom)
    /\ DOMAIN bpbm \in SUBSET (Nat \ {0})
    /\ bpbm = [d \in DOMAIN bpbm |-> bpbm[d]]
    /\ \A d \in DOMAIN bpbm : bpbm[d] \in BOOLEAN
    /\ inserted \in 0..MaxInsert

\* After any history of insertions and deletions the identifiers strictly
\* increase along the atoms and lie strictly between the sentinels: none is
\* given twice, and an identifier drawn between two neighbours whose digits
\* have left no room separates them all the same.
AtomsOrdered ==
    \A i \in 0..Len(atoms) : \A j \in (i+1)..(Len(atoms)+1) :
        PathLess(PathAt(i), PathAt(j))

printString == [i \in DOMAIN atoms |-> atoms[i].value]

Buffer == INSTANCE TextBuffer WITH text <- printString

\* The text is edited exactly where the component was asked to edit it.
RefinesTextBuffer == Buffer!Spec
=============================================================================
