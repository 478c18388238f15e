------------------------------ MODULE RopeTree ------------------------------
(***************************************************************************)
(* The rope tree of the editor (collaboration/RopeTree): its leaves hold   *)
(* the identifiers of the text between the two sentinels, an internal node *)
(* keeps the length of what is below it.  A node is a leaf [ids] or        *)
(* [left, right, length]; positions and offsets count from 0 as in the     *)
(* code.  Its methods call themselves on the children of a node, and are    *)
(* recursive functions on the trees of a bounded height.                   *)
(***************************************************************************)
EXTENDS LseqIdentifier, SequencesExt

CONSTANTS
    MAX_LENGTH,   \* of a leaf (256 in the code)
    MaxHeight     \* bound of the height of a tree
ASSUME LeafAssumption == /\ MAX_LENGTH \in Nat /\ MAX_LENGTH >= 2
                         /\ MaxHeight \in Nat

\* null: an identifier without digits (isValidIdPath refuses it).
NoId == [path |-> <<>>, clientId |-> "client-id"]

Leaf == [ids : Seq(Identifier)]
TreeOf[height \in 0..MaxHeight] ==
    IF height = 0 THEN Leaf
    ELSE Leaf \cup [left : TreeOf[height - 1], right : TreeOf[height - 1],
                    length : Nat]
TreeNode == TreeOf[MaxHeight]

LeafNode(ids) == [ids |-> ids]
IsLeaf(node) == "ids" \in DOMAIN node

\* A leaf's length is computed from its identifiers, an internal node's is a
\* field.
length(node) == IF IsLeaf(node) THEN Len(node.ids) ELSE node.length
InternalNode(left, right) ==
    [left |-> left, right |-> right, length |-> length(left) + length(right)]

EmptyRope == LeafNode(<<SENT_START, SENT_END>>)

IdsOf[node \in TreeNode] ==
    IF IsLeaf(node) THEN node.ids ELSE IdsOf[node.left] \o IdsOf[node.right]

LeavesOf[node \in TreeNode] ==
    IF IsLeaf(node) THEN 1 ELSE LeavesOf[node.left] + LeavesOf[node.right]

-----------------------------------------------------------------------------
(* Searches.                                                               *)

searchInTree[node \in TreeNode] == [position \in Int |->
    IF IsLeaf(node) THEN [leaf |-> node.ids, offset |-> position]
    ELSE IF position < length(node.left)
    THEN searchInTree[node.left][position]
    ELSE searchInTree[node.right][position - length(node.left)]]

getIdAtOffset(ids, offset) ==
    IF offset + 1 \in DOMAIN ids THEN ids[offset + 1] ELSE NoId
FirstId(ids) == getIdAtOffset(ids, 0)
LastId(ids) == getIdAtOffset(ids, Len(ids) - 1)
Within(found) == found.offset < Len(found.leaf)

\* One neighbour too far to the left.
getInsertIdsShifted(root, position) ==
    LET found == searchInTree[root][position]
    IN  [p |-> getIdAtOffset(found.leaf, found.offset - 2),
         q |-> getIdAtOffset(found.leaf, found.offset)]

\* The neighbours p and q of an inserted position.
getInsertIds(root, position) ==
    LET found == searchInTree[root][position]
        before == searchInTree[root][position - 1]
        after == searchInTree[root][position + 1]
        p == getIdAtOffset(found.leaf, found.offset - 1)
        q == getIdAtOffset(found.leaf, found.offset)
    IN  CASE found.offset = 0 ->
               [p |-> IF before.offset >= 0 /\ Within(before)
                      THEN LastId(before.leaf) ELSE NoId,
                q |-> FirstId(found.leaf)]
          [] found.offset = Len(found.leaf) /\ found.offset # 0 ->
               [p |-> LastId(found.leaf),
                q |-> IF Within(after) THEN FirstId(after.leaf) ELSE NoId]
          [] OTHER ->
               IF p # NoId /\ q # NoId THEN [p |-> p, q |-> q]
               ELSE [p |-> NoId, q |-> NoId]

\* The identifier before the position.
getDeleteIdsShifted(root, position) ==
    LET found == searchInTree[root][position - 1]
    IN  getIdAtOffset(found.leaf, found.offset)
getDeleteIds(root, position) ==
    LET found == searchInTree[root][position]
    IN  getIdAtOffset(found.leaf, found.offset)

-----------------------------------------------------------------------------
(* Changes.                                                                *)

\* insertIdOrdered, at findOrderedInsertIndex.
insertIdOrdered(ids, id) ==
    LET greater == {i \in DOMAIN ids : Less(id, ids[i])}
    IN  InsertAt(ids, IF greater = {} THEN Len(ids) + 1
                      ELSE CHOOSE i \in greater : \A j \in greater : i <= j,
                 id)

\* The halves overlap: an off-by-one in the second slice.
splitOverlapping(ids) ==
    LET mid == Len(ids) \div 2
    IN  InternalNode(LeafNode(SubSeq(ids, 1, mid)),
                     LeafNode(SubSeq(ids, mid, Len(ids))))
split(ids) ==
    LET mid == Len(ids) \div 2
    IN  InternalNode(LeafNode(SubSeq(ids, 1, mid)),
                     LeafNode(SubSeq(ids, mid + 1, Len(ids))))

getLastIdInSubtree[node \in TreeNode] ==
    IF IsLeaf(node) THEN LastId(node.ids)
    ELSE IF getLastIdInSubtree[node.right] # NoId
    THEN getLastIdInSubtree[node.right] ELSE getLastIdInSubtree[node.left]

\* To the left of the root when the left subtree is empty or ends after id;
\* the lengths on the way down are recomputed.
GoesLeft(node, id) ==
    LET leftMax == getLastIdInSubtree[node.left]
    IN  leftMax = NoId \/ Less(id, leftMax)
InsertInLeaf(ids, id) ==
    LET longer == insertIdOrdered(ids, id)
    IN  IF Len(longer) <= MAX_LENGTH THEN LeafNode(longer) ELSE split(longer)
insert[node \in TreeNode] == [id \in Identifier |->
    IF IsLeaf(node) THEN InsertInLeaf(node.ids, id)
    ELSE IF GoesLeft(node, id)
    THEN InternalNode(insert[node.left][id], node.right)
    ELSE InternalNode(node.left, insert[node.right][id])]

\* delete removes the identifier from the first leaf that holds it and leaves
\* every internal node, its length included, as it is.
deleteId[node \in TreeNode] == [id \in Identifier |->
    IF IsLeaf(node) THEN LeafNode(RemoveFirst(node.ids, id))
    ELSE IF Contains(IdsOf[node.left], id)
    THEN [node EXCEPT !.left = deleteId[@][id]]
    ELSE [node EXCEPT !.right = deleteId[@][id]]]
=============================================================================
