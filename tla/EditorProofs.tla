---------------------------- MODULE EditorProofs ----------------------------
(***************************************************************************)
(* Proofs about RopeTree and Editor, for every length of a leaf, EndDigit, *)
(* Boundary, set of characters and bound of the insertions: the rope tree  *)
(* holds exactly the identifiers of the atoms, a search finds the one at   *)
(* its position, and so the component edits as Lseq does and its text as   *)
(* it was asked to (LseqProofs).                                           *)
(*                                                                         *)
(* delete leaves the lengths above a leaf as they are.  A tree of two      *)
(* leaves survives it: a search reads the length of a left subtree only,   *)
(* which is then a leaf and counts its own identifiers, and an insertion   *)
(* recomputes the root's length before it is a subtree.  In a tree of      *)
(* three leaves it does not (the counterexamples of EditorDeleting and     *)
(* EditorOrder), hence the hypothesis DeletableLeaves <= 2, and hence the  *)
(* invariant asks soundness of the root's subtrees and not of the root.    *)
(***************************************************************************)
EXTENDS Editor, LseqProofs, WellFoundedInduction

-----------------------------------------------------------------------------
(* Induction.                                                              *)

\* Every set of natural numbers that is not empty has a least element.
LEMMA LeastNumber ==
    ASSUME NEW T \in SUBSET Nat, T # {}
    PROVE  \E least \in T : \A n \in T : least <= n
<1> DEFINE R == {p \in Nat \X Nat : p[1] < p[2]}
<1>1. IsWellFoundedOn(R, Nat)
  <2>1. R = OpToRel(<, Nat)
    BY DEF OpToRel
  <2> QED BY <2>1, NatLessThanWellFounded
<1>2. \A m, n \in Nat : m < n => <<m, n>> \in R
  OBVIOUS
<1>. HIDE DEF R
<1>3. PICK least \in T : \A n \in T : <<n, least>> \notin R
  BY <1>1, WFMin
<1>4. \A n \in T : ~(n < least)
  BY <1>2, <1>3
<1>. QED BY <1>4

\* Induction up to a number, stated for sets.
LEMMA Upwards ==
    ASSUME NEW n \in Nat, NEW P, 0 \in P,
           \A h \in 0..(n - 1) : h \in P => h + 1 \in P
    PROVE  \A h \in 0..n : h \in P
<1> DEFINE T == {h \in 0..n : h \notin P}
<1>1. SUFFICES ASSUME T # {} PROVE FALSE
  OBVIOUS
<1>2. T \in SUBSET Nat
  OBVIOUS
<1>3. PICK least \in T : \A h \in T : least <= h
  <2> HIDE DEF T
  <2> QED BY <1>1, <1>2, LeastNumber
<1>4. least \in 0..n /\ least \notin P /\ least # 0
  OBVIOUS
<1>5. least - 1 \in 0..(n - 1) /\ ~(least <= least - 1)
  BY <1>4
<1>6. least - 1 \in P
  BY <1>3, <1>5
<1>7. (least - 1) + 1 = least
  BY <1>4
<1> QED BY <1>4, <1>5, <1>6, <1>7

-----------------------------------------------------------------------------
(* The trees.                                                              *)

\* There is such a sequence of sets: its first members are found one after
\* another.
LEMMA TreeOfIs ==
    TreeOf = [height \in 0..MaxHeight |->
                IF height = 0 THEN Leaf
                ELSE Leaf \cup [left : TreeOf[height - 1],
                                right : TreeOf[height - 1], length : Nat]]
<1> DEFINE Higher(T) == Leaf \cup [left : T, right : T, length : Nat]
           Upto(f, n) == f = [h \in 0..n |-> IF h = 0 THEN Leaf
                                             ELSE Higher(f[h - 1])]
           P == {n \in 0..MaxHeight : \E f : Upto(f, n)}
<1> HIDE DEF Higher
<1>0. MaxHeight \in Nat
  BY LeafAssumption
<1>1. 0 \in P
  <2> DEFINE f == [h \in 0..0 |-> Leaf]
  <2>1. Upto(f, 0)
    OBVIOUS
  <2> HIDE DEF f
  <2>2. 0 \in 0..MaxHeight /\ \E F : Upto(F, 0)
    BY <1>0, <2>1
  <2> HIDE DEF Upto
  <2> QED BY <2>2
<1>2. ASSUME NEW n \in 0..(MaxHeight - 1), n \in P
      PROVE  n + 1 \in P
  <2>1. PICK f : Upto(f, n)
    BY <1>2
  <2> DEFINE g == [h \in 0..(n + 1) |-> IF h <= n THEN f[h]
                                        ELSE Higher(f[n])]
  <2>2. ASSUME NEW h \in 0..(n + 1)
        PROVE  g[h] = IF h = 0 THEN Leaf ELSE Higher(g[h - 1])
    <3>1. CASE h = 0
      BY <2>1, <3>1
    <3>2. CASE h # 0 /\ h <= n
      <4>1. h \in 0..n /\ h - 1 \in 0..n /\ h - 1 \in 0..(n + 1)
        BY <3>2
      <4>2. g[h] = f[h] /\ g[h - 1] = f[h - 1]
        BY <3>2, <4>1
      <4> QED BY <2>1, <3>2, <4>1, <4>2
    <3>3. CASE h = n + 1
      <4>1. ~(h <= n) /\ n \in 0..(n + 1) /\ h - 1 = n /\ h # 0
        BY <3>3
      <4> QED BY <3>3, <4>1
    <3> QED BY <3>1, <3>2, <3>3
  <2>3. Upto(g, n + 1)
    <3> DEFINE k == [h \in 0..(n + 1) |-> IF h = 0 THEN Leaf
                                          ELSE Higher(g[h - 1])]
    <3>1. \A h \in 0..(n + 1) : g[h] = k[h]
      BY <2>2
    <3>2. g = k
      BY <3>1
    <3> QED BY <3>2
  <2>4. n + 1 \in 0..MaxHeight
    BY <1>0
  <2> QED BY <2>3, <2>4
<1>3. MaxHeight \in P
  <2>1. \A n \in 0..(MaxHeight - 1) : n \in P => n + 1 \in P
    BY <1>2
  <2>2. \A n \in 0..MaxHeight : n \in P
    <3> HIDE DEF P
    <3> QED BY <1>0, <1>1, <2>1, Upwards
  <2> QED BY <1>0, <2>2
<1>4. PICK f : Upto(f, MaxHeight)
  BY <1>3
<1> QED BY <1>4 DEF TreeOf, Higher

\* The sets of trees of a height, one by one.
LEMMA TreeOfAt ==
    /\ MaxHeight \in Nat
    /\ TreeOf[0] = Leaf
    /\ \A h \in 0..(MaxHeight - 1) :
         TreeOf[h + 1] = Leaf \cup [left : TreeOf[h], right : TreeOf[h],
                                    length : Nat]
<1>1. MaxHeight \in Nat
  BY LeafAssumption
<1>2. TreeOf[0] = Leaf
  BY <1>1, TreeOfIs
<1>3. ASSUME NEW h \in 0..(MaxHeight - 1)
      PROVE  TreeOf[h + 1] = Leaf \cup [left : TreeOf[h], right : TreeOf[h],
                                        length : Nat]
  <2>1. h + 1 \in 0..MaxHeight /\ h + 1 # 0 /\ (h + 1) - 1 = h
    BY <1>1
  <2> QED BY <2>1, TreeOfIs
<1> QED BY <1>1, <1>2, <1>3

\* A leaf is a leaf, and any other node is none.
LEMMA LeafShape ==
    ASSUME NEW node \in Leaf
    PROVE  IsLeaf(node) /\ node.ids \in Seq(Identifier)
           /\ node = LeafNode(node.ids)
  BY DEF Leaf, IsLeaf, LeafNode

\* An internal node has two trees below it and a length.
LEMMA InnerShape ==
    ASSUME NEW T, NEW node \in [left : T, right : T, length : Nat]
    PROVE  /\ ~IsLeaf(node)
           /\ node.left \in T /\ node.right \in T /\ node.length \in Nat
           /\ node = [left |-> node.left, right |-> node.right,
                      length |-> node.length]
  BY DEF IsLeaf

\* A tree is a tree of any greater height.
LEMMA TreesGrow ==
    \A h \in 0..MaxHeight : \A k \in h..MaxHeight : TreeOf[h] \subseteq TreeOf[k]
<1> DEFINE P == {h \in 0..(MaxHeight - 1) : TreeOf[h] \subseteq TreeOf[h + 1]}
<1>0. MaxHeight \in Nat
  BY TreeOfAt
<1>1. \A h \in 0..(MaxHeight - 1) : h \in P
  <2>1. CASE MaxHeight = 0
    BY <2>1
  <2>2. CASE MaxHeight # 0
    <3>1. MaxHeight - 1 \in Nat /\ 0 \in 0..(MaxHeight - 1)
      BY <1>0, <2>2
    <3>2. 0 \in P
      <4>1. TreeOf[0 + 1] = Leaf \cup [left : TreeOf[0], right : TreeOf[0],
                                    length : Nat]
        BY <3>1, TreeOfAt
      <4> QED BY <3>1, <4>1, TreeOfAt
    <3>3. ASSUME NEW h \in 0..((MaxHeight - 1) - 1), h \in P
          PROVE  h + 1 \in P
      <4>1. h \in 0..(MaxHeight - 1) /\ h + 1 \in 0..(MaxHeight - 1)
        BY <1>0
      <4>2. /\ TreeOf[h + 1] = Leaf \cup [left : TreeOf[h], right : TreeOf[h],
                                          length : Nat]
            /\ TreeOf[(h + 1) + 1] =
                 Leaf \cup [left : TreeOf[h + 1], right : TreeOf[h + 1],
                            length : Nat]
        BY <4>1, TreeOfAt
      <4>3. TreeOf[h] \subseteq TreeOf[h + 1]
        BY <3>3
      <4>4. [left : TreeOf[h], right : TreeOf[h], length : Nat] \subseteq
              [left : TreeOf[h + 1], right : TreeOf[h + 1], length : Nat]
        BY <4>3
      <4> QED BY <4>1, <4>2, <4>4
    <3> HIDE DEF P
    <3> QED BY <3>1, <3>2, <3>3, Upwards
  <2> QED BY <2>1, <2>2
<1>2. ASSUME NEW h \in 0..MaxHeight
      PROVE  \A k \in h..MaxHeight : TreeOf[h] \subseteq TreeOf[k]
  <2> DEFINE n == MaxHeight - h
             Q == {i \in 0..n : TreeOf[h] \subseteq TreeOf[h + i]}
  <2>1. n \in Nat /\ 0 \in Q
    <3>1. h + 0 = h /\ n \in Nat
      BY <1>0
    <3> QED BY <3>1
  <2>2. ASSUME NEW i \in 0..(n - 1), i \in Q
        PROVE  i + 1 \in Q
    <3>1. h + i \in 0..(MaxHeight - 1) /\ h + (i + 1) = (h + i) + 1
          /\ i + 1 \in 0..n
      BY <1>0
    <3>2. TreeOf[h + i] \subseteq TreeOf[(h + i) + 1]
      BY <1>1, <3>1
    <3>3. TreeOf[h] \subseteq TreeOf[h + (i + 1)]
      BY <2>2, <3>1, <3>2
    <3> QED BY <3>1, <3>3
  <2>3. \A i \in 0..n : i \in Q
    <3> HIDE DEF n, Q
    <3> QED BY <2>1, <2>2, Upwards
  <2>4. ASSUME NEW k \in h..MaxHeight
        PROVE  TreeOf[h] \subseteq TreeOf[k]
    <3>1. k - h \in 0..n /\ h + (k - h) = k
      BY <1>0
    <3> QED BY <2>3, <3>1
  <2> QED BY <2>4
<1> QED BY <1>2

\* What a node of the tree is.
LEMMA NodeAt ==
    ASSUME NEW h \in 0..(MaxHeight - 1), NEW node \in TreeOf[h + 1]
    PROVE  \/ node \in Leaf /\ IsLeaf(node)
           \/ /\ ~IsLeaf(node)
              /\ node.left \in TreeOf[h] /\ node.right \in TreeOf[h]
              /\ node.length \in Nat
              /\ node = [left |-> node.left, right |-> node.right,
                         length |-> node.length]
<1>1. TreeOf[h + 1] = Leaf \cup [left : TreeOf[h], right : TreeOf[h],
                                 length : Nat]
  BY TreeOfAt
<1>2. CASE node \in Leaf
  BY <1>2, LeafShape
<1>3. CASE node \in [left : TreeOf[h], right : TreeOf[h], length : Nat]
  <2> DEFINE T == TreeOf[h]
  <2>1. node \in [left : T, right : T, length : Nat]
    BY <1>3
  <2> HIDE DEF T
  <2>2. /\ ~IsLeaf(node)
        /\ node.left \in T /\ node.right \in T /\ node.length \in Nat
        /\ node = [left |-> node.left, right |-> node.right,
                   length |-> node.length]
    BY <2>1, InnerShape
  <2> QED BY <2>2 DEF T
<1> QED BY <1>1, <1>2, <1>3

\* A tree of some height below another is one of the trees.
LEMMA TreeNodes ==
    ASSUME NEW h \in 0..MaxHeight
    PROVE  TreeOf[h] \subseteq TreeNode /\ Leaf \subseteq TreeOf[h]
<1>1. MaxHeight \in Nat /\ TreeOf[0] = Leaf
  BY TreeOfAt
<1>2. 0 \in 0..MaxHeight /\ h \in 0..MaxHeight /\ MaxHeight \in h..MaxHeight
  BY <1>1
<1> QED BY <1>1, <1>2, TreesGrow DEF TreeNode

\* Induction on trees, stated for sets.
LEMMA TreeInduction ==
    ASSUME NEW P, Leaf \subseteq P,
           ASSUME NEW node \in TreeNode, ~IsLeaf(node),
                  node.left \in P, node.right \in P
           PROVE  node \in P
    PROVE  TreeNode \subseteq P
<1> DEFINE Q == {h \in 0..MaxHeight : TreeOf[h] \subseteq P}
<1>0. MaxHeight \in Nat /\ TreeOf[0] = Leaf
  BY TreeOfAt
<1>1. 0 \in Q
  BY <1>0
<1>2. ASSUME NEW h \in 0..(MaxHeight - 1), h \in Q
      PROVE  h + 1 \in Q
  <2>1. h + 1 \in 0..MaxHeight
    BY <1>0
  <2>2. ASSUME NEW node \in TreeOf[h + 1]
        PROVE  node \in P
    <3>1. node \in TreeNode
      BY <2>1, TreeNodes
    <3>2. CASE IsLeaf(node)
      BY <3>2, NodeAt
    <3>3. CASE ~IsLeaf(node)
      <4>1. node.left \in P /\ node.right \in P
        BY <1>2, <3>3, NodeAt
      <4> QED BY <3>1, <3>3, <4>1
    <3> QED BY <3>2, <3>3
  <2> QED BY <2>1, <2>2
<1>3. \A h \in 0..MaxHeight : h \in Q
  <2> HIDE DEF Q
  <2> QED BY <1>0, <1>1, <1>2, Upwards
<1> QED BY <1>0, <1>3 DEF TreeNode

\* A tree is a leaf or has two trees below it.
LEMMA Children ==
    ASSUME NEW node \in TreeNode
    PROVE  \/ node \in Leaf /\ IsLeaf(node)
           \/ /\ ~IsLeaf(node)
              /\ node.left \in TreeNode /\ node.right \in TreeNode
              /\ node.length \in Nat
              /\ node = [left |-> node.left, right |-> node.right,
                         length |-> node.length]
<1>0. MaxHeight \in Nat /\ TreeOf[0] = Leaf
  BY TreeOfAt
<1>1. CASE MaxHeight = 0
  BY <1>0, <1>1, LeafShape DEF TreeNode
<1>2. CASE MaxHeight # 0
  <2>1. /\ MaxHeight - 1 \in 0..(MaxHeight - 1)
        /\ MaxHeight - 1 \in 0..MaxHeight /\ (MaxHeight - 1) + 1 = MaxHeight
    BY <1>0, <1>2
  <2>2. TreeOf[MaxHeight - 1] \subseteq TreeNode
    BY <2>1, TreeNodes
  <2>3. node \in TreeOf[(MaxHeight - 1) + 1]
    BY <2>1 DEF TreeNode
  <2> DEFINE h == MaxHeight - 1
  <2>4. h \in 0..(MaxHeight - 1) /\ node \in TreeOf[h + 1]
        /\ TreeOf[h] \subseteq TreeNode
    BY <2>1, <2>2, <2>3
  <2> HIDE DEF h
  <2>5. \/ node \in Leaf /\ IsLeaf(node)
        \/ /\ ~IsLeaf(node)
           /\ node.left \in TreeOf[h] /\ node.right \in TreeOf[h]
           /\ node.length \in Nat
           /\ node = [left |-> node.left, right |-> node.right,
                      length |-> node.length]
    BY <2>4, NodeAt
  <2> QED BY <2>4, <2>5
<1> QED BY <1>1, <1>2

-----------------------------------------------------------------------------
(* The recursive functions exist, each for the same reason as TreeOf.      *)

\* IdsOf satisfies its equation.
LEMMA IdsOfIs == IdsOf = [node \in TreeNode |->
    IF IsLeaf(node) THEN node.ids ELSE IdsOf[node.left] \o IdsOf[node.right]]
<1> DEFINE Body(f, node) ==
    IF IsLeaf(node) THEN node.ids ELSE f[node.left] \o f[node.right]
           On(f, h) == f = [node \in TreeOf[h] |-> Body(f, node)]
           P == {h \in 0..MaxHeight : \E f : On(f, h)}
<1>0. MaxHeight \in Nat /\ TreeOf[0] = Leaf
  BY TreeOfAt
<1>1. ASSUME NEW f, NEW g, NEW node,
             IsLeaf(node) \/ /\ f[node.left] = g[node.left]
                             /\ f[node.right] = g[node.right]
      PROVE  Body(f, node) = Body(g, node)
  BY <1>1
<1> HIDE DEF Body
<1>2. 0 \in P
  <2> DEFINE f == [node \in TreeOf[0] |-> Body(<<>>, node)]
  <2>1. \A node \in TreeOf[0] : Body(f, node) = Body(<<>>, node)
    BY <1>0, <1>1, LeafShape
  <2>2. On(f, 0)
    BY <2>1
  <2> HIDE DEF f
  <2>3. \E F : On(F, 0)
    BY <2>2
  <2> QED BY <1>0, <2>3
<1>3. ASSUME NEW h \in 0..(MaxHeight - 1), h \in P
      PROVE  h + 1 \in P
  <2>1. PICK f : On(f, h)
    BY <1>3
  <2> DEFINE g == [node \in TreeOf[h + 1] |-> Body(f, node)]
  <2>2. h \in 0..MaxHeight /\ h + 1 \in h..MaxHeight /\ h + 1 \in 0..MaxHeight
    BY <1>0
  <2>3. TreeOf[h] \subseteq TreeOf[h + 1]
    BY <2>2, TreesGrow
  <2>4. \A node \in TreeOf[h] : f[node] = g[node]
    BY <2>1, <2>3
  <2>5. ASSUME NEW node \in TreeOf[h + 1]
        PROVE  Body(f, node) = Body(g, node)
    <3>1. CASE IsLeaf(node)
      BY <1>1, <3>1
    <3>2. CASE ~IsLeaf(node)
      <4>1. node.left \in TreeOf[h] /\ node.right \in TreeOf[h]
        BY <3>2, NodeAt
      <4>2. f[node.left] = g[node.left] /\ f[node.right] = g[node.right]
        BY <2>4, <4>1
      <4> HIDE DEF g
      <4> QED BY <1>1, <4>2
    <3> QED BY <3>1, <3>2
  <2>6. On(g, h + 1)
    BY <2>5
  <2> HIDE DEF g
  <2>7. \E F : On(F, h + 1)
    BY <2>6
  <2> QED BY <2>2, <2>7
<1>4. MaxHeight \in P
  <2>1. \A h \in 0..MaxHeight : h \in P
    <3> HIDE DEF P
    <3> QED BY <1>0, <1>2, <1>3, Upwards
  <2> QED BY <1>0, <2>1
<1>5. PICK f : On(f, MaxHeight)
  BY <1>4
<1> QED BY <1>5 DEF IdsOf, TreeNode, Body

\* LeavesOf satisfies its equation.
LEMMA LeavesOfIs == LeavesOf = [node \in TreeNode |->
    IF IsLeaf(node) THEN 1 ELSE LeavesOf[node.left] + LeavesOf[node.right]]
<1> DEFINE Body(f, node) ==
    IF IsLeaf(node) THEN 1 ELSE f[node.left] + f[node.right]
           On(f, h) == f = [node \in TreeOf[h] |-> Body(f, node)]
           P == {h \in 0..MaxHeight : \E f : On(f, h)}
<1>0. MaxHeight \in Nat /\ TreeOf[0] = Leaf
  BY TreeOfAt
<1>1. ASSUME NEW f, NEW g, NEW node,
             IsLeaf(node) \/ /\ f[node.left] = g[node.left]
                             /\ f[node.right] = g[node.right]
      PROVE  Body(f, node) = Body(g, node)
  BY <1>1
<1> HIDE DEF Body
<1>2. 0 \in P
  <2> DEFINE f == [node \in TreeOf[0] |-> Body(<<>>, node)]
  <2>1. \A node \in TreeOf[0] : Body(f, node) = Body(<<>>, node)
    BY <1>0, <1>1, LeafShape
  <2>2. On(f, 0)
    BY <2>1
  <2> HIDE DEF f
  <2>3. \E F : On(F, 0)
    BY <2>2
  <2> QED BY <1>0, <2>3
<1>3. ASSUME NEW h \in 0..(MaxHeight - 1), h \in P
      PROVE  h + 1 \in P
  <2>1. PICK f : On(f, h)
    BY <1>3
  <2> DEFINE g == [node \in TreeOf[h + 1] |-> Body(f, node)]
  <2>2. h \in 0..MaxHeight /\ h + 1 \in h..MaxHeight /\ h + 1 \in 0..MaxHeight
    BY <1>0
  <2>3. TreeOf[h] \subseteq TreeOf[h + 1]
    BY <2>2, TreesGrow
  <2>4. \A node \in TreeOf[h] : f[node] = g[node]
    BY <2>1, <2>3
  <2>5. ASSUME NEW node \in TreeOf[h + 1]
        PROVE  Body(f, node) = Body(g, node)
    <3>1. CASE IsLeaf(node)
      BY <1>1, <3>1
    <3>2. CASE ~IsLeaf(node)
      <4>1. node.left \in TreeOf[h] /\ node.right \in TreeOf[h]
        BY <3>2, NodeAt
      <4>2. f[node.left] = g[node.left] /\ f[node.right] = g[node.right]
        BY <2>4, <4>1
      <4> HIDE DEF g
      <4> QED BY <1>1, <4>2
    <3> QED BY <3>1, <3>2
  <2>6. On(g, h + 1)
    BY <2>5
  <2> HIDE DEF g
  <2>7. \E F : On(F, h + 1)
    BY <2>6
  <2> QED BY <2>2, <2>7
<1>4. MaxHeight \in P
  <2>1. \A h \in 0..MaxHeight : h \in P
    <3> HIDE DEF P
    <3> QED BY <1>0, <1>2, <1>3, Upwards
  <2> QED BY <1>0, <2>1
<1>5. PICK f : On(f, MaxHeight)
  BY <1>4
<1> QED BY <1>5 DEF LeavesOf, TreeNode, Body

\* searchInTree satisfies its equation.
LEMMA searchInTreeIs == searchInTree = [node \in TreeNode |-> [position \in Int |->
    IF IsLeaf(node) THEN [leaf |-> node.ids, offset |-> position]
    ELSE IF position < length(node.left)
    THEN searchInTree[node.left][position]
    ELSE searchInTree[node.right][position - length(node.left)]]]
<1> DEFINE Body(f, node) == [position \in Int |->
    IF IsLeaf(node) THEN [leaf |-> node.ids, offset |-> position]
    ELSE IF position < length(node.left)
    THEN f[node.left][position]
    ELSE f[node.right][position - length(node.left)]]
           On(f, h) == f = [node \in TreeOf[h] |-> Body(f, node)]
           P == {h \in 0..MaxHeight : \E f : On(f, h)}
<1>0. MaxHeight \in Nat /\ TreeOf[0] = Leaf
  BY TreeOfAt
<1>1. ASSUME NEW f, NEW g, NEW node,
             IsLeaf(node) \/ /\ f[node.left] = g[node.left]
                             /\ f[node.right] = g[node.right]
      PROVE  Body(f, node) = Body(g, node)
  BY <1>1
<1> HIDE DEF Body
<1>2. 0 \in P
  <2> DEFINE f == [node \in TreeOf[0] |-> Body(<<>>, node)]
  <2>1. \A node \in TreeOf[0] : Body(f, node) = Body(<<>>, node)
    BY <1>0, <1>1, LeafShape
  <2>2. On(f, 0)
    BY <2>1
  <2> HIDE DEF f
  <2>3. \E F : On(F, 0)
    BY <2>2
  <2> QED BY <1>0, <2>3
<1>3. ASSUME NEW h \in 0..(MaxHeight - 1), h \in P
      PROVE  h + 1 \in P
  <2>1. PICK f : On(f, h)
    BY <1>3
  <2> DEFINE g == [node \in TreeOf[h + 1] |-> Body(f, node)]
  <2>2. h \in 0..MaxHeight /\ h + 1 \in h..MaxHeight /\ h + 1 \in 0..MaxHeight
    BY <1>0
  <2>3. TreeOf[h] \subseteq TreeOf[h + 1]
    BY <2>2, TreesGrow
  <2>4. \A node \in TreeOf[h] : f[node] = g[node]
    BY <2>1, <2>3
  <2>5. ASSUME NEW node \in TreeOf[h + 1]
        PROVE  Body(f, node) = Body(g, node)
    <3>1. CASE IsLeaf(node)
      BY <1>1, <3>1
    <3>2. CASE ~IsLeaf(node)
      <4>1. node.left \in TreeOf[h] /\ node.right \in TreeOf[h]
        BY <3>2, NodeAt
      <4>2. f[node.left] = g[node.left] /\ f[node.right] = g[node.right]
        BY <2>4, <4>1
      <4> HIDE DEF g
      <4> QED BY <1>1, <4>2
    <3> QED BY <3>1, <3>2
  <2>6. On(g, h + 1)
    BY <2>5
  <2> HIDE DEF g
  <2>7. \E F : On(F, h + 1)
    BY <2>6
  <2> QED BY <2>2, <2>7
<1>4. MaxHeight \in P
  <2>1. \A h \in 0..MaxHeight : h \in P
    <3> HIDE DEF P
    <3> QED BY <1>0, <1>2, <1>3, Upwards
  <2> QED BY <1>0, <2>1
<1>5. PICK f : On(f, MaxHeight)
  BY <1>4
<1> QED BY <1>5 DEF searchInTree, TreeNode, Body

\* getLastIdInSubtree satisfies its equation.
LEMMA getLastIdInSubtreeIs == getLastIdInSubtree = [node \in TreeNode |->
    IF IsLeaf(node) THEN LastId(node.ids)
    ELSE IF getLastIdInSubtree[node.right] # NoId
    THEN getLastIdInSubtree[node.right] ELSE getLastIdInSubtree[node.left]]
<1> DEFINE Body(f, node) ==
    IF IsLeaf(node) THEN LastId(node.ids)
    ELSE IF f[node.right] # NoId
    THEN f[node.right] ELSE f[node.left]
           On(f, h) == f = [node \in TreeOf[h] |-> Body(f, node)]
           P == {h \in 0..MaxHeight : \E f : On(f, h)}
<1>0. MaxHeight \in Nat /\ TreeOf[0] = Leaf
  BY TreeOfAt
<1>1. ASSUME NEW f, NEW g, NEW node,
             IsLeaf(node) \/ /\ f[node.left] = g[node.left]
                             /\ f[node.right] = g[node.right]
      PROVE  Body(f, node) = Body(g, node)
  BY <1>1
<1> HIDE DEF Body
<1>2. 0 \in P
  <2> DEFINE f == [node \in TreeOf[0] |-> Body(<<>>, node)]
  <2>1. \A node \in TreeOf[0] : Body(f, node) = Body(<<>>, node)
    BY <1>0, <1>1, LeafShape
  <2>2. On(f, 0)
    BY <2>1
  <2> HIDE DEF f
  <2>3. \E F : On(F, 0)
    BY <2>2
  <2> QED BY <1>0, <2>3
<1>3. ASSUME NEW h \in 0..(MaxHeight - 1), h \in P
      PROVE  h + 1 \in P
  <2>1. PICK f : On(f, h)
    BY <1>3
  <2> DEFINE g == [node \in TreeOf[h + 1] |-> Body(f, node)]
  <2>2. h \in 0..MaxHeight /\ h + 1 \in h..MaxHeight /\ h + 1 \in 0..MaxHeight
    BY <1>0
  <2>3. TreeOf[h] \subseteq TreeOf[h + 1]
    BY <2>2, TreesGrow
  <2>4. \A node \in TreeOf[h] : f[node] = g[node]
    BY <2>1, <2>3
  <2>5. ASSUME NEW node \in TreeOf[h + 1]
        PROVE  Body(f, node) = Body(g, node)
    <3>1. CASE IsLeaf(node)
      BY <1>1, <3>1
    <3>2. CASE ~IsLeaf(node)
      <4>1. node.left \in TreeOf[h] /\ node.right \in TreeOf[h]
        BY <3>2, NodeAt
      <4>2. f[node.left] = g[node.left] /\ f[node.right] = g[node.right]
        BY <2>4, <4>1
      <4> HIDE DEF g
      <4> QED BY <1>1, <4>2
    <3> QED BY <3>1, <3>2
  <2>6. On(g, h + 1)
    BY <2>5
  <2> HIDE DEF g
  <2>7. \E F : On(F, h + 1)
    BY <2>6
  <2> QED BY <2>2, <2>7
<1>4. MaxHeight \in P
  <2>1. \A h \in 0..MaxHeight : h \in P
    <3> HIDE DEF P
    <3> QED BY <1>0, <1>2, <1>3, Upwards
  <2> QED BY <1>0, <2>1
<1>5. PICK f : On(f, MaxHeight)
  BY <1>4
<1> QED BY <1>5 DEF getLastIdInSubtree, TreeNode, Body

\* insert satisfies its equation.
LEMMA insertIs == insert = [node \in TreeNode |-> [id \in Identifier |->
    IF IsLeaf(node) THEN InsertInLeaf(node.ids, id)
    ELSE IF GoesLeft(node, id)
    THEN InternalNode(insert[node.left][id], node.right)
    ELSE InternalNode(node.left, insert[node.right][id])]]
<1> DEFINE Body(f, node) == [id \in Identifier |->
    IF IsLeaf(node) THEN InsertInLeaf(node.ids, id)
    ELSE IF GoesLeft(node, id)
    THEN InternalNode(f[node.left][id], node.right)
    ELSE InternalNode(node.left, f[node.right][id])]
           On(f, h) == f = [node \in TreeOf[h] |-> Body(f, node)]
           P == {h \in 0..MaxHeight : \E f : On(f, h)}
<1>0. MaxHeight \in Nat /\ TreeOf[0] = Leaf
  BY TreeOfAt
<1>1. ASSUME NEW f, NEW g, NEW node,
             IsLeaf(node) \/ /\ f[node.left] = g[node.left]
                             /\ f[node.right] = g[node.right]
      PROVE  Body(f, node) = Body(g, node)
  BY <1>1
<1> HIDE DEF Body
<1>2. 0 \in P
  <2> DEFINE f == [node \in TreeOf[0] |-> Body(<<>>, node)]
  <2>1. \A node \in TreeOf[0] : Body(f, node) = Body(<<>>, node)
    BY <1>0, <1>1, LeafShape
  <2>2. On(f, 0)
    BY <2>1
  <2> HIDE DEF f
  <2>3. \E F : On(F, 0)
    BY <2>2
  <2> QED BY <1>0, <2>3
<1>3. ASSUME NEW h \in 0..(MaxHeight - 1), h \in P
      PROVE  h + 1 \in P
  <2>1. PICK f : On(f, h)
    BY <1>3
  <2> DEFINE g == [node \in TreeOf[h + 1] |-> Body(f, node)]
  <2>2. h \in 0..MaxHeight /\ h + 1 \in h..MaxHeight /\ h + 1 \in 0..MaxHeight
    BY <1>0
  <2>3. TreeOf[h] \subseteq TreeOf[h + 1]
    BY <2>2, TreesGrow
  <2>4. \A node \in TreeOf[h] : f[node] = g[node]
    BY <2>1, <2>3
  <2>5. ASSUME NEW node \in TreeOf[h + 1]
        PROVE  Body(f, node) = Body(g, node)
    <3>1. CASE IsLeaf(node)
      BY <1>1, <3>1
    <3>2. CASE ~IsLeaf(node)
      <4>1. node.left \in TreeOf[h] /\ node.right \in TreeOf[h]
        BY <3>2, NodeAt
      <4>2. f[node.left] = g[node.left] /\ f[node.right] = g[node.right]
        BY <2>4, <4>1
      <4> HIDE DEF g
      <4> QED BY <1>1, <4>2
    <3> QED BY <3>1, <3>2
  <2>6. On(g, h + 1)
    BY <2>5
  <2> HIDE DEF g
  <2>7. \E F : On(F, h + 1)
    BY <2>6
  <2> QED BY <2>2, <2>7
<1>4. MaxHeight \in P
  <2>1. \A h \in 0..MaxHeight : h \in P
    <3> HIDE DEF P
    <3> QED BY <1>0, <1>2, <1>3, Upwards
  <2> QED BY <1>0, <2>1
<1>5. PICK f : On(f, MaxHeight)
  BY <1>4
<1> QED BY <1>5 DEF insert, TreeNode, Body

\* deleteId satisfies its equation.
LEMMA deleteIdIs == deleteId = [node \in TreeNode |-> [id \in Identifier |->
    IF IsLeaf(node) THEN LeafNode(RemoveFirst(node.ids, id))
    ELSE IF Contains(IdsOf[node.left], id)
    THEN [node EXCEPT !.left = deleteId[@][id]]
    ELSE [node EXCEPT !.right = deleteId[@][id]]]]
<1> DEFINE Body(f, node) == [id \in Identifier |->
    IF IsLeaf(node) THEN LeafNode(RemoveFirst(node.ids, id))
    ELSE IF Contains(IdsOf[node.left], id)
    THEN [node EXCEPT !.left = f[@][id]]
    ELSE [node EXCEPT !.right = f[@][id]]]
           On(f, h) == f = [node \in TreeOf[h] |-> Body(f, node)]
           P == {h \in 0..MaxHeight : \E f : On(f, h)}
<1>0. MaxHeight \in Nat /\ TreeOf[0] = Leaf
  BY TreeOfAt
<1>1. ASSUME NEW f, NEW g, NEW node,
             IsLeaf(node) \/ /\ f[node.left] = g[node.left]
                             /\ f[node.right] = g[node.right]
      PROVE  Body(f, node) = Body(g, node)
  BY <1>1
<1> HIDE DEF Body
<1>2. 0 \in P
  <2> DEFINE f == [node \in TreeOf[0] |-> Body(<<>>, node)]
  <2>1. \A node \in TreeOf[0] : Body(f, node) = Body(<<>>, node)
    BY <1>0, <1>1, LeafShape
  <2>2. On(f, 0)
    BY <2>1
  <2> HIDE DEF f
  <2>3. \E F : On(F, 0)
    BY <2>2
  <2> QED BY <1>0, <2>3
<1>3. ASSUME NEW h \in 0..(MaxHeight - 1), h \in P
      PROVE  h + 1 \in P
  <2>1. PICK f : On(f, h)
    BY <1>3
  <2> DEFINE g == [node \in TreeOf[h + 1] |-> Body(f, node)]
  <2>2. h \in 0..MaxHeight /\ h + 1 \in h..MaxHeight /\ h + 1 \in 0..MaxHeight
    BY <1>0
  <2>3. TreeOf[h] \subseteq TreeOf[h + 1]
    BY <2>2, TreesGrow
  <2>4. \A node \in TreeOf[h] : f[node] = g[node]
    BY <2>1, <2>3
  <2>5. ASSUME NEW node \in TreeOf[h + 1]
        PROVE  Body(f, node) = Body(g, node)
    <3>1. CASE IsLeaf(node)
      BY <1>1, <3>1
    <3>2. CASE ~IsLeaf(node)
      <4>1. node.left \in TreeOf[h] /\ node.right \in TreeOf[h]
        BY <3>2, NodeAt
      <4>2. f[node.left] = g[node.left] /\ f[node.right] = g[node.right]
        BY <2>4, <4>1
      <4> HIDE DEF g
      <4> QED BY <1>1, <4>2
    <3> QED BY <3>1, <3>2
  <2>6. On(g, h + 1)
    BY <2>5
  <2> HIDE DEF g
  <2>7. \E F : On(F, h + 1)
    BY <2>6
  <2> QED BY <2>2, <2>7
<1>4. MaxHeight \in P
  <2>1. \A h \in 0..MaxHeight : h \in P
    <3> HIDE DEF P
    <3> QED BY <1>0, <1>2, <1>3, Upwards
  <2> QED BY <1>0, <2>1
<1>5. PICK f : On(f, MaxHeight)
  BY <1>4
<1> QED BY <1>5 DEF deleteId, TreeNode, Body

\* Internal nodes have exact lengths, and identifiers to their left.
Sound[node \in TreeNode] ==
    IF IsLeaf(node) THEN TRUE
    ELSE /\ Sound[node.left] /\ Sound[node.right]
         /\ IdsOf[node.left] # <<>>
         /\ node.length = Len(IdsOf[node])

\* Sound satisfies its equation.
LEMMA SoundIs == Sound = [node \in TreeNode |->
    IF IsLeaf(node) THEN TRUE
    ELSE /\ Sound[node.left] /\ Sound[node.right]
         /\ IdsOf[node.left] # <<>>
         /\ node.length = Len(IdsOf[node])]
<1> DEFINE Body(f, node) ==
    IF IsLeaf(node) THEN TRUE
    ELSE /\ f[node.left] /\ f[node.right]
         /\ IdsOf[node.left] # <<>>
         /\ node.length = Len(IdsOf[node])
           On(f, h) == f = [node \in TreeOf[h] |-> Body(f, node)]
           P == {h \in 0..MaxHeight : \E f : On(f, h)}
<1>0. MaxHeight \in Nat /\ TreeOf[0] = Leaf
  BY TreeOfAt
<1>1. ASSUME NEW f, NEW g, NEW node,
             IsLeaf(node) \/ /\ f[node.left] = g[node.left]
                             /\ f[node.right] = g[node.right]
      PROVE  Body(f, node) = Body(g, node)
  BY <1>1
<1> HIDE DEF Body
<1>2. 0 \in P
  <2> DEFINE f == [node \in TreeOf[0] |-> Body(<<>>, node)]
  <2>1. \A node \in TreeOf[0] : Body(f, node) = Body(<<>>, node)
    BY <1>0, <1>1, LeafShape
  <2>2. On(f, 0)
    BY <2>1
  <2> HIDE DEF f
  <2>3. \E F : On(F, 0)
    BY <2>2
  <2> QED BY <1>0, <2>3
<1>3. ASSUME NEW h \in 0..(MaxHeight - 1), h \in P
      PROVE  h + 1 \in P
  <2>1. PICK f : On(f, h)
    BY <1>3
  <2> DEFINE g == [node \in TreeOf[h + 1] |-> Body(f, node)]
  <2>2. h \in 0..MaxHeight /\ h + 1 \in h..MaxHeight /\ h + 1 \in 0..MaxHeight
    BY <1>0
  <2>3. TreeOf[h] \subseteq TreeOf[h + 1]
    BY <2>2, TreesGrow
  <2>4. \A node \in TreeOf[h] : f[node] = g[node]
    BY <2>1, <2>3
  <2>5. ASSUME NEW node \in TreeOf[h + 1]
        PROVE  Body(f, node) = Body(g, node)
    <3>1. CASE IsLeaf(node)
      BY <1>1, <3>1
    <3>2. CASE ~IsLeaf(node)
      <4>1. node.left \in TreeOf[h] /\ node.right \in TreeOf[h]
        BY <3>2, NodeAt
      <4>2. f[node.left] = g[node.left] /\ f[node.right] = g[node.right]
        BY <2>4, <4>1
      <4> HIDE DEF g
      <4> QED BY <1>1, <4>2
    <3> QED BY <3>1, <3>2
  <2>6. On(g, h + 1)
    BY <2>5
  <2> HIDE DEF g
  <2>7. \E F : On(F, h + 1)
    BY <2>6
  <2> QED BY <2>2, <2>7
<1>4. MaxHeight \in P
  <2>1. \A h \in 0..MaxHeight : h \in P
    <3> HIDE DEF P
    <3> QED BY <1>0, <1>2, <1>3, Upwards
  <2> QED BY <1>0, <2>1
<1>5. PICK f : On(f, MaxHeight)
  BY <1>4
<1> QED BY <1>5 DEF Sound, TreeNode, Body

-----------------------------------------------------------------------------
(* What they return.                                                       *)

\* The identifiers and the leaves of a tree.
LEMMA IdsOfAt ==
    ASSUME NEW node \in TreeNode
    PROVE  IdsOf[node] = IF IsLeaf(node) THEN node.ids
                         ELSE IdsOf[node.left] \o IdsOf[node.right]
  BY IdsOfIs, Zenon

\* A tree holds a sequence of identifiers.
LEMMA IdsOfType == \A node \in TreeNode : IdsOf[node] \in Seq(Identifier)
<1> DEFINE P == {node \in TreeNode : IdsOf[node] \in Seq(Identifier)}
<1>1. Leaf \subseteq P
  <2> SUFFICES ASSUME NEW node \in Leaf PROVE node \in P
    OBVIOUS
  <2>1. node \in TreeNode
    BY TreeOfAt, TreeNodes
  <2> QED BY <2>1, LeafShape, IdsOfAt
<1>2. ASSUME NEW node \in TreeNode, ~IsLeaf(node),
             node.left \in P, node.right \in P
      PROVE  node \in P
  <2>1. IdsOf[node] = IdsOf[node.left] \o IdsOf[node.right]
    BY <1>2, IdsOfAt
  <2>2. IdsOf[node.left] \in Seq(Identifier)
        /\ IdsOf[node.right] \in Seq(Identifier)
    BY <1>2
  <2>3. IdsOf[node] \in Seq(Identifier)
    BY <2>1, <2>2, ConcatProperties
  <2> QED BY <2>3
<1>3. TreeNode \subseteq P
  <2> HIDE DEF P
  <2> QED BY <1>1, <1>2, TreeInduction
<1> QED BY <1>3

\* The leaves of a node.
LEMMA LeavesOfAt ==
    ASSUME NEW node \in TreeNode
    PROVE  LeavesOf[node] = IF IsLeaf(node) THEN 1
                            ELSE LeavesOf[node.left] + LeavesOf[node.right]
  BY LeavesOfIs, Zenon

\* Every tree has a leaf.
LEMMA LeavesOfType == \A node \in TreeNode : LeavesOf[node] \in Nat \ {0}
<1> DEFINE P == {node \in TreeNode : LeavesOf[node] \in Nat \ {0}}
<1>1. Leaf \subseteq P
  <2> SUFFICES ASSUME NEW node \in Leaf PROVE node \in P
    OBVIOUS
  <2>1. node \in TreeNode
    BY TreeOfAt, TreeNodes
  <2>2. LeavesOf[node] = 1
    BY <2>1, LeafShape, LeavesOfAt
  <2> QED BY <2>1, <2>2
<1>2. ASSUME NEW node \in TreeNode, ~IsLeaf(node),
             node.left \in P, node.right \in P
      PROVE  node \in P
  <2>1. LeavesOf[node] = LeavesOf[node.left] + LeavesOf[node.right]
    BY <1>2, LeavesOfAt
  <2>2. LeavesOf[node.left] \in Nat \ {0} /\ LeavesOf[node.right] \in Nat \ {0}
    BY <1>2
  <2> QED BY <2>1, <2>2
<1>3. TreeNode \subseteq P
  <2> HIDE DEF P
  <2> QED BY <1>1, <1>2, TreeInduction
<1> QED BY <1>3

\* A tree of two leaves has no other internal node than its root.
LEMMA TwoLeaves ==
    ASSUME NEW node \in TreeNode, LeavesOf[node] <= 2, ~IsLeaf(node)
    PROVE  /\ node.left \in Leaf /\ IsLeaf(node.left)
           /\ node.right \in Leaf /\ IsLeaf(node.right)
<1>1. node.left \in TreeNode /\ node.right \in TreeNode
  BY Children
<1>2. LeavesOf[node] = LeavesOf[node.left] + LeavesOf[node.right]
  BY LeavesOfAt
<1>3. LeavesOf[node.left] \in Nat \ {0} /\ LeavesOf[node.right] \in Nat \ {0}
  BY <1>1, LeavesOfType
<1>4. LeavesOf[node.left] = 1 /\ LeavesOf[node.right] = 1
  BY <1>2, <1>3
<1>5. ASSUME NEW child \in TreeNode, LeavesOf[child] = 1
      PROVE  child \in Leaf /\ IsLeaf(child)
  <2>1. CASE ~IsLeaf(child)
    <3>1. child.left \in TreeNode /\ child.right \in TreeNode
      BY <2>1, Children
    <3>2. LeavesOf[child] = LeavesOf[child.left] + LeavesOf[child.right]
      BY <2>1, LeavesOfAt
    <3>3. LeavesOf[child.left] \in Nat \ {0}
          /\ LeavesOf[child.right] \in Nat \ {0}
      BY <3>1, LeavesOfType
    <3> QED BY <1>5, <3>2, <3>3
  <2> QED BY <2>1, Children
<1> QED BY <1>1, <1>4, <1>5

\* What it takes for a node to be sound.
LEMMA SoundAt ==
    ASSUME NEW node \in TreeNode
    PROVE  Sound[node] = IF IsLeaf(node) THEN TRUE
                         ELSE /\ Sound[node.left] /\ Sound[node.right]
                              /\ IdsOf[node.left] # <<>>
                              /\ node.length = Len(IdsOf[node])
  BY SoundIs, Zenon

\* What a sound tree is may be read off its fields.
LEMMA SoundLength ==
    ASSUME NEW node \in TreeNode, Sound[node]
    PROVE  length(node) = Len(IdsOf[node])
  BY SoundAt, IdsOfAt DEF length

\* A search at a node.
LEMMA searchAt ==
    ASSUME NEW node \in TreeNode, NEW position \in Int
    PROVE  searchInTree[node][position] =
             IF IsLeaf(node) THEN [leaf |-> node.ids, offset |-> position]
             ELSE IF position < length(node.left)
             THEN searchInTree[node.left][position]
             ELSE searchInTree[node.right][position - length(node.left)]
<1>1. searchInTree[node] = [p \in Int |->
        IF IsLeaf(node) THEN [leaf |-> node.ids, offset |-> p]
        ELSE IF p < length(node.left)
        THEN searchInTree[node.left][p]
        ELSE searchInTree[node.right][p - length(node.left)]]
  BY searchInTreeIs, Zenon
<1> QED BY <1>1, Zenon

\* The last identifier below a node.
LEMMA lastAt ==
    ASSUME NEW node \in TreeNode
    PROVE  getLastIdInSubtree[node] =
             IF IsLeaf(node) THEN LastId(node.ids)
             ELSE IF getLastIdInSubtree[node.right] # NoId
             THEN getLastIdInSubtree[node.right]
             ELSE getLastIdInSubtree[node.left]
  BY getLastIdInSubtreeIs, Zenon

\* An insertion at a node.
LEMMA insertAtNode ==
    ASSUME NEW node \in TreeNode, NEW id \in Identifier
    PROVE  insert[node][id] =
             IF IsLeaf(node) THEN InsertInLeaf(node.ids, id)
             ELSE IF GoesLeft(node, id)
             THEN InternalNode(insert[node.left][id], node.right)
             ELSE InternalNode(node.left, insert[node.right][id])
<1>1. insert[node] = [i \in Identifier |->
        IF IsLeaf(node) THEN InsertInLeaf(node.ids, i)
        ELSE IF GoesLeft(node, i)
        THEN InternalNode(insert[node.left][i], node.right)
        ELSE InternalNode(node.left, insert[node.right][i])]
  BY insertIs, Zenon
<1> QED BY <1>1, Zenon

\* A deletion at a node.
LEMMA deleteAtNode ==
    ASSUME NEW node \in TreeNode, NEW id \in Identifier
    PROVE  deleteId[node][id] =
             IF IsLeaf(node) THEN LeafNode(RemoveFirst(node.ids, id))
             ELSE IF Contains(IdsOf[node.left], id)
             THEN [node EXCEPT !.left = deleteId[@][id]]
             ELSE [node EXCEPT !.right = deleteId[@][id]]
<1>1. deleteId[node] = [i \in Identifier |->
        IF IsLeaf(node) THEN LeafNode(RemoveFirst(node.ids, i))
        ELSE IF Contains(IdsOf[node.left], i)
        THEN [node EXCEPT !.left = deleteId[@][i]]
        ELSE [node EXCEPT !.right = deleteId[@][i]]]
  BY deleteIdIs, Zenon
<1> QED BY <1>1, Zenon

-----------------------------------------------------------------------------
(* Searches find the identifier at their position.                         *)

\* The leaf that is found is where the identifiers of the tree have it, and
\* the position is in it, unless it is beyond the end of the tree.
Finds(node, position) ==
    LET found == searchInTree[node][position]
        ids == IdsOf[node]
        start == position - found.offset
    IN  /\ found.leaf \in Seq(Identifier) /\ found.offset \in Nat
        /\ start \in Nat /\ start + Len(found.leaf) <= Len(ids)
        /\ \A i \in 1..Len(found.leaf) : found.leaf[i] = ids[start + i]
        /\ position < Len(ids) => found.offset < Len(found.leaf)
        /\ position >= Len(ids) => start + Len(found.leaf) = Len(ids)

\* A search ends at the last identifier of a leaf.
FindsLast(node, position) ==
    LET found == searchInTree[node][position]
    IN  found.offset = Len(found.leaf) - 1

\* The last identifier is the last of a leaf, and so is any other one before
\* the first of a leaf.
FindsEnds(node) ==
    /\ IdsOf[node] # <<>> => FindsLast(node, Len(IdsOf[node]) - 1)
    /\ \A position \in Nat \ {0} :
         searchInTree[node][position].offset = 0 => FindsLast(node, position - 1)

\* What getInsertIds and getDeleteIds need of a tree.
Searchable(node) == (\A position \in Nat : Finds(node, position))
                    /\ FindsEnds(node)

\* A leaf can be searched.
LEMMA SearchLeaf ==
    ASSUME NEW node \in Leaf
    PROVE  Searchable(node)
<1>1. node \in TreeNode /\ IsLeaf(node) /\ node.ids \in Seq(Identifier)
  BY TreeOfAt, TreeNodes, LeafShape
<1>2. IdsOf[node] = node.ids
  BY <1>1, IdsOfAt
<1>3. \A position \in Int :
        searchInTree[node][position] = [leaf |-> node.ids, offset |-> position]
  BY <1>1, searchAt
<1>4. ASSUME NEW position \in Nat
      PROVE  Finds(node, position)
  <2>1. searchInTree[node][position] = [leaf |-> node.ids, offset |-> position]
    BY <1>3
  <2> QED BY <1>1, <1>2, <2>1 DEF Finds
<1>5. FindsEnds(node)
  <2>1. ASSUME node.ids # <<>>
        PROVE  FindsLast(node, Len(node.ids) - 1)
    <3> DEFINE last == Len(node.ids) - 1
    <3>1. last \in Int
      BY <1>1
    <3> HIDE DEF last
    <3>2. searchInTree[node][last] = [leaf |-> node.ids, offset |-> last]
      BY <1>3, <3>1
    <3> QED BY <3>2 DEF FindsLast, last
  <2>2. ASSUME NEW position \in Nat \ {0}
        PROVE  searchInTree[node][position].offset # 0
    <3>1. searchInTree[node][position] = [leaf |-> node.ids, offset |-> position]
      BY <1>3
    <3> QED BY <3>1
  <2> QED BY <1>2, <2>1, <2>2 DEF FindsEnds
<1> QED BY <1>4, <1>5 DEF Searchable

\* A node can be searched if its subtrees can, the left one is not empty and
\* has the length it says; the node's own length does not matter.
LEMMA SearchInner ==
    ASSUME NEW node \in TreeNode, ~IsLeaf(node),
           length(node.left) = Len(IdsOf[node.left]),
           IdsOf[node.left] # <<>>,
           Searchable(node.left), Searchable(node.right)
    PROVE  Searchable(node)
<1> DEFINE l == IdsOf[node.left]
           r == IdsOf[node.right]
           ids == IdsOf[node]
           n == Len(l)
<1>1. /\ node.left \in TreeNode /\ node.right \in TreeNode
      /\ l \in Seq(Identifier) /\ r \in Seq(Identifier)
      /\ ids = l \o r
  BY Children, IdsOfAt, IdsOfType
<1>2. /\ n \in Nat \ {0} /\ Len(r) \in Nat /\ Len(ids) = n + Len(r)
      /\ \A i \in 1..n : ids[i] = l[i]
      /\ \A i \in 1..Len(r) : ids[n + i] = r[i]
  <2> HIDE DEF l, r, ids
  <2>1. l # <<>>
    BY DEF l
  <2> QED BY <1>1, <2>1
<1>3. \A position \in Int :
        searchInTree[node][position] =
          IF position < n THEN searchInTree[node.left][position]
          ELSE searchInTree[node.right][position - n]
  BY searchAt
<1>4. ASSUME NEW position \in Nat, position < n
      PROVE  Finds(node, position)
  <2> DEFINE found == searchInTree[node.left][position]
             start == position - found.offset
  <2>1. searchInTree[node][position] = found
    BY <1>3, <1>4
  <2>2. Finds(node.left, position)
    BY DEF Searchable
  <2>3. /\ found.leaf \in Seq(Identifier) /\ found.offset \in Nat
        /\ start \in Nat /\ start + Len(found.leaf) <= n
        /\ \A i \in 1..Len(found.leaf) : found.leaf[i] = l[start + i]
        /\ position < n => found.offset < Len(found.leaf)
    BY <2>2 DEF Finds
  <2> HIDE DEF l, r, ids, n, found, start
  <2>4. ASSUME NEW i \in 1..Len(found.leaf)
        PROVE  found.leaf[i] = ids[start + i]
    <3>0. Len(found.leaf) \in Nat
      BY <2>3
    <3>1. start + i \in 1..n
      BY <1>2, <2>3, <3>0
    <3> QED BY <1>2, <2>3, <3>1
  <2>5. start + Len(found.leaf) <= Len(ids) /\ position < Len(ids)
    BY <1>2, <1>4, <2>3
  <2>6. /\ position < Len(ids) => found.offset < Len(found.leaf)
        /\ position >= Len(ids) => start + Len(found.leaf) = Len(ids)
    BY <1>2, <1>4, <2>3, <2>5
  <2>7. IdsOf[node] = ids
    BY DEF ids
  <2>8. start = position - found.offset
    BY DEF start
  <2>9. /\ position - found.offset \in Nat
        /\ (position - found.offset) + Len(found.leaf) <= Len(ids)
        /\ \A i \in 1..Len(found.leaf) :
             found.leaf[i] = ids[(position - found.offset) + i]
        /\ position >= Len(ids) =>
             (position - found.offset) + Len(found.leaf) = Len(ids)
    BY <2>3, <2>4, <2>5, <2>6, <2>8
  <2> QED BY <2>1, <2>3, <2>6, <2>7, <2>9 DEF Finds
<1>5. ASSUME NEW position \in Nat, ~(position < n)
      PROVE  Finds(node, position)
  <2> DEFINE found == searchInTree[node.right][position - n]
             start == (position - n) - found.offset
  <2>1. searchInTree[node][position] = found
    BY <1>3, <1>5
  <2>2. Finds(node.right, position - n)
    <3>1. position - n \in Nat
      BY <1>2, <1>5
    <3> QED BY <3>1 DEF Searchable
  <2>3. /\ found.leaf \in Seq(Identifier) /\ found.offset \in Nat
        /\ start \in Nat /\ start + Len(found.leaf) <= Len(r)
        /\ \A i \in 1..Len(found.leaf) : found.leaf[i] = r[start + i]
        /\ position - n < Len(r) => found.offset < Len(found.leaf)
        /\ position - n >= Len(r) => start + Len(found.leaf) = Len(r)
    BY <2>2 DEF Finds
  <2> HIDE DEF l, r, ids, n, found
  <2>4. position - found.offset = start + n
    BY <1>2, <2>3
  <2> HIDE DEF start
  <2>5. /\ start \in Nat /\ Len(found.leaf) \in Nat /\ position \in Nat
        /\ n \in Nat /\ Len(r) \in Nat /\ Len(ids) = n + Len(r)
    BY <1>2, <2>3
  <2>6. ASSUME NEW i \in 1..Len(found.leaf)
        PROVE  found.leaf[i] = ids[(start + n) + i]
    <3>1. start + i \in 1..Len(r) /\ (start + n) + i = n + (start + i)
      BY <2>3, <2>5
    <3> QED BY <1>2, <2>3, <3>1
  <2>7. /\ start + n \in Nat /\ (start + n) + Len(found.leaf) <= Len(ids)
        /\ position < Len(ids) => position - n < Len(r)
        /\ position >= Len(ids) => position - n >= Len(r)
        /\ start + Len(found.leaf) = Len(r) =>
             (start + n) + Len(found.leaf) = Len(ids)
    <3>1. start + Len(found.leaf) <= Len(r)
      BY <2>3
    <3> DEFINE s == start
               m == Len(found.leaf)
               p == Len(r)
               w == Len(ids)
    <3>2. /\ s \in Nat /\ m \in Nat /\ p \in Nat /\ w = n + p /\ s + m <= p
          /\ position \in Nat /\ n \in Nat
      BY <2>5, <3>1
    <3>3. /\ s + n \in Nat /\ (s + n) + m <= w
          /\ position < w => position - n < p
          /\ position >= w => position - n >= p
          /\ s + m = p => (s + n) + m = w
      <4> HIDE DEF s, m, p, w
      <4> QED BY <3>2
    <3> QED BY <3>3
  <2>8. IdsOf[node] = ids
    BY DEF ids
  <2>9. /\ position - found.offset \in Nat
        /\ (position - found.offset) + Len(found.leaf) <= Len(ids)
        /\ \A i \in 1..Len(found.leaf) :
             found.leaf[i] = ids[(position - found.offset) + i]
        /\ position >= Len(ids) =>
             (position - found.offset) + Len(found.leaf) = Len(ids)
    BY <2>3, <2>4, <2>6, <2>7
  <2>10. position < Len(ids) => found.offset < Len(found.leaf)
    BY <2>3, <2>7
  <2> QED BY <2>1, <2>3, <2>8, <2>9, <2>10 DEF Finds
<1>6. FindsLast(node.left, n - 1)
  BY DEF Searchable, FindsEnds
<1>7. FindsLast(node, n - 1)
  <2>1. n - 1 \in Int /\ n - 1 < n
    BY <1>2
  <2>2. searchInTree[node][n - 1] = searchInTree[node.left][n - 1]
    BY <1>3, <2>1
  <2> QED BY <1>6, <2>2 DEF FindsLast
<1>8. ids # <<>> => FindsLast(node, Len(ids) - 1)
  <2>1. CASE r = <<>>
    <3>1. Len(ids) = n
      BY <1>2, <2>1
    <3> QED BY <1>7, <3>1
  <2>2. CASE r # <<>>
    <3>1. Len(r) \in Nat \ {0}
      BY <1>1, <2>2
    <3>2. /\ Len(ids) - 1 \in Int /\ ~(Len(ids) - 1 < n)
          /\ (Len(ids) - 1) - n = Len(r) - 1
      <4> HIDE DEF l, r, ids, n
      <4> QED BY <1>2, <3>1
    <3>3. FindsLast(node.right, Len(r) - 1)
      BY <2>2 DEF Searchable, FindsEnds
    <3>4. searchInTree[node][Len(ids) - 1] = searchInTree[node.right][Len(r) - 1]
      BY <1>3, <3>2
    <3> QED BY <3>3, <3>4 DEF FindsLast
  <2> QED BY <2>1, <2>2
<1>9. ASSUME NEW position \in Nat \ {0},
             searchInTree[node][position].offset = 0
      PROVE  FindsLast(node, position - 1)
  <2>1. CASE position < n
    <3>1. position - 1 \in Int /\ position - 1 < n
      BY <1>2, <2>1
    <3>2. searchInTree[node.left][position].offset = 0
      BY <1>3, <1>9, <2>1
    <3>3. FindsLast(node.left, position - 1)
      BY <3>2 DEF Searchable, FindsEnds
    <3>4. searchInTree[node][position - 1] = searchInTree[node.left][position - 1]
      BY <1>3, <3>1
    <3> QED BY <3>3, <3>4 DEF FindsLast
  <2>2. CASE position = n
    BY <1>7, <2>2
  <2>3. CASE position > n
    <3>1. /\ position - n \in Nat \ {0} /\ position - 1 \in Int
          /\ ~(position - 1 < n) /\ ~(position < n)
          /\ (position - 1) - n = (position - n) - 1
      BY <1>2, <2>3
    <3>2. searchInTree[node.right][position - n].offset = 0
      BY <1>3, <1>9, <3>1
    <3>3. FindsLast(node.right, (position - n) - 1)
      BY <3>1, <3>2 DEF Searchable, FindsEnds
    <3>4. searchInTree[node][position - 1] =
            searchInTree[node.right][(position - n) - 1]
      BY <1>3, <3>1
    <3> QED BY <3>3, <3>4 DEF FindsLast
  <2>4. position \in Nat /\ n \in Nat
    BY <1>2
  <2> HIDE DEF n
  <2> QED BY <2>1, <2>2, <2>3, <2>4
<1>10. FindsEnds(node)
  BY <1>8, <1>9 DEF FindsEnds
<1>11. ASSUME NEW position \in Nat PROVE Finds(node, position)
  BY <1>4, <1>5
<1> QED BY <1>10, <1>11 DEF Searchable

\* A sound tree can be searched.
LEMMA SearchSound == \A node \in TreeNode : Sound[node] => Searchable(node)
<1> DEFINE P == {node \in TreeNode : Sound[node] => Searchable(node)}
<1>1. Leaf \subseteq P
  BY TreeOfAt, TreeNodes, SearchLeaf
<1>2. ASSUME NEW node \in TreeNode, ~IsLeaf(node),
             node.left \in P, node.right \in P
      PROVE  node \in P
  <2> SUFFICES ASSUME Sound[node] PROVE Searchable(node)
    OBVIOUS
  <2>1. Sound[node.left] /\ Sound[node.right] /\ IdsOf[node.left] # <<>>
    BY <1>2, SoundAt
  <2>2. length(node.left) = Len(IdsOf[node.left])
    BY <1>2, <2>1, SoundLength
  <2> QED BY <1>2, <2>1, <2>2, SearchInner
<1>3. TreeNode \subseteq P
  <2> HIDE DEF P
  <2> QED BY <1>1, <1>2, TreeInduction
<1> QED BY <1>3

\* The tree of the editor: its root may have a length that is not exact, which
\* nothing reads.
Usable(node) == IsLeaf(node) \/ /\ Sound[node.left] /\ Sound[node.right]
                                /\ IdsOf[node.left] # <<>>

\* A usable one can be searched too: at every position a search finds the
\* identifier that IdsOf has there, and the neighbours across the edge of a leaf
\* are the last of the one and the first of the other.
THEOREM SearchUsable ==
    ASSUME NEW node \in TreeNode, Usable(node)
    PROVE  Searchable(node)
<1>1. CASE IsLeaf(node)
  BY <1>1, Children, SearchLeaf
<1>2. CASE ~IsLeaf(node)
  <2>1. /\ Sound[node.left] /\ Sound[node.right] /\ IdsOf[node.left] # <<>>
        /\ node.left \in TreeNode /\ node.right \in TreeNode
    BY <1>2, Children DEF Usable
  <2>2. length(node.left) = Len(IdsOf[node.left])
    BY <2>1, SoundLength
  <2> QED BY <1>2, <2>1, <2>2, SearchSound, SearchInner
<1> QED BY <1>1, <1>2

-----------------------------------------------------------------------------
(* The neighbours of a position, and the identifier to delete.             *)

\* No identifier of a text is null.
Named(ids) == \A i \in 1..Len(ids) : ids[i] # NoId

\* getIdAtOffset returns null outside the leaf.
LEMMA AtOffset ==
    ASSUME NEW ids \in Seq(Identifier), NEW offset \in Int
    PROVE  getIdAtOffset(ids, offset) = IF offset + 1 \in 1..Len(ids)
                                        THEN ids[offset + 1] ELSE NoId
  BY DEF getIdAtOffset

\* An insertion is told the identifiers on both sides of its position.
LEMMA InsertIdsFound ==
    ASSUME NEW node \in TreeNode, Usable(node), Named(IdsOf[node]),
           NEW position \in 1..Len(IdsOf[node])
    PROVE  getInsertIds(node, position) =
             [p |-> IdsOf[node][position],
              q |-> IF position < Len(IdsOf[node])
                    THEN IdsOf[node][position + 1] ELSE NoId]
<1> DEFINE ids == IdsOf[node]
           found == searchInTree[node][position]
           before == searchInTree[node][position - 1]
           after == searchInTree[node][position + 1]
           leaf == found.leaf
           offset == found.offset
           start == position - offset
           p == getIdAtOffset(leaf, offset - 1)
           q == getIdAtOffset(leaf, offset)
           next == IF position < Len(ids) THEN ids[position + 1] ELSE NoId
<1>0. /\ ids \in Seq(Identifier) /\ Len(ids) \in Nat
      /\ position \in Nat \ {0} /\ position - 1 \in Nat /\ position + 1 \in Nat
      /\ position <= Len(ids)
  BY IdsOfType
<1>1. Searchable(node)
  BY SearchUsable
<1>2. /\ leaf \in Seq(Identifier) /\ offset \in Nat
      /\ start \in Nat /\ start + Len(leaf) <= Len(ids)
      /\ \A i \in 1..Len(leaf) : leaf[i] = ids[start + i]
      /\ position < Len(ids) => offset < Len(leaf)
      /\ position >= Len(ids) => start + Len(leaf) = Len(ids)
  BY <1>0, <1>1 DEF Searchable, Finds
<1>3. offset <= Len(leaf)
  <2> HIDE DEF ids, leaf, offset
  <2> QED BY <1>0, <1>2
<1>4. CASE offset = 0
  <2>1. /\ before.leaf \in Seq(Identifier)
        /\ before.offset \in Nat
        /\ before.offset = Len(before.leaf) - 1
        /\ (position - 1) - before.offset \in Nat
        /\ \A i \in 1..Len(before.leaf) :
             before.leaf[i] = ids[((position - 1) - before.offset) + i]
    BY <1>0, <1>1, <1>4 DEF Searchable, Finds, FindsEnds, FindsLast
  <2> DEFINE prev == before.leaf
  <2>2. before.offset >= 0 /\ Within(before) /\ LastId(prev) = ids[position]
    <3> HIDE DEF ids, before
    <3>1. Len(prev) \in Nat \ {0} /\ (Len(prev) - 1) + 1 = Len(prev)
      BY <2>1
    <3>2. ((position - 1) - before.offset) + Len(prev) = position
      BY <1>0, <2>1, <3>1
    <3>3. prev[Len(prev)] = ids[position]
      <4>1. Len(prev) \in 1..Len(prev)
        BY <3>1
      <4>2. prev[Len(prev)] =
              ids[((position - 1) - before.offset) + Len(prev)]
        BY <2>1, <4>1
      <4> QED BY <3>2, <4>2
    <3>4. LastId(prev) = prev[Len(prev)]
      BY <2>1, <3>1 DEF LastId, getIdAtOffset
    <3> QED BY <2>1, <3>1, <3>3, <3>4 DEF Within
  <2>3. FirstId(leaf) = next
    <3> HIDE DEF ids, leaf, offset
    <3>1. start = position
      BY <1>0, <1>4
    <3>2. CASE position < Len(ids)
      <4>1. Len(leaf) \in Nat \ {0} /\ 1 \in 1..Len(leaf)
        BY <1>2, <1>4, <3>2
      <4>2. leaf[1] = ids[position + 1]
        BY <1>2, <3>1, <4>1
      <4> QED BY <1>2, <3>2, <4>1, <4>2 DEF FirstId, getIdAtOffset
    <3>3. CASE ~(position < Len(ids))
      <4>1. Len(leaf) = 0
        BY <1>0, <1>2, <3>1, <3>3
      <4> QED BY <1>2, <3>3, <4>1 DEF FirstId, getIdAtOffset
    <3> QED BY <3>2, <3>3
  <2>4. getInsertIds(node, position) =
          [p |-> IF before.offset >= 0 /\ Within(before)
                 THEN LastId(prev) ELSE NoId,
           q |-> FirstId(leaf)]
    BY <1>4 DEF getInsertIds
  <2> QED BY <2>2, <2>3, <2>4
<1>5. CASE offset # 0 /\ offset = Len(leaf)
  <2>1. ~(position < Len(ids)) /\ position = Len(ids)
    <3> HIDE DEF ids, leaf, offset
    <3> QED BY <1>0, <1>2, <1>5
  <2>2. LastId(leaf) = ids[position]
    <3> HIDE DEF ids, leaf, offset
    <3>1. Len(leaf) \in 1..Len(leaf) /\ start + Len(leaf) = position
          /\ (Len(leaf) - 1) + 1 = Len(leaf)
      BY <1>0, <1>2, <1>5
    <3>2. leaf[Len(leaf)] = ids[position]
      BY <1>2, <3>1
    <3> QED BY <1>2, <3>1, <3>2 DEF LastId, getIdAtOffset
  <2>3. ~Within(after)
    <3>1. /\ after.leaf \in Seq(Identifier) /\ after.offset \in Nat
          /\ ((position + 1) - after.offset) + Len(after.leaf) = Len(ids)
      <4>1. Finds(node, position + 1)
        BY <1>0, <1>1 DEF Searchable
      <4>2. position + 1 >= Len(ids)
        <5> HIDE DEF ids
        <5> QED BY <1>0, <2>1
      <4> QED BY <4>1, <4>2 DEF Finds
    <3> HIDE DEF ids, after
    <3> QED BY <1>0, <2>1, <3>1 DEF Within
  <2>4. getInsertIds(node, position) =
          [p |-> LastId(leaf),
           q |-> IF Within(after) THEN FirstId(after.leaf) ELSE NoId]
    BY <1>5 DEF getInsertIds
  <2> QED BY <2>1, <2>2, <2>3, <2>4
<1>6. CASE offset # 0 /\ offset # Len(leaf)
  <2>1. position < Len(ids)
    <3> HIDE DEF ids, leaf, offset
    <3> QED BY <1>0, <1>2, <1>3, <1>6
  <2>2. p = ids[position] /\ q = ids[position + 1]
    <3> HIDE DEF ids, leaf, offset
    <3>1. /\ offset \in 1..Len(leaf) /\ offset + 1 \in 1..Len(leaf)
          /\ (offset - 1) + 1 = offset
          /\ start + offset = position /\ start + (offset + 1) = position + 1
      <4>1. offset \in Nat /\ Len(leaf) \in Nat /\ position \in Nat
        BY <1>0, <1>2
      <4>2. offset \in 1..Len(leaf) /\ offset + 1 \in 1..Len(leaf)
        BY <1>3, <1>6, <4>1
      <4> QED BY <4>1, <4>2
    <3>2. leaf[offset] = ids[position] /\ leaf[offset + 1] = ids[position + 1]
      <4>1. /\ leaf[offset] = ids[start + offset]
            /\ leaf[offset + 1] = ids[start + (offset + 1)]
        <5> HIDE DEF start
        <5> QED BY <1>2, <3>1
      <4> QED BY <3>1, <4>1
    <3>3. p = leaf[offset]
      BY <1>2, <3>1 DEF getIdAtOffset
    <3>4. q = leaf[offset + 1]
      BY <1>2, <3>1 DEF getIdAtOffset
    <3> QED BY <3>2, <3>3, <3>4
  <2>3. ids[position] # NoId /\ ids[position + 1] # NoId
    <3>1. position \in 1..Len(ids) /\ position + 1 \in 1..Len(ids)
      <4> HIDE DEF ids
      <4> QED BY <1>0, <2>1
    <3> QED BY <3>1 DEF Named
  <2>4. getInsertIds(node, position) =
          IF p # NoId /\ q # NoId THEN [p |-> p, q |-> q]
          ELSE [p |-> NoId, q |-> NoId]
    BY <1>6 DEF getInsertIds
  <2> QED BY <2>1, <2>2, <2>3, <2>4
<1> QED BY <1>4, <1>5, <1>6

\* A deletion is told the identifier at its position, if there is one.
LEMMA DeleteIdsFound ==
    ASSUME NEW node \in TreeNode, Usable(node),
           NEW position \in 0..Len(IdsOf[node])
    PROVE  getDeleteIds(node, position) =
             IF position < Len(IdsOf[node]) THEN IdsOf[node][position + 1]
             ELSE NoId
<1> DEFINE ids == IdsOf[node]
           found == searchInTree[node][position]
           leaf == found.leaf
           offset == found.offset
           start == position - offset
<1>0. ids \in Seq(Identifier) /\ Len(ids) \in Nat /\ position \in Nat
  BY IdsOfType
<1>1. Finds(node, position)
  BY <1>0, SearchUsable DEF Searchable
<1>2. /\ leaf \in Seq(Identifier) /\ offset \in Nat
      /\ start \in Nat /\ start + Len(leaf) <= Len(ids)
      /\ \A i \in 1..Len(leaf) : leaf[i] = ids[start + i]
      /\ position < Len(ids) => offset < Len(leaf)
      /\ position >= Len(ids) => start + Len(leaf) = Len(ids)
  BY <1>1 DEF Finds
<1>3. getIdAtOffset(leaf, offset) = IF position < Len(ids)
                                    THEN ids[position + 1] ELSE NoId
  <2> HIDE DEF ids, leaf, offset
  <2>1. CASE position < Len(ids)
    <3>1. offset + 1 \in 1..Len(leaf) /\ start + (offset + 1) = position + 1
      BY <1>0, <1>2, <2>1
    <3>2. leaf[offset + 1] = ids[position + 1]
      BY <1>2, <3>1
    <3> QED BY <1>2, <2>1, <3>1, <3>2 DEF getIdAtOffset
  <2>2. CASE ~(position < Len(ids))
    <3>1. offset + 1 \notin 1..Len(leaf)
      BY <1>0, <1>2, <2>2
    <3> QED BY <1>2, <2>2, <3>1 DEF getIdAtOffset
  <2> QED BY <2>1, <2>2
<1> QED BY <1>3 DEF getDeleteIds

\* What a subtree ends with is the last of its identifiers.
LEMMA LastInSubtree ==
    \A node \in TreeNode :
        Named(IdsOf[node]) => getLastIdInSubtree[node] = LastId(IdsOf[node])
<1> DEFINE P == {node \in TreeNode : Named(IdsOf[node]) =>
                   getLastIdInSubtree[node] = LastId(IdsOf[node])}
<1>1. Leaf \subseteq P
  <2> SUFFICES ASSUME NEW node \in Leaf PROVE node \in P
    OBVIOUS
  <2>1. node \in TreeNode /\ IsLeaf(node)
    BY TreeOfAt, TreeNodes, LeafShape
  <2> QED BY <2>1, lastAt, IdsOfAt
<1>2. ASSUME NEW node \in TreeNode, ~IsLeaf(node),
             node.left \in P, node.right \in P
      PROVE  node \in P
  <2> SUFFICES ASSUME Named(IdsOf[node])
               PROVE  getLastIdInSubtree[node] = LastId(IdsOf[node])
    OBVIOUS
  <2> DEFINE l == IdsOf[node.left]
             r == IdsOf[node.right]
             ids == IdsOf[node]
  <2>1. /\ l \in Seq(Identifier) /\ r \in Seq(Identifier) /\ ids = l \o r
        /\ Named(l) => getLastIdInSubtree[node.left] = LastId(l)
        /\ Named(r) => getLastIdInSubtree[node.right] = LastId(r)
    BY <1>2, IdsOfAt, IdsOfType
  <2>2. getLastIdInSubtree[node] =
          IF getLastIdInSubtree[node.right] # NoId
          THEN getLastIdInSubtree[node.right] ELSE getLastIdInSubtree[node.left]
    BY <1>2, lastAt
  <2>3. Named(ids)
    OBVIOUS
  <2> HIDE DEF l, r, ids
  <2>4. /\ Len(l) \in Nat /\ Len(r) \in Nat /\ Len(ids) = Len(l) + Len(r)
        /\ \A i \in 1..Len(l) : ids[i] = l[i]
        /\ \A i \in 1..Len(r) : ids[Len(l) + i] = r[i]
        /\ ids \in Seq(Identifier)
    BY <2>1
  <2>5. Named(l) /\ Named(r)
    <3>1. \A i \in 1..Len(l) : i \in 1..Len(ids)
      BY <2>4
    <3>2. \A i \in 1..Len(r) : Len(l) + i \in 1..Len(ids)
      BY <2>4
    <3> QED BY <2>3, <2>4, <3>1, <3>2 DEF Named
  <2>6. CASE r = <<>>
    <3>1. LastId(r) = NoId
      BY <2>6 DEF LastId, getIdAtOffset
    <3>2. ids = l
      BY <2>1, <2>6
    <3> QED BY <2>1, <2>2, <2>5, <3>1, <3>2 DEF ids
  <2>7. CASE r # <<>>
    <3>1. Len(r) \in 1..Len(r) /\ (Len(r) - 1) + 1 = Len(r)
      BY <2>1, <2>4, <2>7
    <3>2. LastId(r) = r[Len(r)]
      BY <2>1, <3>1 DEF LastId, getIdAtOffset
    <3>3. Len(ids) \in 1..Len(ids) /\ (Len(ids) - 1) + 1 = Len(ids)
          /\ Len(ids) = Len(l) + Len(r)
      BY <2>4, <3>1
    <3>4. LastId(ids) = ids[Len(ids)]
      BY <2>4, <3>3 DEF LastId, getIdAtOffset
    <3>5. LastId(ids) = LastId(r) /\ LastId(r) # NoId
      BY <2>4, <2>5, <3>1, <3>2, <3>3, <3>4 DEF Named
    <3> QED BY <2>1, <2>2, <2>5, <3>5 DEF ids
  <2> QED BY <2>6, <2>7
<1>3. TreeNode \subseteq P
  <2> HIDE DEF P
  <2> QED BY <1>1, <1>2, TreeInduction
<1> QED BY <1>3

-----------------------------------------------------------------------------
(* Insertion.                                                              *)

\* An insertion makes a sequence longer by one.
LEMMA InsertAtType ==
    ASSUME NEW S, NEW s \in Seq(S), NEW k \in 1..(Len(s) + 1), NEW e \in S
    PROVE  InsertAt(s, k, e) \in Seq(S) /\ Len(InsertAt(s, k, e)) = Len(s) + 1
<1> DEFINE new == InsertAt(s, k, e)
<1>1. Len(s) \in Nat
  OBVIOUS
<1>2. new = [i \in 1..(Len(s) + 1) |->
               IF i < k THEN s[i] ELSE IF i = k THEN e ELSE s[i - 1]]
  BY InsertAtIs
<1>3. ASSUME NEW i \in 1..(Len(s) + 1)
      PROVE  (IF i < k THEN s[i] ELSE IF i = k THEN e ELSE s[i - 1]) \in S
  <2>1. i < k => i \in 1..Len(s)
    BY <1>1
  <2>2. i > k => i - 1 \in 1..Len(s)
    BY <1>1
  <2>3. i < k \/ i = k \/ i > k
    BY <1>1
  <2> QED BY <2>1, <2>2, <2>3, ElementOfSeq
<1>4. new \in [1..(Len(s) + 1) -> S] /\ Len(s) + 1 \in Nat
  BY <1>1, <1>2, <1>3
<1> HIDE DEF new
<1>5. new \in Seq(S) /\ Len(new) = Len(s) + 1
  BY <1>4
<1> QED BY <1>5 DEF new

\* An insertion into two sequences in a row is one into the one it hits.
LEMMA InsertAtLeft ==
    ASSUME NEW S, NEW l \in Seq(S), NEW r \in Seq(S), NEW e \in S,
           NEW k \in 1..(Len(l) + 1)
    PROVE  InsertAt(l \o r, k, e) = InsertAt(l, k, e) \o r
<1> DEFINE s == l \o r
           new == InsertAt(l, k, e)
<1>1. /\ Len(l) \in Nat /\ Len(r) \in Nat /\ Len(s) = Len(l) + Len(r)
      /\ s \in Seq(S)
      /\ \A i \in 1..Len(s) : s[i] = IF i <= Len(l) THEN l[i]
                                     ELSE r[i - Len(l)]
  OBVIOUS
<1>2. new = [i \in 1..(Len(l) + 1) |->
               IF i < k THEN l[i] ELSE IF i = k THEN e ELSE l[i - 1]]
  BY InsertAtIs
<1>3. new \in Seq(S) /\ Len(new) = Len(l) + 1
  BY InsertAtType
<1>4. InsertAt(s, k, e) =
        [i \in 1..(Len(s) + 1) |->
           IF i < k THEN s[i] ELSE IF i = k THEN e ELSE s[i - 1]]
  <2>1. k \in 1..(Len(s) + 1)
    <3> HIDE DEF s
    <3> QED BY <1>1
  <2> HIDE DEF s
  <2> QED BY <1>1, <2>1, InsertAtIs
<1>5. /\ new \o r = [i \in 1..(Len(s) + 1) |-> (new \o r)[i]]
      /\ \A i \in 1..(Len(s) + 1) :
           (new \o r)[i] = IF i <= Len(l) + 1 THEN new[i]
                           ELSE r[i - (Len(l) + 1)]
  <2> DEFINE u == new \o r
  <2> HIDE DEF new, s
  <2>1. Len(new) + Len(r) = Len(s) + 1
    BY <1>1, <1>3
  <2>2. u \in Seq(S) /\ Len(u) = Len(s) + 1
    BY <1>3, <2>1, ConcatProperties
  <2>3. u = [i \in 1..Len(u) |-> u[i]]
    <3> HIDE DEF u
    <3> QED BY <2>2, SeqAsFunction
  <2>4. ASSUME NEW i \in 1..(Len(s) + 1)
        PROVE  u[i] = IF i <= Len(l) + 1 THEN new[i] ELSE r[i - (Len(l) + 1)]
    BY <1>1, <1>3, <2>1, ConcatProperties
  <2> HIDE DEF u
  <2>5. /\ u = [i \in 1..(Len(s) + 1) |-> u[i]]
        /\ \A i \in 1..(Len(s) + 1) :
             u[i] = IF i <= Len(l) + 1 THEN new[i] ELSE r[i - (Len(l) + 1)]
    BY <2>2, <2>3, <2>4
  <2> QED BY <2>5 DEF u
<1>6. ASSUME NEW i \in 1..(Len(s) + 1)
      PROVE  (IF i < k THEN s[i] ELSE IF i = k THEN e ELSE s[i - 1]) =
             (new \o r)[i]
  <2>0. (new \o r)[i] = IF i <= Len(l) + 1 THEN new[i]
                        ELSE r[i - (Len(l) + 1)]
    BY <1>5
  <2> HIDE DEF s, new
  <2>1. CASE i < k
    <3>1. i \in 1..Len(s) /\ i <= Len(l) /\ i \in 1..(Len(l) + 1)
      BY <1>1, <2>1
    <3> QED BY <1>1, <1>2, <2>0, <2>1, <3>1
  <2>2. CASE i = k
    <3>1. i <= Len(l) + 1 /\ i \in 1..(Len(l) + 1) /\ ~(i < k)
      BY <1>1, <2>2
    <3> QED BY <1>2, <2>0, <2>2, <3>1
  <2>3. CASE i > k /\ i <= Len(l) + 1
    <3>1. /\ i - 1 \in 1..Len(s) /\ i - 1 <= Len(l) /\ i \in 1..(Len(l) + 1)
          /\ ~(i < k) /\ i # k
      BY <1>1, <2>3
    <3> QED BY <1>1, <1>2, <2>0, <2>3, <3>1
  <2>4. CASE i > Len(l) + 1
    <3>1. /\ i - 1 \in 1..Len(s) /\ ~(i - 1 <= Len(l))
          /\ (i - 1) - Len(l) = i - (Len(l) + 1)
          /\ ~(i < k) /\ i # k /\ ~(i <= Len(l) + 1)
      BY <1>1, <2>4
    <3>2. s[i - 1] = r[(i - 1) - Len(l)]
      BY <1>1, <3>1
    <3> QED BY <2>0, <3>1, <3>2
  <2>5. i < k \/ i = k \/ (i > k /\ i <= Len(l) + 1) \/ i > Len(l) + 1
    BY <1>1
  <2> QED BY <2>1, <2>2, <2>3, <2>4, <2>5
<1>7. InsertAt(s, k, e) = new \o r
  <2> DEFINE u == new \o r
  <2>1. /\ u = [i \in 1..(Len(s) + 1) |-> u[i]]
        /\ \A i \in 1..(Len(s) + 1) :
             (IF i < k THEN s[i] ELSE IF i = k THEN e ELSE s[i - 1]) = u[i]
    BY <1>5, <1>6
  <2> HIDE DEF u, s, new
  <2>2. InsertAt(s, k, e) = u
    BY <1>4, <2>1
  <2> QED BY <2>2 DEF u
<1> QED BY <1>7

\* Inserting into the second part of a sequence leaves the first alone.
LEMMA InsertAtRight ==
    ASSUME NEW S, NEW l \in Seq(S), NEW r \in Seq(S), NEW e \in S,
           NEW k \in 1..(Len(r) + 1)
    PROVE  InsertAt(l \o r, Len(l) + k, e) = l \o InsertAt(r, k, e)
<1> DEFINE s == l \o r
           m == Len(l)
           new == InsertAt(r, k, e)
<1>1. /\ m \in Nat /\ Len(r) \in Nat /\ Len(s) = m + Len(r)
      /\ s \in Seq(S)
      /\ \A i \in 1..Len(s) : s[i] = IF i <= m THEN l[i] ELSE r[i - m]
  OBVIOUS
<1>2. new = [i \in 1..(Len(r) + 1) |->
               IF i < k THEN r[i] ELSE IF i = k THEN e ELSE r[i - 1]]
  BY InsertAtIs
<1>3. new \in Seq(S) /\ Len(new) = Len(r) + 1
  BY InsertAtType
<1>4. InsertAt(s, m + k, e) =
        [i \in 1..(Len(s) + 1) |->
           IF i < m + k THEN s[i] ELSE IF i = m + k THEN e ELSE s[i - 1]]
  <2>1. m + k \in 1..(Len(s) + 1)
    <3> HIDE DEF s, m
    <3> QED BY <1>1
  <2> DEFINE at == m + k
  <2>2. at \in 1..(Len(s) + 1)
    BY <2>1
  <2> HIDE DEF s, m, at
  <2>3. InsertAt(s, at, e) =
          [i \in 1..(Len(s) + 1) |->
             IF i < at THEN s[i] ELSE IF i = at THEN e ELSE s[i - 1]]
    <3>1. s \in Seq(S) /\ at \in 1..(Len(s) + 1) /\ e \in S
      BY <1>1, <2>2
    <3> QED BY <3>1, InsertAtIs
  <2> QED BY <2>3 DEF at
<1>5. /\ l \o new = [i \in 1..(Len(s) + 1) |-> (l \o new)[i]]
      /\ \A i \in 1..(Len(s) + 1) :
           (l \o new)[i] = IF i <= m THEN l[i] ELSE new[i - m]
  <2> DEFINE u == l \o new
  <2> HIDE DEF new, s
  <2>1. m + Len(new) = Len(s) + 1
    BY <1>1, <1>3
  <2>2. u \in Seq(S) /\ Len(u) = Len(s) + 1
    BY <1>3, <2>1, ConcatProperties
  <2>3. u = [i \in 1..Len(u) |-> u[i]]
    <3> HIDE DEF u
    <3> QED BY <2>2, SeqAsFunction
  <2>4. ASSUME NEW i \in 1..(Len(s) + 1)
        PROVE  u[i] = IF i <= m THEN l[i] ELSE new[i - m]
    BY <1>1, <1>3, <2>1, ConcatProperties
  <2> HIDE DEF u
  <2>5. /\ u = [i \in 1..(Len(s) + 1) |-> u[i]]
        /\ \A i \in 1..(Len(s) + 1) :
             u[i] = IF i <= m THEN l[i] ELSE new[i - m]
    BY <2>2, <2>3, <2>4
  <2> QED BY <2>5 DEF u
<1>6. ASSUME NEW i \in 1..(Len(s) + 1)
      PROVE  (IF i < m + k THEN s[i] ELSE IF i = m + k THEN e ELSE s[i - 1]) =
             (l \o new)[i]
  <2>0. (l \o new)[i] = IF i <= m THEN l[i] ELSE new[i - m]
    BY <1>5
  <2> HIDE DEF s, new, m
  <2>1. CASE i <= m
    <3>1. i \in 1..Len(s) /\ i < m + k
      BY <1>1, <2>1
    <3> QED BY <1>1, <2>0, <2>1, <3>1
  <2>2. CASE ~(i <= m)
    <3>0. i - m \in 1..(Len(r) + 1)
      BY <1>1, <2>2
    <3>1. CASE i < m + k
      <4>1. i \in 1..Len(s) /\ i - m < k
        BY <1>1, <3>1
      <4> QED BY <1>1, <1>2, <2>0, <2>2, <3>0, <3>1, <4>1
    <3>2. CASE i = m + k
      <4>1. i - m = k /\ ~(i < m + k) /\ ~(i - m < k)
        BY <1>1, <3>2
      <4>2. (l \o new)[i] = new[i - m]
        BY <2>0, <2>2
      <4>3. new[i - m] = e
        BY <1>2, <3>0, <4>1
      <4> QED BY <3>2, <4>1, <4>2, <4>3
    <3>3. CASE i > m + k
      <4>1. /\ i - 1 \in 1..Len(s) /\ ~(i - 1 <= m)
            /\ (i - 1) - m = (i - m) - 1
            /\ ~(i - m < k) /\ i - m # k /\ ~(i < m + k) /\ i # m + k
        BY <1>1, <2>2, <3>3
      <4>2. s[i - 1] = r[(i - m) - 1]
        BY <1>1, <4>1
      <4> QED BY <1>2, <2>0, <2>2, <3>0, <4>1, <4>2
    <3>4. i < m + k \/ i = m + k \/ i > m + k
      <4>1. i \in Nat /\ k \in Nat
        BY <1>1
      <4> QED BY <1>1, <4>1
    <3> QED BY <3>1, <3>2, <3>3, <3>4
  <2> QED BY <2>1, <2>2
<1>7. InsertAt(s, m + k, e) = l \o new
  <2> DEFINE u == l \o new
  <2>1. /\ u = [i \in 1..(Len(s) + 1) |-> u[i]]
        /\ \A i \in 1..(Len(s) + 1) :
             (IF i < m + k THEN s[i] ELSE IF i = m + k THEN e ELSE s[i - 1])
               = u[i]
    BY <1>5, <1>6
  <2> HIDE DEF u, s, new, m
  <2>2. InsertAt(s, m + k, e) = u
    BY <1>4, <2>1
  <2> QED BY <2>2 DEF u
<1> QED BY <1>7

\* The place of an identifier in a sequence: what is before it is not
\* greater, what is after it is.
Splits(ids, id, k) ==
    /\ \A i \in 1..k : ~Less(id, ids[i])
    /\ \A i \in (k + 1)..Len(ids) : Less(id, ids[i])

\* findOrderedInsertIndex finds the only place that keeps the order.
LEMMA OrderedInsert ==
    ASSUME NEW ids \in Seq(Identifier), NEW id, NEW k \in 0..Len(ids),
           Splits(ids, id, k)
    PROVE  insertIdOrdered(ids, id) = InsertAt(ids, k + 1, id)
<1> DEFINE greater == {i \in DOMAIN ids : Less(id, ids[i])}
           index == IF greater = {} THEN Len(ids) + 1
                    ELSE CHOOSE i \in greater : \A j \in greater : i <= j
<1>0. k \in Nat /\ Len(ids) \in Nat /\ k <= Len(ids)
  OBVIOUS
<1>1. Len(ids) \in Nat /\ DOMAIN ids = 1..Len(ids)
  OBVIOUS
<1>2. greater = (k + 1)..Len(ids)
  <2>1. ASSUME NEW i \in 1..Len(ids)
        PROVE  Less(id, ids[i]) <=> i \in (k + 1)..Len(ids)
    <3>1. i \in 1..k \/ i \in (k + 1)..Len(ids)
      BY <1>1
    <3>2. ~(i \in 1..k /\ i \in (k + 1)..Len(ids))
      BY <1>1
    <3> QED BY <3>1, <3>2 DEF Splits
  <2>2. (k + 1)..Len(ids) \subseteq 1..Len(ids)
    BY <1>1
  <2> QED BY <1>1, <2>1, <2>2
<1>3. index = k + 1
  <2> HIDE DEF greater
  <2>1. CASE k = Len(ids)
    <3>1. greater = {}
      BY <1>1, <1>2, <2>1
    <3> QED BY <2>1, <3>1
  <2>2. CASE k # Len(ids)
    <3>1. k + 1 \in greater /\ \A j \in greater : k + 1 <= j
      <4>0. k < Len(ids)
        BY <1>0, <2>2
      <4>1. k + 1 \in (k + 1)..Len(ids)
        BY <1>0, <4>0
      <4>2. \A j \in (k + 1)..Len(ids) : k + 1 <= j
        OBVIOUS
      <4> QED BY <1>2, <4>1, <4>2
    <3>2. ASSUME NEW i \in greater, \A j \in greater : i <= j
          PROVE  i = k + 1
      <4>1. i <= k + 1 /\ k + 1 <= i /\ i \in Nat
        BY <1>1, <1>2, <3>1, <3>2
      <4> QED BY <4>1
    <3>3. (CHOOSE i \in greater : \A j \in greater : i <= j) = k + 1
      BY <3>1, <3>2
    <3> QED BY <3>1, <3>3
  <2> QED BY <2>1, <2>2
<1>4. insertIdOrdered(ids, id) = InsertAt(ids, index, id)
  BY DEF insertIdOrdered
<1> HIDE DEF index
<1> QED BY <1>3, <1>4

\* The two halves of a leaf that is full are the leaf, and none is empty.
LEMMA SplitHalves ==
    ASSUME NEW ids \in Seq(Identifier), Len(ids) > MAX_LENGTH
    PROVE  LET mid == Len(ids) \div 2
               l == SubSeq(ids, 1, mid)
               r == SubSeq(ids, mid + 1, Len(ids))
           IN  /\ l \in Seq(Identifier) /\ l # <<>>
               /\ r \in Seq(Identifier)
               /\ l \o r = ids
<1> DEFINE mid == Len(ids) \div 2
           l == SubSeq(ids, 1, mid)
           r == SubSeq(ids, mid + 1, Len(ids))
<1>1. Len(ids) \in Nat /\ Len(ids) >= 3
  BY LeafAssumption
<1>2. mid \in 1..Len(ids)
  BY <1>1
<1> HIDE DEF mid
<1>3. l \in Seq(Identifier) /\ Len(l) = mid
  BY <1>1, <1>2, SubSeqProperties
<1>4. r \in Seq(Identifier)
  BY <1>1, <1>2, SubSeqProperties
<1>5. l \o r = SubSeq(ids, 1, Len(ids))
  BY <1>1, <1>2, ConcatAdjacentSubSeq
<1>6. SubSeq(ids, 1, Len(ids)) = ids
  BY SubSeqFull
<1>7. l # <<>>
  BY <1>2, <1>3
<1> QED BY <1>3, <1>4, <1>5, <1>6, <1>7 DEF mid

-----------------------------------------------------------------------------
(* Insertion into a tree.                                                  *)

\* A tree put together from two.
LEMMA Joined ==
    ASSUME NEW h \in 0..(MaxHeight - 1),
           NEW l \in TreeOf[h], NEW r \in TreeOf[h],
           Sound[l], Sound[r], IdsOf[l] # <<>>
    PROVE  LET node == InternalNode(l, r)
           IN  /\ node \in TreeOf[h + 1]
               /\ IdsOf[node] = IdsOf[l] \o IdsOf[r]
               /\ Sound[node]
<1> DEFINE node == InternalNode(l, r)
<1>1. MaxHeight \in Nat /\ h \in 0..MaxHeight /\ h + 1 \in 0..MaxHeight
  BY TreeOfAt
<1>2. l \in TreeNode /\ r \in TreeNode
  BY <1>1, TreeNodes
<1>3. /\ IdsOf[l] \in Seq(Identifier) /\ IdsOf[r] \in Seq(Identifier)
      /\ length(l) = Len(IdsOf[l]) /\ length(r) = Len(IdsOf[r])
  BY <1>2, IdsOfType, SoundLength
<1>4. /\ node = [left |-> l, right |-> r,
                 length |-> Len(IdsOf[l]) + Len(IdsOf[r])]
      /\ Len(IdsOf[l]) + Len(IdsOf[r]) \in Nat
  <2>1. Len(IdsOf[l]) \in Nat /\ Len(IdsOf[r]) \in Nat
    BY <1>3
  <2>2. Len(IdsOf[l]) + Len(IdsOf[r]) \in Nat
    <3> DEFINE m == Len(IdsOf[l])
               n == Len(IdsOf[r])
    <3>1. m \in Nat /\ n \in Nat
      BY <2>1
    <3> HIDE DEF m, n
    <3>2. m + n \in Nat
      BY <3>1
    <3> QED BY <3>2 DEF m, n
  <2>3. node = [left |-> l, right |-> r,
                length |-> Len(IdsOf[l]) + Len(IdsOf[r])]
    BY <1>3, Zenon DEF InternalNode
  <2> QED BY <2>2, <2>3
<1>5. /\ ~IsLeaf(node) /\ node.left = l /\ node.right = r
      /\ node.length = Len(IdsOf[l]) + Len(IdsOf[r])
  BY <1>4 DEF IsLeaf
<1>6. node \in TreeOf[h + 1]
  <2>1. TreeOf[h + 1] = Leaf \cup [left : TreeOf[h], right : TreeOf[h],
                                   length : Nat]
    BY TreeOfAt
  <2> QED BY <1>4, <2>1
<1> HIDE DEF node
<1>7. node \in TreeNode
  BY <1>1, <1>6, TreeNodes
<1>8. IdsOf[node] = IdsOf[l] \o IdsOf[r]
  BY <1>5, <1>7, IdsOfAt
<1>9. Len(IdsOf[node]) = Len(IdsOf[l]) + Len(IdsOf[r])
  BY <1>3, <1>8, ConcatProperties
<1>10. Sound[node]
  <2>1. Sound[node] = IF IsLeaf(node) THEN TRUE
                      ELSE /\ Sound[node.left] /\ Sound[node.right]
                           /\ IdsOf[node.left] # <<>>
                           /\ node.length = Len(IdsOf[node])
    BY <1>7, SoundAt
  <2> QED BY <1>5, <1>9, <2>1
<1> QED BY <1>6, <1>8, <1>10 DEF node

\* A tree of one leaf.
LEMMA LeafIs ==
    ASSUME NEW ids \in Seq(Identifier)
    PROVE  /\ \A h \in 0..MaxHeight : LeafNode(ids) \in TreeOf[h]
           /\ LeafNode(ids) \in TreeNode /\ IsLeaf(LeafNode(ids))
           /\ IdsOf[LeafNode(ids)] = ids
           /\ Sound[LeafNode(ids)]
<1> DEFINE node == LeafNode(ids)
<1>1. node \in Leaf /\ node.ids = ids
  BY DEF LeafNode, Leaf
<1>2. \A h \in 0..MaxHeight : node \in TreeOf[h]
  BY <1>1, TreeNodes
<1>3. node \in TreeNode
  BY <1>1, TreeOfAt, TreeNodes
<1>4. IsLeaf(node)
  BY <1>1, LeafShape
<1> HIDE DEF node
<1>5. IdsOf[node] = ids /\ Sound[node]
  BY <1>1, <1>3, <1>4, IdsOfAt, SoundAt
<1> QED BY <1>2, <1>3, <1>4, <1>5 DEF node

\* What insert is to return for an identifier whose place is k.
Inserts(node, id, k, height) ==
    LET new == insert[node][id]
    IN  /\ new \in TreeOf[height]
        /\ IdsOf[new] = InsertAt(IdsOf[node], k + 1, id)
        /\ Sound[new]

\* A leaf that becomes too long is split in two.
LEMMA InsertLeaf ==
    ASSUME NEW h \in 0..(MaxHeight - 1), NEW node \in Leaf,
           NEW id \in Identifier, NEW k \in 0..Len(IdsOf[node]),
           Splits(IdsOf[node], id, k)
    PROVE  Inserts(node, id, k, h + 1)
<1> DEFINE ids == node.ids
           longer == insertIdOrdered(ids, id)
           new == InsertInLeaf(ids, id)
<1>1. /\ MaxHeight \in Nat /\ h \in 0..MaxHeight /\ h + 1 \in 0..MaxHeight
      /\ 0 \in 0..MaxHeight
  BY TreeOfAt
<1>2. node \in TreeNode /\ IsLeaf(node) /\ ids \in Seq(Identifier)
  BY <1>1, TreeNodes, LeafShape
<1>3. IdsOf[node] = ids
  BY <1>2, IdsOfAt
<1>4. insert[node][id] = new
  BY <1>2, insertAtNode
<1>5. longer = InsertAt(ids, k + 1, id)
  BY <1>2, <1>3, OrderedInsert
<1>6. longer \in Seq(Identifier)
  <2>1. k + 1 \in 1..(Len(ids) + 1)
    <3>1. Len(ids) \in Nat /\ k \in 0..Len(ids)
      BY <1>2, <1>3
    <3> QED BY <3>1
  <2> QED BY <1>2, <1>5, <2>1, InsertAtType
<1>7. new \in TreeOf[h + 1] /\ IdsOf[new] = longer /\ Sound[new]
  <2> HIDE DEF longer
  <2>1. CASE Len(longer) <= MAX_LENGTH
    <3>1. new = LeafNode(longer)
      BY <2>1 DEF InsertInLeaf, longer
    <3> QED BY <1>1, <1>6, <3>1, LeafIs
  <2>2. CASE ~(Len(longer) <= MAX_LENGTH)
    <3> DEFINE mid == Len(longer) \div 2
               l == SubSeq(longer, 1, mid)
               r == SubSeq(longer, mid + 1, Len(longer))
    <3>1. new = InternalNode(LeafNode(l), LeafNode(r))
      BY <2>2 DEF InsertInLeaf, longer, split
    <3>2. /\ l \in Seq(Identifier) /\ l # <<>> /\ r \in Seq(Identifier)
          /\ l \o r = longer
      <4>1. Len(longer) \in Nat /\ MAX_LENGTH \in Nat
        BY <1>6, LeafAssumption
      <4>2. Len(longer) > MAX_LENGTH
        BY <2>2, <4>1
      <4> QED BY <1>6, <4>2, SplitHalves
    <3> HIDE DEF l, r, new
    <3>3. /\ LeafNode(l) \in TreeOf[h] /\ IdsOf[LeafNode(l)] = l
          /\ Sound[LeafNode(l)]
          /\ LeafNode(r) \in TreeOf[h] /\ IdsOf[LeafNode(r)] = r
          /\ Sound[LeafNode(r)]
      BY <1>1, <3>2, LeafIs
    <3> DEFINE left == LeafNode(l)
               right == LeafNode(r)
    <3>4. /\ left \in TreeOf[h] /\ IdsOf[left] = l /\ Sound[left]
          /\ right \in TreeOf[h] /\ IdsOf[right] = r /\ Sound[right]
          /\ new = InternalNode(left, right)
      BY <3>1, <3>3
    <3> HIDE DEF left, right
    <3>5. IdsOf[left] # <<>>
      BY <3>2, <3>4
    <3>6. /\ InternalNode(left, right) \in TreeOf[h + 1]
          /\ IdsOf[InternalNode(left, right)] = IdsOf[left] \o IdsOf[right]
          /\ Sound[InternalNode(left, right)]
      BY <3>4, <3>5, Joined
    <3> QED BY <3>2, <3>4, <3>6
  <2> QED BY <2>1, <2>2
<1> QED BY <1>3, <1>4, <1>5, <1>7 DEF Inserts

\* The place of an identifier in two sequences in a row is in the first one
\* when it is less than what that one ends with.
LEMMA SplitsParts ==
    ASSUME NEW l \in Seq(Identifier), NEW r \in Seq(Identifier), NEW id,
           NEW k \in 0..Len(l \o r), Splits(l \o r, id, k), l # <<>>
    PROVE  IF Less(id, l[Len(l)])
           THEN k \in 0..Len(l) /\ k < Len(l) /\ Splits(l, id, k)
           ELSE k - Len(l) \in 0..Len(r) /\ Splits(r, id, k - Len(l))
<1> DEFINE s == l \o r
           m == Len(l)
<1>1. /\ m \in Nat \ {0} /\ Len(r) \in Nat /\ Len(s) = m + Len(r)
      /\ \A i \in 1..m : s[i] = l[i]
      /\ \A i \in 1..Len(r) : s[m + i] = r[i]
      /\ k \in Nat /\ k <= m + Len(r)
  OBVIOUS
<1>2. /\ \A i \in 1..k : ~Less(id, s[i])
      /\ \A i \in (k + 1)..(m + Len(r)) : Less(id, s[i])
  BY <1>1 DEF Splits
<1> HIDE DEF s, m
<1>3. s[m] = l[m]
  <2>1. m \in 1..m
    BY <1>1
  <2> QED BY <1>1, <2>1
<1>4. CASE Less(id, l[m])
  <2>1. ~(m \in 1..k)
    BY <1>2, <1>3, <1>4
  <2>2. k < m /\ k \in 0..m
    BY <1>1, <2>1
  <2>3. ASSUME NEW i \in 1..k PROVE ~Less(id, l[i])
    <3>1. i \in 1..m
      BY <1>1, <2>2
    <3> QED BY <1>1, <1>2, <3>1
  <2>4. ASSUME NEW i \in (k + 1)..m PROVE Less(id, l[i])
    <3>1. i \in 1..m /\ i \in (k + 1)..(m + Len(r))
      BY <1>1
    <3> QED BY <1>1, <1>2, <3>1
  <2> QED BY <1>4, <2>2, <2>3, <2>4 DEF Splits, m
<1>5. CASE ~Less(id, l[m])
  <2>1. ~(m \in (k + 1)..(m + Len(r)))
    BY <1>2, <1>3, <1>5
  <2>2. k >= m /\ k - m \in 0..Len(r)
    BY <1>1, <2>1
  <2>3. ASSUME NEW i \in 1..(k - m) PROVE ~Less(id, r[i])
    <3>1. m + i \in 1..k /\ i \in 1..Len(r)
      BY <1>1, <2>2
    <3> QED BY <1>1, <1>2, <3>1
  <2>4. ASSUME NEW i \in ((k - m) + 1)..Len(r) PROVE Less(id, r[i])
    <3>1. m + i \in (k + 1)..(m + Len(r)) /\ i \in 1..Len(r)
      BY <1>1, <2>2
    <3> QED BY <1>1, <1>2, <3>1
  <2> QED BY <1>5, <2>2, <2>3, <2>4 DEF Splits, m
<1> QED BY <1>4, <1>5 DEF m

\* The parts of a text without null are without null.
LEMMA NamedParts ==
    ASSUME NEW l \in Seq(Identifier), NEW r \in Seq(Identifier),
           Named(l \o r)
    PROVE  Named(l) /\ Named(r)
<1>1. ASSUME NEW i \in 1..Len(l) PROVE l[i] # NoId
  <2>1. i \in 1..Len(l \o r) /\ (l \o r)[i] = l[i]
    OBVIOUS
  <2> QED BY <2>1 DEF Named
<1>2. ASSUME NEW i \in 1..Len(r) PROVE r[i] # NoId
  <2>1. Len(l) + i \in 1..Len(l \o r) /\ (l \o r)[Len(l) + i] = r[i]
    OBVIOUS
  <2> QED BY <2>1 DEF Named
<1> QED BY <1>1, <1>2 DEF Named

\* An internal node hands an identifier to the subtree its place is in.
LEMMA InsertInner ==
    ASSUME NEW h \in 0..(MaxHeight - 1), NEW node \in TreeOf[h + 1],
           h + 1 \in 0..(MaxHeight - 1),
           ~IsLeaf(node), Usable(node), Named(IdsOf[node]),
           NEW id \in Identifier, NEW k \in 0..Len(IdsOf[node]),
           Splits(IdsOf[node], id, k),
           \A i \in 0..Len(IdsOf[node.left]) :
             Splits(IdsOf[node.left], id, i) => Inserts(node.left, id, i, h + 1),
           \A i \in 0..Len(IdsOf[node.right]) :
             Splits(IdsOf[node.right], id, i) => Inserts(node.right, id, i, h + 1)
    PROVE  Inserts(node, id, k, (h + 1) + 1)
<1> DEFINE l == IdsOf[node.left]
           r == IdsOf[node.right]
           left == insert[node.left][id]
           right == insert[node.right][id]
<1>1. /\ MaxHeight \in Nat /\ h \in 0..MaxHeight /\ h + 1 \in 0..MaxHeight
      /\ h + 1 \in h..MaxHeight
  BY TreeOfAt
<1>2. /\ node \in TreeNode /\ node.left \in TreeOf[h] /\ node.right \in TreeOf[h]
      /\ node.left \in TreeNode /\ node.right \in TreeNode
  BY <1>1, NodeAt, TreeNodes
<1>3. node.left \in TreeOf[h + 1] /\ node.right \in TreeOf[h + 1]
  BY <1>1, <1>2, TreesGrow
<1>4. /\ l \in Seq(Identifier) /\ r \in Seq(Identifier) /\ IdsOf[node] = l \o r
      /\ l # <<>> /\ Sound[node.left] /\ Sound[node.right]
  BY <1>2, IdsOfAt, IdsOfType DEF Usable
<1>5. Named(l) /\ Named(r)
  BY <1>4, NamedParts
<1>6. GoesLeft(node, id) <=> Less(id, l[Len(l)])
  <2>1. Len(l) \in 1..Len(l) /\ (Len(l) - 1) + 1 = Len(l)
    <3> HIDE DEF l
    <3> QED BY <1>4
  <2>2. getLastIdInSubtree[node.left] = l[Len(l)]
    BY <1>2, <1>4, <1>5, <2>1, LastInSubtree DEF LastId, getIdAtOffset
  <2> QED BY <1>5, <2>1, <2>2 DEF GoesLeft, Named
<1>7. IF Less(id, l[Len(l)])
      THEN k \in 0..Len(l) /\ k < Len(l) /\ Splits(l, id, k)
      ELSE k - Len(l) \in 0..Len(r) /\ Splits(r, id, k - Len(l))
  BY <1>4, SplitsParts
<1>8. insert[node][id] = IF GoesLeft(node, id)
                         THEN InternalNode(left, node.right)
                         ELSE InternalNode(node.left, right)
  BY <1>2, insertAtNode
<1>9. CASE Less(id, l[Len(l)])
  <2>1. /\ left \in TreeOf[h + 1] /\ IdsOf[left] = InsertAt(l, k + 1, id)
        /\ Sound[left]
    BY <1>7, <1>9 DEF Inserts
  <2>2. k + 1 \in 1..(Len(l) + 1)
    <3>1. Len(l) \in Nat /\ k \in 0..Len(l)
      BY <1>4, <1>7, <1>9
    <3> QED BY <3>1
  <2>3. InsertAt(l \o r, k + 1, id) = IdsOf[left] \o r
    <3> HIDE DEF l, r, left
    <3>1. InsertAt(l \o r, k + 1, id) = InsertAt(l, k + 1, id) \o r
      <4> DEFINE n == k + 1
      <4>1. n \in 1..(Len(l) + 1)
        BY <2>2
      <4> HIDE DEF n
      <4>2. InsertAt(l \o r, n, id) = InsertAt(l, n, id) \o r
        BY <1>4, <4>1, InsertAtLeft
      <4> QED BY <4>2 DEF n
    <3> QED BY <2>1, <3>1
  <2>4. IdsOf[left] # <<>>
    <3>1. Len(IdsOf[left]) = Len(l) + 1 /\ Len(l) \in Nat
      BY <1>4, <2>1, <2>2, InsertAtType
    <3> QED BY <3>1
  <2>5. /\ InternalNode(left, node.right) \in TreeOf[(h + 1) + 1]
        /\ IdsOf[InternalNode(left, node.right)] = IdsOf[left] \o r
        /\ Sound[InternalNode(left, node.right)]
    BY <1>3, <1>4, <2>1, <2>4, Joined
  <2> QED BY <1>4, <1>6, <1>8, <1>9, <2>3, <2>5 DEF Inserts
<1>10. CASE ~Less(id, l[Len(l)])
  <2> DEFINE j == k - Len(l)
  <2>1. /\ right \in TreeOf[h + 1] /\ IdsOf[right] = InsertAt(r, j + 1, id)
        /\ Sound[right]
    BY <1>7, <1>10 DEF Inserts
  <2>2. j + 1 \in 1..(Len(r) + 1) /\ k + 1 = Len(l) + (j + 1)
    <3>1. k \in Nat
      BY <1>4
    <3>2. k - Len(l) \in 0..Len(r)
      BY <1>7, <1>10
    <3> HIDE DEF l, r
    <3>3. Len(l) \in Nat /\ Len(r) \in Nat
      BY <1>4
    <3> QED BY <3>1, <3>2, <3>3
  <2>3. InsertAt(l \o r, k + 1, id) = l \o IdsOf[right]
    <3> HIDE DEF j, l, r
    <3>1. InsertAt(l \o r, Len(l) + (j + 1), id) = l \o InsertAt(r, j + 1, id)
      <4> DEFINE n == j + 1
      <4>1. n \in 1..(Len(r) + 1)
        BY <2>2
      <4> HIDE DEF n
      <4>2. InsertAt(l \o r, Len(l) + n, id) = l \o InsertAt(r, n, id)
        <5>1. /\ l \in Seq(Identifier) /\ r \in Seq(Identifier)
              /\ id \in Identifier /\ n \in 1..(Len(r) + 1)
          BY <1>4, <4>1
        <5> QED BY <5>1, InsertAtRight
      <4> QED BY <4>2 DEF n
    <3> QED BY <2>1, <2>2, <3>1
  <2>4. /\ InternalNode(node.left, right) \in TreeOf[(h + 1) + 1]
        /\ IdsOf[InternalNode(node.left, right)] = l \o IdsOf[right]
        /\ Sound[InternalNode(node.left, right)]
    BY <1>3, <1>4, <2>1, Joined
  <2> QED BY <1>4, <1>6, <1>8, <1>10, <2>3, <2>4 DEF Inserts
<1> QED BY <1>9, <1>10

\* An insertion puts an identifier at its place, and makes the tree higher by
\* one at most.
LEMMA InsertTree ==
    \A h \in 0..(MaxHeight - 1) :
        \A node \in TreeOf[h], id \in Identifier :
          \A k \in 0..Len(IdsOf[node]) :
            Usable(node) /\ Named(IdsOf[node]) /\ Splits(IdsOf[node], id, k)
            => Inserts(node, id, k, h + 1)
<1> DEFINE n == MaxHeight - 1
           Correct(h) ==
             \A node \in TreeOf[h], id \in Identifier :
               \A k \in 0..Len(IdsOf[node]) :
                 Usable(node) /\ Named(IdsOf[node]) /\ Splits(IdsOf[node], id, k)
                 => Inserts(node, id, k, h + 1)
           P == {h \in 0..n : Correct(h)}
<1>0. MaxHeight \in Nat /\ TreeOf[0] = Leaf
  BY TreeOfAt
<1>1. CASE MaxHeight = 0
  BY <1>1
<1>2. CASE MaxHeight # 0
  <2>1. n \in Nat /\ 0 \in 0..n
    BY <1>0, <1>2
  <2>2. Correct(0)
    BY <1>0, <2>1, InsertLeaf
  <2>3. 0 \in P
    <3> HIDE DEF Correct
    <3> QED BY <2>1, <2>2
  <2>4. ASSUME NEW h \in 0..(n - 1), h \in P
        PROVE  h + 1 \in P
    <3>1. h \in 0..n /\ h + 1 \in 0..n
      BY <2>1
    <3>2. Correct(h)
      <4> HIDE DEF Correct
      <4> QED BY <2>4
    <3>3. ASSUME NEW node \in TreeOf[h + 1], NEW id \in Identifier,
                 NEW k \in 0..Len(IdsOf[node]),
                 Usable(node), Named(IdsOf[node]), Splits(IdsOf[node], id, k)
          PROVE  Inserts(node, id, k, (h + 1) + 1)
      <4>1. CASE IsLeaf(node)
        <5>1. node \in Leaf
          BY <3>1, <4>1, NodeAt
        <5> QED BY <3>1, <3>3, <5>1, InsertLeaf
      <4>2. CASE ~IsLeaf(node)
        <5>1. node.left \in TreeOf[h] /\ node.right \in TreeOf[h]
          BY <3>1, <4>2, NodeAt
        <5>2. node.left \in TreeNode /\ node.right \in TreeNode
              /\ node \in TreeNode
          <6>1. h \in 0..MaxHeight /\ h + 1 \in 0..MaxHeight
            BY <1>0
          <6> QED BY <5>1, <6>1, TreeNodes
        <5>3. Sound[node.left] /\ Sound[node.right]
          BY <3>3, <4>2 DEF Usable
        <5>4. Usable(node.left) /\ Usable(node.right)
          BY <5>2, <5>3, SoundAt DEF Usable
        <5>5. Named(IdsOf[node.left]) /\ Named(IdsOf[node.right])
          BY <3>3, <4>2, <5>2, IdsOfAt, IdsOfType, NamedParts
        <5>6. \A i \in 0..Len(IdsOf[node.left]) :
                Splits(IdsOf[node.left], id, i)
                => Inserts(node.left, id, i, h + 1)
          BY <3>2, <5>1, <5>4, <5>5
        <5>7. \A i \in 0..Len(IdsOf[node.right]) :
                Splits(IdsOf[node.right], id, i)
                => Inserts(node.right, id, i, h + 1)
          BY <3>2, <5>1, <5>4, <5>5
        <5> QED BY <3>1, <3>3, <4>2, <5>6, <5>7, InsertInner
      <4> QED BY <4>1, <4>2
    <3>4. Correct(h + 1)
      BY <3>3
    <3> HIDE DEF Correct
    <3> QED BY <3>1, <3>4
  <2>5. \A h \in 0..n : h \in P
    <3> HIDE DEF P, n
    <3> QED BY <2>1, <2>3, <2>4, Upwards
  <2>6. \A h \in 0..n : Correct(h)
    <3> HIDE DEF Correct
    <3> QED BY <2>5
  <2> QED BY <2>6
<1> QED BY <1>0, <1>1, <1>2
-----------------------------------------------------------------------------
(* Deletion.                                                               *)

\* A removal makes a sequence shorter by one.
LEMMA RemoveAtType ==
    ASSUME NEW S, NEW s \in Seq(S), NEW k \in 1..Len(s)
    PROVE  RemoveAt(s, k) \in Seq(S) /\ Len(RemoveAt(s, k)) = Len(s) - 1
<1> DEFINE rest == RemoveAt(s, k)
<1>1. Len(s) \in Nat \ {0}
  OBVIOUS
<1>2. rest = [i \in 1..(Len(s) - 1) |-> IF i < k THEN s[i] ELSE s[i + 1]]
  BY RemoveAtIs
<1>3. ASSUME NEW i \in 1..(Len(s) - 1)
      PROVE  (IF i < k THEN s[i] ELSE s[i + 1]) \in S
  <2>1. i \in 1..Len(s) /\ i + 1 \in 1..Len(s)
    BY <1>1
  <2> QED BY <2>1, ElementOfSeq
<1>4. rest \in [1..(Len(s) - 1) -> S] /\ Len(s) - 1 \in Nat
  BY <1>1, <1>2, <1>3
<1> HIDE DEF rest
<1>5. rest \in Seq(S) /\ Len(rest) = Len(s) - 1
  BY <1>4
<1> QED BY <1>5 DEF rest

\* A removal from two sequences in a row is one from the one it hits.
LEMMA RemoveAtLeft ==
    ASSUME NEW S, NEW l \in Seq(S), NEW r \in Seq(S), NEW k \in 1..Len(l)
    PROVE  RemoveAt(l \o r, k) = RemoveAt(l, k) \o r
<1> DEFINE s == l \o r
           rest == RemoveAt(l, k)
           t == rest \o r
           n == Len(l) - 1
<1>1. /\ Len(l) \in Nat /\ Len(r) \in Nat /\ Len(s) = Len(l) + Len(r)
      /\ s \in Seq(S)
      /\ \A i \in 1..Len(s) : s[i] = IF i <= Len(l) THEN l[i]
                                     ELSE r[i - Len(l)]
      /\ k \in Nat \ {0} /\ k <= Len(l)
  OBVIOUS
<1>2. rest = [i \in 1..n |-> IF i < k THEN l[i] ELSE l[i + 1]]
  BY RemoveAtIs
<1>3. rest \in Seq(S) /\ Len(rest) = n /\ n \in Nat
  <2>1. rest \in Seq(S) /\ Len(rest) = Len(l) - 1
    BY RemoveAtType
  <2> HIDE DEF rest
  <2> QED BY <1>1, <2>1
<1>4. RemoveAt(s, k) = [i \in 1..(Len(s) - 1) |-> IF i < k THEN s[i] ELSE s[i + 1]]
  <2> HIDE DEF s
  <2>1. k \in 1..Len(s)
    BY <1>1
  <2> QED BY <1>1, <2>1, RemoveAtIs
<1> HIDE DEF s, rest
<1>5. /\ t \in Seq(S) /\ Len(t) = n + Len(r) /\ Len(s) - 1 = n + Len(r)
      /\ \A i \in 1..(Len(s) - 1) : t[i] = IF i <= n THEN rest[i] ELSE r[i - n]
  <2> HIDE DEF n
  <2>1. Len(s) - 1 = n + Len(r)
    BY <1>1 DEF n
  <2>2. rest \in Seq(S) /\ r \in Seq(S)
    BY <1>3
  <2>3. /\ t \in Seq(S) /\ Len(t) = Len(rest) + Len(r)
        /\ \A i \in 1..(Len(rest) + Len(r)) :
             t[i] = IF i <= Len(rest) THEN rest[i] ELSE r[i - Len(rest)]
    BY <2>2, ConcatProperties
  <2> HIDE DEF t
  <2> QED BY <1>3, <2>1, <2>3
<1> HIDE DEF t
<1>6. t = [i \in 1..(Len(s) - 1) |-> t[i]]
  BY <1>5, SeqAsFunction
<1>7. ASSUME NEW i \in 1..(Len(s) - 1)
      PROVE  (IF i < k THEN s[i] ELSE s[i + 1]) = t[i]
  <2>1. CASE i < k
    <3>1. i \in 1..Len(s) /\ i <= Len(l) /\ i \in 1..n /\ i <= n
      BY <1>1, <2>1
    <3>2. t[i] = rest[i] /\ rest[i] = l[i]
      <4> HIDE DEF n
      <4> QED BY <1>2, <1>5, <2>1, <3>1
    <3> QED BY <1>1, <2>1, <3>1, <3>2
  <2>2. CASE ~(i < k) /\ i <= n
    <3>1. i + 1 \in 1..Len(s) /\ i + 1 <= Len(l) /\ i \in 1..n
      BY <1>1, <2>2
    <3>2. t[i] = rest[i] /\ rest[i] = l[i + 1]
      <4> HIDE DEF n
      <4> QED BY <1>2, <1>5, <2>2, <3>1
    <3> QED BY <1>1, <2>2, <3>1, <3>2
  <2>3. CASE ~(i <= n)
    <3>1. /\ i + 1 \in 1..Len(s) /\ ~(i + 1 <= Len(l)) /\ ~(i < k)
          /\ (i + 1) - Len(l) = i - n
      BY <1>1, <2>3
    <3>2. t[i] = r[i - n]
      <4> HIDE DEF n
      <4> QED BY <1>5, <2>3
    <3>3. s[i + 1] = r[(i + 1) - Len(l)]
      BY <1>1, <3>1
    <3> QED BY <3>1, <3>2, <3>3
  <2> QED BY <2>1, <2>2, <2>3
<1>8. RemoveAt(s, k) = t
  BY <1>4, <1>6, <1>7
<1> QED BY <1>8 DEF s, t, rest

\* Removing from the second part of a sequence leaves the first alone.
LEMMA RemoveAtRight ==
    ASSUME NEW S, NEW l \in Seq(S), NEW r \in Seq(S), NEW k \in 1..Len(r)
    PROVE  RemoveAt(l \o r, Len(l) + k) = l \o RemoveAt(r, k)
<1> DEFINE s == l \o r
           m == Len(l)
           rest == RemoveAt(r, k)
           t == l \o rest
           at == m + k
<1>1. /\ m \in Nat /\ Len(r) \in Nat /\ Len(s) = m + Len(r)
      /\ s \in Seq(S)
      /\ \A i \in 1..Len(s) : s[i] = IF i <= m THEN l[i] ELSE r[i - m]
      /\ k \in Nat \ {0} /\ k <= Len(r)
  OBVIOUS
<1>2. rest = [i \in 1..(Len(r) - 1) |-> IF i < k THEN r[i] ELSE r[i + 1]]
  BY RemoveAtIs
<1>3. rest \in Seq(S) /\ Len(rest) = Len(r) - 1
  BY RemoveAtType
<1> HIDE DEF s, m, rest
<1>4. RemoveAt(s, at) = [i \in 1..(Len(s) - 1) |-> IF i < at THEN s[i]
                                                  ELSE s[i + 1]]
  <2>1. at \in 1..Len(s)
    BY <1>1
  <2> HIDE DEF at
  <2> QED BY <1>1, <2>1, RemoveAtIs
<1>5. /\ t \in Seq(S) /\ Len(t) = Len(s) - 1
      /\ \A i \in 1..(Len(s) - 1) : t[i] = IF i <= m THEN l[i] ELSE rest[i - m]
  <2>1. Len(s) - 1 = m + Len(rest)
    BY <1>1, <1>3
  <2> QED BY <1>1, <1>3, <2>1, ConcatProperties DEF m
<1> HIDE DEF t
<1>6. t = [i \in 1..(Len(s) - 1) |-> t[i]]
  BY <1>5, SeqAsFunction
<1>7. ASSUME NEW i \in 1..(Len(s) - 1)
      PROVE  (IF i < at THEN s[i] ELSE s[i + 1]) = t[i]
  <2>1. CASE i <= m
    <3>1. i \in 1..Len(s) /\ i < at
      BY <1>1, <2>1
    <3> QED BY <1>1, <1>5, <2>1, <3>1
  <2>2. CASE ~(i <= m) /\ i < at
    <3>1. i \in 1..Len(s) /\ i - m \in 1..(Len(r) - 1) /\ i - m < k
      BY <1>1, <2>2
    <3>2. rest[i - m] = r[i - m]
      BY <1>2, <3>1
    <3> QED BY <1>1, <1>5, <2>2, <3>1, <3>2
  <2>3. CASE ~(i < at)
    <3>1. /\ i + 1 \in 1..Len(s) /\ i - m \in 1..(Len(r) - 1) /\ ~(i - m < k)
          /\ ~(i <= m) /\ ~(i + 1 <= m) /\ (i + 1) - m = (i - m) + 1
      BY <1>1, <2>3
    <3>2. rest[i - m] = r[(i - m) + 1]
      BY <1>2, <3>1
    <3>3. s[i + 1] = r[(i + 1) - m]
      BY <1>1, <3>1
    <3> QED BY <1>5, <2>3, <3>1, <3>2, <3>3
  <2> QED BY <2>1, <2>2, <2>3
<1>8. RemoveAt(s, at) = t
  BY <1>4, <1>6, <1>7
<1> QED BY <1>8 DEF s, t, rest, m

\* The elements of two sequences in a row.
LEMMA InARow ==
    ASSUME NEW S, NEW l \in Seq(S), NEW r \in Seq(S), NEW s, s = l \o r
    PROVE  /\ Len(l) \in Nat /\ Len(r) \in Nat /\ Len(s) = Len(l) + Len(r)
           /\ \A i \in 1..Len(l) : i \in 1..Len(s) /\ s[i] = l[i]
           /\ \A i \in 1..Len(r) : /\ Len(l) + i \in 1..Len(s)
                                   /\ s[Len(l) + i] = r[i]
  OBVIOUS

\* No identifier stands twice.
Distinct(ids) == \A i, j \in 1..Len(ids) : ids[i] = ids[j] => i = j

\* The first of an identifier is then the only one.
LEMMA RemoveOne ==
    ASSUME NEW ids \in Seq(Identifier), Distinct(ids), NEW k \in 1..Len(ids)
    PROVE  RemoveFirst(ids, ids[k]) = RemoveAt(ids, k)
<1> DEFINE same == {i \in 1..Len(ids) : ids[i] = ids[k]}
<1>1. same = {k}
  BY DEF Distinct
<1>2. Min(same) = k
  BY <1>1 DEF Min
<1>3. SelectInSeq(ids, LAMBDA id : id = ids[k]) = Min(same)
  BY <1>1 DEF SelectInSeq
<1>4. RemoveFirst(ids, ids[k]) =
        RemoveAt(ids, SelectInSeq(ids, LAMBDA id : id = ids[k]))
  BY DEF RemoveFirst
<1> QED BY <1>2, <1>3, <1>4

\* A deletion from a tree of two leaves at most removes the identifier it is
\* told, and the tree can be searched still if the first one is kept.
LEMMA DeleteTree ==
    ASSUME NEW h \in 0..MaxHeight, NEW node \in TreeOf[h],
           LeavesOf[node] <= 2, Usable(node), Distinct(IdsOf[node]),
           NEW k \in 2..Len(IdsOf[node])
    PROVE  LET new == deleteId[node][IdsOf[node][k]]
           IN  /\ new \in TreeOf[h]
               /\ IdsOf[new] = RemoveAt(IdsOf[node], k)
               /\ Usable(new)
<1> DEFINE ids == IdsOf[node]
           id == ids[k]
           new == deleteId[node][id]
<1>1. node \in TreeNode /\ Leaf \subseteq TreeOf[h] /\ MaxHeight \in Nat
  BY TreeNodes, TreeOfAt
<1>2. ids \in Seq(Identifier) /\ k \in 1..Len(ids) /\ k \in Nat /\ k >= 2
  BY <1>1, IdsOfType
<1>3. id \in Identifier
  BY <1>2, ElementOfSeq
<1>4. CASE IsLeaf(node)
  <2>1. ids = node.ids
    BY <1>1, <1>4, IdsOfAt
  <2>2. new = LeafNode(RemoveFirst(ids, id))
    BY <1>1, <1>3, <1>4, <2>1, deleteAtNode
  <2>3. RemoveFirst(ids, id) = RemoveAt(ids, k)
    BY <1>2, RemoveOne
  <2>4. RemoveAt(ids, k) \in Seq(Identifier)
    BY <1>2, RemoveAtType
  <2> DEFINE rest == RemoveAt(ids, k)
  <2>5. new = LeafNode(rest) /\ rest \in Seq(Identifier)
    BY <2>2, <2>3, <2>4
  <2> HIDE DEF new, rest
  <2>6. new \in TreeOf[h] /\ IdsOf[new] = rest /\ IsLeaf(new)
    BY <2>5, LeafIs
  <2> QED BY <2>6 DEF Usable, new, rest
<1>5. CASE ~IsLeaf(node)
  <2> DEFINE l == IdsOf[node.left]
             r == IdsOf[node.right]
  <2>1. /\ node.left \in Leaf /\ IsLeaf(node.left)
        /\ node.right \in Leaf /\ IsLeaf(node.right)
        /\ node.left \in TreeNode /\ node.right \in TreeNode
    BY <1>1, <1>5, TwoLeaves, Children
  <2>2. /\ l = node.left.ids /\ l \in Seq(Identifier)
        /\ r = node.right.ids /\ r \in Seq(Identifier)
        /\ ids = l \o r
    BY <1>1, <1>5, <2>1, IdsOfAt, IdsOfType
  <2>3. h # 0
    BY <1>5, LeafShape, TreeOfAt
  <2>4. PICK g \in 0..(MaxHeight - 1) : h = g + 1
    <3>1. h - 1 \in 0..(MaxHeight - 1) /\ h = (h - 1) + 1
      BY <1>1, <2>3
    <3> QED BY <3>1
  <2>5. g \in 0..MaxHeight
    BY <1>1
  <2>6. node.length \in Nat /\ node = [left |-> node.left, right |-> node.right,
                                       length |-> node.length]
    BY <1>1, <1>5, Children
  <2>7. ASSUME NEW a \in Seq(Identifier), NEW b \in Seq(Identifier), a # <<>>,
               new = [left |-> LeafNode(a), right |-> LeafNode(b),
                      length |-> node.length]
        PROVE  new \in TreeOf[h] /\ IdsOf[new] = a \o b /\ Usable(new)
    <3> DEFINE left == LeafNode(a)
               right == LeafNode(b)
    <3>1. /\ left \in TreeOf[g] /\ right \in TreeOf[g]
          /\ left \in TreeNode /\ right \in TreeNode
          /\ IdsOf[left] = a /\ Sound[left] /\ IdsOf[right] = b /\ Sound[right]
      BY <2>5, LeafIs
    <3>2. new = [left |-> left, right |-> right, length |-> node.length]
      BY <2>7
    <3> HIDE DEF left, right, new
    <3>3. ~IsLeaf(new) /\ new.left = left /\ new.right = right
      BY <3>2 DEF IsLeaf
    <3>4. new \in TreeOf[h]
      <4>1. TreeOf[g + 1] = Leaf \cup [left : TreeOf[g], right : TreeOf[g],
                                       length : Nat]
        BY TreeOfAt
      <4> QED BY <2>4, <2>6, <3>1, <3>2, <4>1
    <3>5. new \in TreeNode
      BY <3>4, TreeNodes
    <3>6. IdsOf[new] = a \o b
      BY <3>1, <3>3, <3>5, IdsOfAt
    <3> QED BY <2>7, <3>1, <3>3, <3>4, <3>6 DEF Usable
  <2>8. /\ Len(l) \in Nat /\ Len(r) \in Nat /\ Len(ids) = Len(l) + Len(r)
        /\ \A i \in 1..Len(l) : i \in 1..Len(ids) /\ ids[i] = l[i]
        /\ \A i \in 1..Len(r) : /\ Len(l) + i \in 1..Len(ids)
                                /\ ids[Len(l) + i] = r[i]
    <3> HIDE DEF l, r, ids
    <3>1. l \in Seq(Identifier) /\ r \in Seq(Identifier) /\ ids = l \o r
      BY <2>2
    <3> QED BY <3>1, InARow
  <2>9. CASE k <= Len(l)
    <3>1. k \in 1..Len(l) /\ l[k] = id
      <4> HIDE DEF l, r, ids
      <4> QED BY <1>2, <2>2, <2>9
    <3>2. Contains(l, id)
      BY <3>1 DEF Contains
    <3>3. Distinct(l)
      <4> HIDE DEF l, r, ids
      <4>1. Distinct(ids)
        BY DEF ids
      <4> QED BY <2>8, <4>1 DEF Distinct
    <3>4. RemoveFirst(l, id) = RemoveAt(l, k)
      <4>1. RemoveFirst(l, l[k]) = RemoveAt(l, k)
        BY <2>2, <3>1, <3>3, RemoveOne
      <4> QED BY <3>1, <4>1
    <3>5. deleteId[node.left][id] = LeafNode(RemoveAt(l, k))
      <4>1. deleteId[node.left][id] = LeafNode(RemoveFirst(node.left.ids, id))
        BY <1>3, <2>1, deleteAtNode
      <4> QED BY <2>2, <3>4, <4>1
    <3>6. new = [node EXCEPT !.left = deleteId[node.left][id]]
      BY <1>1, <1>3, <1>5, <3>2, deleteAtNode
    <3>7. node.right = LeafNode(r)
      BY <2>1, <2>2, LeafShape
    <3> DEFINE rest == RemoveAt(l, k)
    <3>8. new = [left |-> LeafNode(rest), right |-> LeafNode(r),
                 length |-> node.length]
      <4> HIDE DEF rest, r, new
      <4> QED BY <2>6, <3>5, <3>6, <3>7 DEF rest
    <3>9. rest \in Seq(Identifier) /\ Len(rest) = Len(l) - 1
      BY <2>2, <3>1, RemoveAtType
    <3>10. rest # <<>>
      <4> HIDE DEF rest
      <4> QED BY <1>2, <2>8, <2>9, <3>9
    <3>11. new \in TreeOf[h] /\ IdsOf[new] = rest \o r /\ Usable(new)
      <4> HIDE DEF rest, new
      <4> QED BY <2>2, <2>7, <3>8, <3>9, <3>10
    <3>12. RemoveAt(ids, k) = rest \o r
      <4>1. l \in Seq(Identifier) /\ r \in Seq(Identifier) /\ k \in 1..Len(l)
        BY <2>2, <3>1
      <4>2. ids = l \o r
        BY <2>2
      <4> HIDE DEF l, r, ids
      <4>3. RemoveAt(l \o r, k) = RemoveAt(l, k) \o r
        BY <4>1, RemoveAtLeft
      <4> QED BY <4>2, <4>3
    <3> QED BY <3>11, <3>12
  <2>10. CASE ~(k <= Len(l))
    <3> DEFINE j == k - Len(l)
    <3>1. j \in 1..Len(r) /\ r[j] = id /\ Len(l) + j = k
      <4> HIDE DEF l, r, ids
      <4>1. j \in 1..Len(r) /\ Len(l) + j = k
        BY <1>2, <2>8, <2>10
      <4>2. ids[Len(l) + j] = r[j]
        <5> HIDE DEF j
        <5> QED BY <2>8, <4>1
      <4> QED BY <4>1, <4>2
    <3>2. ~Contains(l, id)
      <4>1. ASSUME NEW i \in 1..Len(l)
            PROVE  l[i] # id
        <5>1. i \in 1..Len(ids) /\ ids[i] = l[i] /\ i # k
          <6> HIDE DEF l, r, ids
          <6>1. i \in 1..Len(ids) /\ ids[i] = l[i]
            BY <2>8
          <6>2. i # k
            BY <1>2, <2>8, <2>10
          <6> QED BY <6>1, <6>2
        <5> QED BY <1>2, <5>1 DEF Distinct
      <4> QED BY <4>1 DEF Contains
    <3>3. Distinct(r)
      <4> HIDE DEF l, r, ids
      <4>1. Distinct(ids)
        BY DEF ids
      <4>2. ASSUME NEW i \in 1..Len(r), NEW o \in 1..Len(r), r[i] = r[o]
            PROVE  i = o
        <5>1. /\ Len(l) + i \in 1..Len(ids) /\ ids[Len(l) + i] = r[i]
              /\ Len(l) + o \in 1..Len(ids) /\ ids[Len(l) + o] = r[o]
          BY <2>8
        <5>2. Len(l) + i = Len(l) + o
          BY <4>1, <4>2, <5>1 DEF Distinct
        <5> QED BY <2>8, <5>2
      <4> QED BY <4>2 DEF Distinct
    <3>4. RemoveFirst(r, id) = RemoveAt(r, j)
      <4>1. RemoveFirst(r, r[j]) = RemoveAt(r, j)
        <5> HIDE DEF j
        <5> QED BY <2>2, <3>1, <3>3, RemoveOne
      <4> QED BY <3>1, <4>1
    <3>5. deleteId[node.right][id] = LeafNode(RemoveAt(r, j))
      <4>1. deleteId[node.right][id] = LeafNode(RemoveFirst(node.right.ids, id))
        BY <1>3, <2>1, deleteAtNode
      <4> QED BY <2>2, <3>4, <4>1
    <3>6. new = [node EXCEPT !.right = deleteId[node.right][id]]
      BY <1>1, <1>3, <1>5, <3>2, deleteAtNode
    <3>7. node.left = LeafNode(l) /\ l # <<>>
      BY <1>5, <2>1, <2>2, LeafShape DEF Usable
    <3> DEFINE rest == RemoveAt(r, j)
    <3>8. new = [left |-> LeafNode(l), right |-> LeafNode(rest),
                 length |-> node.length]
      <4> HIDE DEF rest, l, new
      <4> QED BY <2>6, <3>5, <3>6, <3>7 DEF rest
    <3>9. rest \in Seq(Identifier)
      <4> HIDE DEF j
      <4> QED BY <2>2, <3>1, RemoveAtType
    <3>10. new \in TreeOf[h] /\ IdsOf[new] = l \o rest /\ Usable(new)
      <4> HIDE DEF rest, new, l
      <4> QED BY <2>2, <2>7, <3>7, <3>8, <3>9
    <3>11. RemoveAt(ids, k) = l \o rest
      <4>1. RemoveAt(l \o r, Len(l) + j) = l \o rest
        <5>1. l \in Seq(Identifier) /\ r \in Seq(Identifier)
          BY <2>2
        <5>2. j \in 1..Len(r)
          BY <3>1
        <5> HIDE DEF j, l, r
        <5>3. RemoveAt(l \o r, Len(l) + j) = l \o RemoveAt(r, j)
          BY <5>1, <5>2, RemoveAtRight
        <5> QED BY <5>3
      <4> QED BY <2>2, <3>1, <4>1
    <3> QED BY <3>10, <3>11
  <2> QED BY <2>9, <2>10
<1> QED BY <1>4, <1>5
-----------------------------------------------------------------------------
(* The editor: the tree and the atoms.                                     *)

\* The identifiers of the text.
AtomIds == [i \in DOMAIN atoms |-> atoms[i].id]

\* The inductive invariant: the tree is no higher than there were insertions.
EInv == IInv /\ root \in TreeOf[inserted] /\ Usable(root) /\ TreeHoldsAtoms

\* They are as many as the atoms.
LEMMA AtomIdsType ==
    ASSUME atoms \in Seq(Atom)
    PROVE  /\ AtomIds \in Seq(Identifier)
           /\ Len(AtomIds) = Len(atoms) /\ Len(atoms) \in Nat
           /\ \A i \in 1..Len(atoms) : AtomIds[i] = atoms[i].id
<1>1. Len(atoms) \in Nat /\ DOMAIN atoms = 1..Len(atoms)
  OBVIOUS
<1>2. AtomIds = [i \in 1..Len(atoms) |-> atoms[i].id]
  BY <1>1 DEF AtomIds
<1>3. ASSUME NEW i \in 1..Len(atoms)
      PROVE  atoms[i].id \in Identifier
  <2>1. atoms[i] \in Atom
    OBVIOUS
  <2> QED BY <2>1 DEF Atom
<1> QED BY <1>1, <1>2, <1>3

\* The sentinels are identifiers.
LEMMA SentinelType == SENT_START \in Identifier /\ SENT_END \in Identifier
<1>1. <<0>> \in Seq(Nat) /\ <<EndDigit>> \in Seq(Nat)
  BY EndAssumption
<1> QED BY <1>1 DEF SENT_START, SENT_END, Identifier, ClientId

\* The tree of the editor is one of the trees.
LEMMA RootType ==
    ASSUME EInv
    PROVE  /\ atoms \in Seq(Atom) /\ Len(atoms) \in Nat
           /\ inserted \in 0..MaxHeight /\ root \in TreeNode
           /\ IdsOf[root] \in Seq(Identifier)
<1>1. atoms \in Seq(Atom) /\ Len(atoms) \in Nat
  BY DEF EInv, IInv, TypeOK
<1>2. inserted \in 0..MaxHeight
  BY EditorAssumption, LseqAssumption, LeafAssumption DEF EInv, IInv, TypeOK
<1>3. root \in TreeNode
  BY <1>2, TreeNodes DEF EInv
<1> QED BY <1>1, <1>2, <1>3, IdsOfType

\* What stands where in the tree.
LEMMA IdAt ==
    ASSUME EInv
    PROVE  /\ Len(IdsOf[root]) = Len(atoms) + 1 \/ Len(IdsOf[root]) = Len(atoms) + 2
           /\ IdsOf[root][1] = SENT_START
           /\ \A i \in 1..Len(atoms) : IdsOf[root][i + 1] = atoms[i].id
           /\ Len(IdsOf[root]) = Len(atoms) + 2
              => IdsOf[root][Len(atoms) + 2] = SENT_END
<1> DEFINE ids == AtomIds
           n == Len(atoms)
           most == <<SENT_START>> \o ids
           all == most \o <<SENT_END>>
<1>1. /\ ids \in Seq(Identifier) /\ Len(ids) = n /\ n \in Nat
      /\ \A i \in 1..n : ids[i] = atoms[i].id
      /\ <<SENT_START>> \in Seq(Identifier) /\ <<SENT_END>> \in Seq(Identifier)
  BY RootType, AtomIdsType, SentinelType
<1>2. IdsOf[root] \in {most, all}
  <2>1. all = <<SENT_START>> \o ids \o <<SENT_END>>
    OBVIOUS
  <2> QED BY <2>1 DEF EInv, TreeHoldsAtoms, AtomIds
<1> HIDE DEF ids, n
<1>3. /\ most \in Seq(Identifier) /\ Len(most) = n + 1
      /\ most[1] = SENT_START
      /\ \A i \in 1..n : most[i + 1] = ids[i]
  BY <1>1
<1> HIDE DEF most
<1>4. /\ Len(all) = n + 2
      /\ \A i \in 1..(n + 1) : all[i] = most[i]
      /\ all[n + 2] = SENT_END
  BY <1>1, <1>3
<1>5. all[1] = SENT_START /\ \A i \in 1..n : all[i + 1] = ids[i]
  BY <1>1, <1>3, <1>4
<1> HIDE DEF all
<1>6. /\ Len(IdsOf[root]) = n + 1 \/ Len(IdsOf[root]) = n + 2
      /\ IdsOf[root][1] = SENT_START
      /\ \A i \in 1..n : IdsOf[root][i + 1] = ids[i]
      /\ Len(IdsOf[root]) = n + 2 => IdsOf[root][n + 2] = SENT_END
  <2>1. CASE IdsOf[root] = most
    BY <1>1, <1>3, <2>1
  <2>2. CASE IdsOf[root] = all
    BY <1>1, <1>4, <1>5, <2>2
  <2> QED BY <1>2, <2>1, <2>2
<1> QED BY <1>1, <1>6 DEF n

\* The paths of the tree are those the atoms and the sentinels have.
LEMMA TreePaths ==
    ASSUME EInv, NEW i \in 1..Len(IdsOf[root])
    PROVE  /\ i - 1 \in 0..(Len(atoms) + 1)
           /\ IdsOf[root][i].path = PathAt(i - 1)
<1> DEFINE ids == IdsOf[root]
           n == Len(atoms)
<1>1. /\ atoms \in Seq(Atom) /\ n \in Nat /\ ids \in Seq(Identifier)
  BY RootType
<1>2. /\ Len(ids) = n + 1 \/ Len(ids) = n + 2
      /\ ids[1] = SENT_START
      /\ \A j \in 1..n : ids[j + 1] = atoms[j].id
      /\ Len(ids) = n + 2 => ids[n + 2] = SENT_END
  BY IdAt
<1>3. /\ PathAt(0) = <<0>> /\ PathAt(n + 1) = <<EndDigit>>
      /\ \A j \in 1..n : PathAt(j) = atoms[j].id.path
  BY <1>1, PathAtType
<1>4. i \in 1..Len(ids)
  OBVIOUS
<1> HIDE DEF ids, n
<1>5. i \in Nat /\ i - 1 \in 0..(n + 1)
  BY <1>1, <1>2, <1>4
<1>6. ids[i].path = PathAt(i - 1)
  <2>1. CASE i = 1
    BY <1>2, <1>3, <2>1 DEF SENT_START
  <2>2. CASE i - 1 \in 1..n
    <3>1. (i - 1) + 1 = i
      BY <1>5
    <3> QED BY <1>2, <1>3, <2>2, <3>1
  <2>3. CASE i = n + 2
    <3>1. Len(ids) = n + 2 /\ i - 1 = n + 1
      BY <1>1, <1>2, <1>4, <2>3
    <3> QED BY <1>2, <1>3, <2>3, <3>1 DEF SENT_END
  <2>4. i = 1 \/ i - 1 \in 1..n \/ i = n + 2
    BY <1>1, <1>5
  <2> QED BY <2>1, <2>2, <2>3, <2>4
<1> QED BY <1>5, <1>6 DEF ids, n

\* No identifier of the tree is null, and none stands twice.
LEMMA IdsApart ==
    ASSUME EInv
    PROVE  Named(IdsOf[root]) /\ Distinct(IdsOf[root])
<1> DEFINE ids == IdsOf[root]
           n == Len(atoms)
<1>1. /\ atoms \in Seq(Atom) /\ n \in Nat
      /\ \A i \in 0..(n + 1) : PathAt(i) \in Seq(Nat)
      /\ PathAt(0) = <<0>>
  BY RootType, PathAtType
<1>2. \A i \in 0..n : \A j \in (i + 1)..(n + 1) :
        PaddedLess(PathAt(i), PathAt(j))
  BY DEF EInv, IInv, AtomsPadded
<1>3. \A i \in 1..Len(ids) : i - 1 \in 0..(n + 1) /\ ids[i].path = PathAt(i - 1)
  BY TreePaths
<1>4. Len(ids) \in Nat
  BY RootType
<1> HIDE DEF ids, n
<1>5. ASSUME NEW i \in 1..Len(ids)
      PROVE  ids[i] # NoId
  <2>1. PathAt(i - 1) # <<>>
    <3>1. CASE i - 1 = 0
      <4>1. PathAt(i - 1) = <<0>>
        BY <1>1, <3>1, Zenon
      <4>2. <<0>> # <<>>
        OBVIOUS
      <4> QED BY <4>1, <4>2
    <3>2. CASE i - 1 # 0
      <4>1. 0 \in 0..n /\ i - 1 \in (0 + 1)..(n + 1)
        BY <1>1, <1>3, <3>2
      <4>2. PaddedLess(PathAt(0), PathAt(i - 1))
        BY <1>2, <4>1
      <4>3. \A p : ~PaddedLess(p, <<>>)
        BY DEF PaddedLess
      <4> QED BY <4>2, <4>3
    <3> QED BY <3>1, <3>2
  <2> QED BY <1>3, <2>1 DEF NoId
<1>6. ASSUME NEW i \in 1..Len(ids), NEW j \in 1..Len(ids), i < j
      PROVE  ids[i] # ids[j]
  <2>1. i - 1 \in 0..n /\ j - 1 \in ((i - 1) + 1)..(n + 1)
        /\ i - 1 \in 0..(n + 1)
    BY <1>1, <1>3, <1>4, <1>6
  <2>2. PaddedLess(PathAt(i - 1), PathAt(j - 1))
    BY <1>2, <2>1
  <2>3. PathAt(i - 1) # PathAt(j - 1)
    BY <1>1, <2>1, <2>2, PaddedIrreflexive
  <2> QED BY <1>3, <2>3
<1>7. ASSUME NEW i \in 1..Len(ids), NEW j \in 1..Len(ids), ids[i] = ids[j]
      PROVE  i = j
  <2>1. ~(i < j) /\ ~(j < i)
    BY <1>6, <1>7
  <2> QED BY <1>4, <2>1
<1> QED BY <1>5, <1>7 DEF Named, Distinct, ids

-----------------------------------------------------------------------------
(* The editor: insertions.                                                 *)

\* The tree gives an insertion the neighbours the atoms have.
LEMMA Neighbours ==
    ASSUME EInv, NEW position \in 0..Len(atoms)
    PROVE  LET found == getInsertIds(root, position + 1)
           IN  /\ PathOr(found.p, SENT_START) = PathAt(position)
               /\ PathOr(found.q, SENT_END) = PathAt(position + 1)
<1> DEFINE ids == IdsOf[root]
           n == Len(atoms)
           at == position + 1
           found == getInsertIds(root, at)
<1>1. /\ n \in Nat /\ root \in TreeNode /\ ids \in Seq(Identifier)
      /\ Usable(root) /\ Named(ids)
  BY RootType, IdsApart DEF EInv
<1>2. Len(ids) = n + 1 \/ Len(ids) = n + 2
  BY IdAt
<1>3. at \in 1..Len(ids) /\ position \in Nat
  <2> HIDE DEF ids, n
  <2>1. position \in 0..n
    BY DEF n
  <2> QED BY <1>1, <1>2, <2>1
<1>4. found = [p |-> ids[at],
               q |-> IF at < Len(ids) THEN ids[at + 1] ELSE NoId]
  <2> HIDE DEF at
  <2> QED BY <1>1, <1>3, InsertIdsFound
<1>5. found.p = ids[at] /\ found.q = IF at < Len(ids) THEN ids[at + 1] ELSE NoId
  BY <1>4
<1>6. \A i \in 1..Len(ids) : ids[i].path = PathAt(i - 1) /\ ids[i] # NoId
  BY <1>1, TreePaths DEF Named
<1>7. PathOr(found.p, SENT_START) = PathAt(position)
  <2>1. ids[at].path = PathAt(at - 1) /\ ids[at] # NoId
    BY <1>3, <1>6
  <2>2. at - 1 = position
    BY <1>3
  <2> HIDE DEF at, ids, found
  <2>3. PathOr(found.p, SENT_START) = PathAt(at - 1)
    BY <1>5, <2>1 DEF PathOr
  <2> QED BY <2>2, <2>3
<1>8. PathOr(found.q, SENT_END) = PathAt(at)
  <2>1. CASE at < Len(ids)
    <3>1. at + 1 \in 1..Len(ids) /\ (at + 1) - 1 = at
      <4> HIDE DEF ids
      <4>1. Len(ids) \in Nat
        BY <1>1
      <4> QED BY <1>3, <2>1, <4>1
    <3>2. ids[at + 1].path = PathAt((at + 1) - 1) /\ ids[at + 1] # NoId
      BY <1>6, <3>1
    <3> HIDE DEF at, ids, found
    <3>3. PathOr(found.q, SENT_END) = PathAt((at + 1) - 1)
      BY <1>5, <2>1, <3>2 DEF PathOr
    <3> QED BY <3>1, <3>3
  <2>2. CASE ~(at < Len(ids))
    <3>1. at = n + 1
      <4> HIDE DEF ids, n
      <4>1. position \in 0..n
        BY DEF n
      <4> QED BY <1>1, <1>2, <2>2, <4>1
    <3>2. PathAt(n + 1) = SENT_END.path
      <4> HIDE DEF n
      <4>1. n + 1 # 0 /\ n + 1 > n
        BY <1>1
      <4> QED BY <4>1 DEF PathAt, n
    <3>3. found.q = NoId
      BY <1>5, <2>2
    <3> HIDE DEF at, found, n
    <3> QED BY <3>1, <3>2, <3>3 DEF PathOr
  <2> QED BY <2>1, <2>2
<1> QED BY <1>7, <1>8

\* An insertion by the editor is an insertion of Lseq.
LEMMA InsertsAsLseq ==
    ASSUME EInv, NEW position \in 0..Len(atoms), NEW char,
           insertCharAtPosition(position, char)
    PROVE  Insert(position, char)
<1> DEFINE found == getInsertIds(root, position + 1)
           p == PathAt(position)
           q == PathAt(position + 1)
<1>1. PathOr(found.p, SENT_START) = p /\ PathOr(found.q, SENT_END) = q
  BY Neighbours
<1>2. /\ inserted < MaxInsert /\ inserted' = inserted + 1
      /\ call' = [op |-> "insert", position |-> position, char |-> char]
      /\ \E depth \in Depths(p, q), fromP \in BOOLEAN :
           /\ Allocates(depth, fromP)
           /\ \E path \in NewDigits(p, q, depth, fromP) :
                /\ addAtom([id |-> NewId(path), value |-> char])
                /\ root' = insert[root][NewId(path)]
  <2> HIDE DEF p, q
  <2> QED BY <1>1 DEF insertCharAtPosition
<1> HIDE DEF p, q
<1>3. \E depth \in Depths(p, q), fromP \in BOOLEAN :
        /\ Allocates(depth, fromP)
        /\ \E path \in NewDigits(p, q, depth, fromP) :
             addAtom([id |-> NewId(path), value |-> char])
  BY <1>2
<1> QED BY <1>2, <1>3 DEF Insert, p, q

\* The place of a new identifier in the tree is the one it has in the atoms.
LEMMA PlaceInTree ==
    ASSUME EInv, NEW position \in 0..Len(atoms), NEW path \in Seq(Nat),
           PaddedLess(PathAt(position), path),
           PaddedLess(path, PathAt(position + 1))
    PROVE  Splits(IdsOf[root], NewId(path), position + 1)
<1> DEFINE ids == IdsOf[root]
           n == Len(atoms)
           id == NewId(path)
<1>1. /\ atoms \in Seq(Atom) /\ n \in Nat /\ ids \in Seq(Identifier)
      /\ position \in 0..n
      /\ Len(ids) = n + 1 \/ Len(ids) = n + 2
      /\ \A i \in 1..Len(ids) : ids[i].path = PathAt(i - 1)
  BY RootType, IdAt, TreePaths
<1>2. \A i \in 0..(n + 1) : PathAt(i) \in Seq(Nat)
  BY <1>1, PathAtType
<1>3. \A i \in 0..n : \A j \in (i + 1)..(n + 1) :
        PaddedLess(PathAt(i), PathAt(j))
  BY DEF EInv, IInv, AtomsPadded
<1>4. id.path = path
  BY DEF NewId
<1> HIDE DEF ids, n, id
<1>5. ASSUME NEW i \in 1..(position + 1)
      PROVE  ~Less(id, ids[i])
  <2>1. i - 1 \in 0..position /\ i \in 1..Len(ids) /\ i - 1 \in 0..(n + 1)
        /\ position \in 0..(n + 1)
    BY <1>1
  <2> DEFINE t == PathAt(i - 1)
  <2>2. t \in Seq(Nat) /\ ids[i].path = t /\ PathAt(position) \in Seq(Nat)
    BY <1>1, <1>2, <2>1
  <2>3. PaddedLess(t, path)
    <3>1. CASE i - 1 = position
      BY <3>1
    <3>2. CASE i - 1 # position
      <4>1. i - 1 \in 0..n /\ position \in ((i - 1) + 1)..(n + 1)
        BY <1>1, <2>1, <3>2
      <4>2. PaddedLess(t, PathAt(position))
        BY <1>3, <4>1
      <4> HIDE DEF t
      <4> QED BY <2>2, <4>2, PaddedTransitive
    <3> QED BY <3>1, <3>2
  <2> HIDE DEF t
  <2>4. PathLess(t, path)
    BY <2>2, <2>3, PaddedImpliesLess
  <2>5. ~PathLess(path, t) /\ path # t
    BY <2>2, <2>3, <2>4, PathLessAsymmetric, PaddedIrreflexive
  <2> QED BY <1>4, <2>2, <2>5 DEF Less
<1>6. ASSUME NEW i \in ((position + 1) + 1)..Len(ids)
      PROVE  Less(id, ids[i])
  <2>1. i - 1 \in (position + 1)..(n + 1) /\ i \in 1..Len(ids)
        /\ i - 1 \in 0..(n + 1) /\ position + 1 \in 0..(n + 1)
    BY <1>1
  <2> DEFINE t == PathAt(i - 1)
  <2>2. t \in Seq(Nat) /\ ids[i].path = t /\ PathAt(position + 1) \in Seq(Nat)
    BY <1>1, <1>2, <2>1
  <2>3. PaddedLess(path, t)
    <3>1. CASE i - 1 = position + 1
      BY <3>1
    <3>2. CASE i - 1 # position + 1
      <4>1. position + 1 \in 0..n /\ i - 1 \in ((position + 1) + 1)..(n + 1)
        BY <1>1, <2>1, <3>2
      <4>2. PaddedLess(PathAt(position + 1), t)
        BY <1>3, <4>1
      <4> HIDE DEF t
      <4> QED BY <2>2, <4>2, PaddedTransitive
    <3> QED BY <3>1, <3>2
  <2> HIDE DEF t
  <2>4. PathLess(path, t)
    BY <2>2, <2>3, PaddedImpliesLess
  <2> QED BY <1>4, <2>2, <2>4 DEF Less
<1> QED BY <1>5, <1>6 DEF Splits, ids, id

\* The identifiers of the atoms after an insertion.
LEMMA IdsInserted ==
    ASSUME atoms \in Seq(Atom), NEW atom \in Atom, NEW k \in 1..(Len(atoms) + 1),
           atoms' = InsertAt(atoms, k, atom)
    PROVE  AtomIds' = InsertAt(AtomIds, k, atom.id)
<1> DEFINE n == Len(atoms)
           ids == AtomIds
<1>1. /\ ids \in Seq(Identifier) /\ Len(ids) = n /\ n \in Nat
      /\ \A i \in 1..n : ids[i] = atoms[i].id
      /\ atom.id \in Identifier
  BY AtomIdsType DEF Atom
<1>2. atoms' = [i \in 1..(n + 1) |->
                  IF i < k THEN atoms[i] ELSE IF i = k THEN atom
                  ELSE atoms[i - 1]]
  BY InsertAtIs
<1>3. AtomIds' = [i \in 1..(n + 1) |-> atoms'[i].id]
  <2> DEFINE t == atoms'
  <2>1. DOMAIN t = 1..(n + 1)
    BY <1>2
  <2> QED BY <2>1 DEF AtomIds
<1> HIDE DEF ids, n
<1>4. InsertAt(ids, k, atom.id) =
        [i \in 1..(n + 1) |-> IF i < k THEN ids[i]
                              ELSE IF i = k THEN atom.id ELSE ids[i - 1]]
  <2>1. k \in 1..(Len(ids) + 1)
    BY <1>1 DEF n
  <2> DEFINE id == atom.id
  <2>2. ids \in Seq(Identifier) /\ id \in Identifier
    BY <1>1
  <2> HIDE DEF id
  <2>3. InsertAt(ids, k, id) =
          [i \in 1..(Len(ids) + 1) |-> IF i < k THEN ids[i]
                                      ELSE IF i = k THEN id ELSE ids[i - 1]]
    BY <2>1, <2>2, InsertAtIs
  <2> QED BY <1>1, <2>3 DEF id
<1>5. ASSUME NEW i \in 1..(n + 1)
      PROVE  atoms'[i].id = IF i < k THEN ids[i]
                            ELSE IF i = k THEN atom.id ELSE ids[i - 1]
  <2>0. k \in Nat /\ k >= 1 /\ k <= n + 1 /\ i \in Nat
    BY <1>1 DEF n
  <2>1. CASE i < k
    <3>1. i \in 1..n
      BY <1>1, <2>0, <2>1
    <3> QED BY <1>1, <1>2, <2>1, <3>1
  <2>2. CASE i = k
    BY <1>2, <2>0, <2>2
  <2>3. CASE i > k
    <3>1. i - 1 \in 1..n
      BY <1>1, <2>0, <2>3
    <3> QED BY <1>1, <1>2, <2>0, <2>3, <3>1
  <2> QED BY <2>0, <2>1, <2>2, <2>3
<1> QED BY <1>3, <1>4, <1>5 DEF ids

\* An insertion keeps the invariant.
LEMMA EInvInsert ==
    ASSUME EInv, NEW position \in 0..Len(atoms), NEW char \in Char,
           insertCharAtPosition(position, char)
    PROVE  EInv'
<1> DEFINE found == getInsertIds(root, position + 1)
           p == PathAt(position)
           q == PathAt(position + 1)
           k == position + 1
           n == Len(atoms)
<1>1. PathOr(found.p, SENT_START) = p /\ PathOr(found.q, SENT_END) = q
  BY Neighbours
<1>2. /\ inserted < MaxInsert /\ inserted' = inserted + 1
      /\ \E depth \in Depths(p, q), fromP \in BOOLEAN :
           \E path \in NewDigits(p, q, depth, fromP) :
             /\ addAtom([id |-> NewId(path), value |-> char])
             /\ root' = insert[root][NewId(path)]
  <2> HIDE DEF p, q
  <2> QED BY <1>1 DEF insertCharAtPosition
<1>3. PICK depth \in Depths(p, q), fromP \in BOOLEAN :
        \E path \in NewDigits(p, q, depth, fromP) :
          /\ addAtom([id |-> NewId(path), value |-> char])
          /\ root' = insert[root][NewId(path)]
  BY <1>2
<1>4. PICK path \in NewDigits(p, q, depth, fromP) :
        /\ addAtom([id |-> NewId(path), value |-> char])
        /\ root' = insert[root][NewId(path)]
  BY <1>3
<1> DEFINE id == NewId(path)
           atom == [id |-> id, value |-> char]
<1>5. /\ atoms \in Seq(Atom) /\ n \in Nat /\ position \in 0..n
      /\ root \in TreeNode /\ IdsOf[root] \in Seq(Identifier)
      /\ inserted \in 0..MaxHeight /\ MaxHeight \in Nat
      /\ Len(IdsOf[root]) = n + 1 \/ Len(IdsOf[root]) = n + 2
  BY RootType, IdAt, TreeOfAt
<1>6. p \in Seq(Nat) /\ q \in Seq(Nat) /\ PaddedLess(p, q)
  <2>1. /\ n \in Nat /\ position \in 0..n
        /\ \A i \in 0..(n + 1) : PathAt(i) \in Seq(Nat)
        /\ \A i \in 0..n : \A j \in (i + 1)..(n + 1) :
             PaddedLess(PathAt(i), PathAt(j))
    BY <1>5, PathAtType DEF EInv, IInv, AtomsPadded
  <2> HIDE DEF n
  <2>2. position \in 0..(n + 1) /\ position + 1 \in 0..(n + 1)
        /\ position + 1 \in (position + 1)..(n + 1)
    BY <2>1
  <2> QED BY <2>1, <2>2
<1>7. path \in Seq(Nat) /\ PaddedLess(p, path) /\ PaddedLess(path, q)
  <2> HIDE DEF p, q
  <2> QED BY <1>6, AllocBetween
<1>8. IInv'
  <2>1. Insert(position, char)
    BY InsertsAsLseq
  <2> QED BY <2>1, IInvInsert DEF EInv
<1>9. id \in Identifier /\ atom \in Atom /\ atom.id = id
  BY <1>7 DEF NewId, Identifier, ClientId, Atom
<1>10. atoms' = InsertAt(atoms, k, atom)
  <2>1. IndexFor(id) = k
    BY <1>7, IndexBetween DEF EInv
  <2> HIDE DEF k
  <2> QED BY <1>4, <1>9, <2>1 DEF addAtom
<1>11. Splits(IdsOf[root], id, k)
  BY <1>7, PlaceInTree
<1> HIDE DEF p, q, id, atom
<1>12. k \in 0..Len(IdsOf[root]) /\ k \in 1..(n + 1)
  <2> DEFINE m == Len(IdsOf[root])
  <2>1. (m = n + 1 \/ m = n + 2) /\ position \in 0..n /\ n \in Nat
    BY <1>5
  <2> HIDE DEF m, n
  <2>2. k \in 0..m /\ k \in 1..(n + 1)
    BY <2>1
  <2> QED BY <2>2 DEF m
<1>13. inserted \in 0..(MaxHeight - 1)
  <2>1. MaxInsert \in Nat /\ MaxHeight >= MaxInsert
    BY EditorAssumption, LseqAssumption
  <2> QED BY <1>2, <1>5, <2>1
<1>14. /\ root' \in TreeOf[inserted + 1]
       /\ IdsOf[root'] = InsertAt(IdsOf[root], k + 1, id)
       /\ Sound[root']
  <2>1. Usable(root) /\ Named(IdsOf[root]) /\ root \in TreeOf[inserted]
    BY IdsApart DEF EInv
  <2>2. Inserts(root, id, k, inserted + 1)
    <3> HIDE DEF k
    <3> QED BY <1>9, <1>11, <1>12, <1>13, <2>1, InsertTree
  <2> QED BY <1>4, <2>2 DEF Inserts, id
<1>15. Usable(root')
  <2>1. inserted + 1 \in 0..MaxHeight
    BY <1>5, <1>13
  <2>2. root' \in TreeNode
    BY <1>14, <2>1, TreeNodes
  <2>3. Sound[root'] = IF IsLeaf(root') THEN TRUE
                       ELSE /\ Sound[root'.left] /\ Sound[root'.right]
                            /\ IdsOf[root'.left] # <<>>
                            /\ root'.length = Len(IdsOf[root'])
    BY <2>2, SoundAt
  <2> QED BY <1>14, <2>3 DEF Usable
<1>16. TreeHoldsAtoms'
  <2> DEFINE ids == AtomIds
             first == <<SENT_START>>
             last == <<SENT_END>>
             new == InsertAt(ids, k, id)
  <2>1. AtomIds' = new
    <3>1. AtomIds' = InsertAt(AtomIds, k, atom.id)
      <4> HIDE DEF k
      <4> QED BY <1>5, <1>9, <1>10, <1>12, IdsInserted
    <3> QED BY <1>9, <3>1
  <2>2. /\ ids \in Seq(Identifier) /\ Len(ids) = n
        /\ first \in Seq(Identifier) /\ Len(first) = 1
        /\ last \in Seq(Identifier)
    BY <1>5, AtomIdsType, SentinelType
  <2>3. IdsOf[root] \in {first \o ids, first \o ids \o last}
    BY DEF EInv, TreeHoldsAtoms, AtomIds
  <2> HIDE DEF ids, first, last
  <2>4. k \in 1..(Len(ids) + 1) /\ k + 1 = Len(first) + k
    BY <1>12, <2>2
  <2>5. InsertAt(first \o ids, k + 1, id) = first \o new
    <3>1. InsertAt(first \o ids, Len(first) + k, id) = first \o new
      <4> HIDE DEF k
      <4>1. /\ first \in Seq(Identifier) /\ ids \in Seq(Identifier)
            /\ id \in Identifier /\ k \in 1..(Len(ids) + 1)
        BY <1>9, <2>2, <2>4
      <4> QED BY <4>1, InsertAtRight
    <3> QED BY <2>4, <3>1
  <2>6. InsertAt((first \o ids) \o last, k + 1, id) = (first \o new) \o last
    <3> DEFINE most == first \o ids
               at == k + 1
    <3>1. most \in Seq(Identifier) /\ at \in 1..(Len(most) + 1)
      <4>1. Len(most) = Len(first) + Len(ids) /\ most \in Seq(Identifier)
        BY <2>2, ConcatProperties
      <4> HIDE DEF most
      <4>2. Len(first) + Len(ids) = 1 + n /\ k \in 1..(n + 1) /\ n \in Nat
        BY <1>5, <1>12, <2>2
      <4> HIDE DEF n, k
      <4>3. at \in 1..(Len(most) + 1)
        BY <4>1, <4>2
      <4> QED BY <4>1, <4>3
    <3> HIDE DEF most, at
    <3>2. InsertAt(most \o last, at, id) = InsertAt(most, at, id) \o last
      BY <1>9, <2>2, <3>1, InsertAtLeft
    <3> QED BY <2>5, <3>2 DEF most, at
  <2>7. IdsOf[root'] \in {first \o new, (first \o new) \o last}
    <3>1. CASE IdsOf[root] = first \o ids
      BY <1>14, <2>5, <3>1
    <3>2. CASE IdsOf[root] = (first \o ids) \o last
      BY <1>14, <2>6, <3>2
    <3> QED BY <2>3, <3>1, <3>2
  <2> HIDE DEF new
  <2>8. IdsOf[root'] \in {first \o AtomIds', (first \o AtomIds') \o last}
    BY <2>1, <2>7
  <2> QED BY <2>8 DEF TreeHoldsAtoms, AtomIds, first, last
<1> QED BY <1>2, <1>8, <1>14, <1>15, <1>16 DEF EInv

-----------------------------------------------------------------------------
(* The editor: deletions from a tree of two leaves at most.                *)

\* The tree gives a deletion the identifier of the atom at its position, or
\* after the last one the sentinel, if it is still there.
LEMMA DeletedId ==
    ASSUME EInv, NEW position \in 0..Len(atoms)
    PROVE  LET id == getDeleteIds(root, position + 1)
               ids == IdsOf[root]
           IN  IF position < Len(atoms)
               THEN /\ id = atoms[position + 1].id /\ id # NoId
                    /\ position + 2 \in 2..Len(ids) /\ id = ids[position + 2]
               ELSE IF Len(ids) = Len(atoms) + 2
               THEN /\ id = SENT_END
                    /\ position + 2 \in 2..Len(ids) /\ id = ids[position + 2]
                    /\ position + 2 = Len(ids)
               ELSE id = NoId
<1> DEFINE ids == IdsOf[root]
           n == Len(atoms)
           at == position + 1
           id == getDeleteIds(root, at)
<1>1. /\ n \in Nat /\ root \in TreeNode /\ Usable(root)
      /\ position \in 0..n
      /\ Len(ids) = n + 1 \/ Len(ids) = n + 2
      /\ Named(ids)
      /\ \A i \in 1..n : ids[i + 1] = atoms[i].id
      /\ Len(ids) = n + 2 => ids[n + 2] = SENT_END
  BY RootType, IdsApart, IdAt DEF EInv
<1>2. at \in 0..Len(ids) /\ at + 1 = position + 2
  <2> DEFINE m == Len(ids)
  <2>1. m = n + 1 \/ m = n + 2
    BY <1>1
  <2> HIDE DEF m, n
  <2>2. at \in 0..m /\ at + 1 = position + 2
    BY <1>1, <2>1
  <2> QED BY <2>2 DEF m
<1>3. id = IF at < Len(ids) THEN ids[at + 1] ELSE NoId
  <2> HIDE DEF at
  <2> QED BY <1>1, <1>2, DeleteIdsFound
<1> DEFINE m == Len(ids)
<1>4. (m = n + 1 \/ m = n + 2) /\ \A i \in 1..m : ids[i] # NoId
  BY <1>1 DEF Named
<1>5. id = IF at < m THEN ids[at + 1] ELSE NoId
  BY <1>3
<1> HIDE DEF id, n, m
<1>6. CASE position < n
  <2>1. /\ at < m /\ position + 2 \in 2..m /\ at \in 1..n
        /\ position + 2 \in 1..m
    BY <1>1, <1>4, <1>6
  <2>2. id = ids[at + 1] /\ ids[at + 1] = atoms[at].id
    <3> HIDE DEF at, ids
    <3> QED BY <1>1, <1>5, <2>1
  <2>3. ids[position + 2] # NoId
    BY <1>4, <2>1
  <2> QED BY <1>2, <1>6, <2>1, <2>2, <2>3 DEF id, n, m
<1>7. CASE ~(position < n) /\ m = n + 2
  <2>1. at < m /\ position + 2 \in 2..m /\ position + 2 = m /\ at + 1 = n + 2
    BY <1>1, <1>7
  <2>2. id = ids[at + 1] /\ ids[n + 2] = SENT_END
    <3>1. Len(ids) = n + 2
      BY <1>7 DEF m
    <3> HIDE DEF at, ids
    <3> QED BY <1>1, <1>5, <2>1, <3>1
  <2> QED BY <1>2, <1>7, <2>1, <2>2 DEF id, n, m
<1>8. CASE ~(position < n) /\ m # n + 2
  <2>1. ~(at < m)
    BY <1>1, <1>4, <1>8
  <2>2. id = NoId
    BY <1>5, <2>1
  <2> QED BY <1>8, <2>2 DEF id, n, m
<1> QED BY <1>6, <1>7, <1>8

\* No atom has the identifier of a sentinel.
LEMMA NoAtomIsTheEnd ==
    ASSUME EInv, NEW i \in DOMAIN atoms
    PROVE  atoms[i].id # SENT_END
<1> DEFINE n == Len(atoms)
<1>1. /\ atoms \in Seq(Atom) /\ n \in Nat /\ i \in 1..n
      /\ PathAt(i) = atoms[i].id.path
      /\ PathAt(n + 1) = <<EndDigit>> /\ PathAt(i) \in Seq(Nat)
  <2>1. atoms \in Seq(Atom) /\ n \in Nat
    BY RootType
  <2>2. i \in 1..n /\ i \in 0..(n + 1)
    BY <2>1
  <2> QED BY <2>1, <2>2, PathAtType
<1>2. PaddedLess(PathAt(i), PathAt(n + 1))
  <2>1. i \in 0..n /\ n + 1 \in (i + 1)..(n + 1)
    <3> HIDE DEF n
    <3> QED BY <1>1
  <2> QED BY <2>1 DEF EInv, IInv, AtomsPadded
<1>3. PathAt(i) # PathAt(n + 1)
  BY <1>1, <1>2, PaddedIrreflexive
<1> QED BY <1>1, <1>3 DEF SENT_END

\* A deletion by the editor is a deletion of Lseq.
LEMMA DeletesAsLseq ==
    ASSUME EInv, NEW position \in 0..Len(atoms), deleteCharAtPosition(position)
    PROVE  Delete(position)
<1> DEFINE id == getDeleteIds(root, position + 1)
<1>1. /\ call' = [op |-> "delete", position |-> position]
      /\ UNCHANGED <<bpbm, inserted>>
      /\ IF id # NoId THEN delete(id) ELSE atoms' = atoms
  BY DEF deleteCharAtPosition
<1>2. CASE position < Len(atoms)
  <2>1. id = atoms[position + 1].id /\ id # NoId
    BY <1>2, DeletedId
  <2> QED BY <1>1, <1>2, <2>1 DEF Delete
<1>3. CASE ~(position < Len(atoms))
  <2>1. id = SENT_END \/ id = NoId
    BY <1>3, DeletedId
  <2>2. delete(SENT_END)
    <3>1. CASE id # NoId
      <4>1. id = SENT_END
        BY <2>1, <3>1
      <4> HIDE DEF id
      <4> QED BY <1>1, <3>1, <4>1
    <3>2. CASE id = NoId
      <4>1. {i \in DOMAIN atoms : atoms[i].id = SENT_END} = {}
        BY NoAtomIsTheEnd
      <4>2. atoms' = atoms
        BY <1>1, <3>2
      <4> QED BY <4>1, <4>2 DEF delete
    <3> QED BY <3>1, <3>2
  <2> QED BY <1>1, <1>3, <2>2 DEF Delete
<1> QED BY <1>2, <1>3

\* The identifiers of the atoms after a deletion.
LEMMA IdsRemoved ==
    ASSUME atoms \in Seq(Atom), NEW k \in 1..Len(atoms),
           atoms' = RemoveAt(atoms, k)
    PROVE  AtomIds' = RemoveAt(AtomIds, k)
<1> DEFINE n == Len(atoms)
           ids == AtomIds
<1>1. /\ ids \in Seq(Identifier) /\ Len(ids) = n /\ n \in Nat
      /\ \A i \in 1..n : ids[i] = atoms[i].id
  BY AtomIdsType
<1>2. atoms' = [i \in 1..(n - 1) |-> IF i < k THEN atoms[i] ELSE atoms[i + 1]]
  BY RemoveAtIs
<1>3. AtomIds' = [i \in 1..(n - 1) |-> atoms'[i].id]
  <2> DEFINE t == atoms'
  <2>1. DOMAIN t = 1..(n - 1)
    BY <1>2
  <2> QED BY <2>1 DEF AtomIds
<1>4. k \in 1..n
  OBVIOUS
<1> HIDE DEF ids, n
<1>5. RemoveAt(ids, k) = [i \in 1..(n - 1) |-> IF i < k THEN ids[i]
                                              ELSE ids[i + 1]]
  <2>1. k \in 1..Len(ids) /\ ids \in Seq(Identifier)
    BY <1>1, <1>4
  <2>2. RemoveAt(ids, k) = [i \in 1..(Len(ids) - 1) |->
                              IF i < k THEN ids[i] ELSE ids[i + 1]]
    BY <2>1, RemoveAtIs
  <2> QED BY <1>1, <2>2
<1>6. ASSUME NEW i \in 1..(n - 1)
      PROVE  atoms'[i].id = IF i < k THEN ids[i] ELSE ids[i + 1]
  <2>1. i \in 1..n /\ i + 1 \in 1..n
    BY <1>1
  <2> QED BY <1>1, <1>2, <2>1
<1> QED BY <1>3, <1>5, <1>6 DEF ids

\* A deletion keeps the invariant.
LEMMA EInvDelete ==
    ASSUME EInv, DeletableLeaves <= 2,
           NEW position \in 0..Len(atoms), deleteCharAtPosition(position)
    PROVE  EInv'
<1> DEFINE id == getDeleteIds(root, position + 1)
           n == Len(atoms)
           k == position + 2
<1>1. Delete(position)
  BY DeletesAsLseq
<1>2. IInv'
  BY <1>1, IInvDelete DEF EInv
<1>3. /\ LeavesOf[root] <= DeletableLeaves /\ inserted' = inserted
      /\ id # NoId => root' = deleteId[root][id]
      /\ id = NoId => UNCHANGED <<atoms, root>>
  BY DEF deleteCharAtPosition
<1>4. /\ atoms \in Seq(Atom) /\ n \in Nat /\ position \in 0..n
      /\ root \in TreeNode /\ IdsOf[root] \in Seq(Identifier)
      /\ inserted \in 0..MaxHeight
      /\ Len(IdsOf[root]) = n + 1 \/ Len(IdsOf[root]) = n + 2
      /\ root \in TreeOf[inserted] /\ Usable(root) /\ Distinct(IdsOf[root])
  BY RootType, IdAt, IdsApart DEF EInv
<1>5. LeavesOf[root] <= 2
  <2>1. LeavesOf[root] \in Nat
    BY <1>4, LeavesOfType
  <2>2. DeletableLeaves \in Nat
    BY EditorAssumption
  <2> DEFINE x == LeavesOf[root]
  <2>3. x \in Nat /\ x <= DeletableLeaves
    BY <1>3, <2>1
  <2> HIDE DEF x
  <2>4. x <= 2
    BY <2>2, <2>3
  <2> QED BY <2>4 DEF x
<1>6. CASE id = NoId
  <2>1. UNCHANGED <<atoms, root, inserted>>
    BY <1>3, <1>6
  <2> QED BY <1>2, <2>1 DEF EInv, TreeHoldsAtoms
<1>7. CASE id # NoId
  <2>1. k \in 2..Len(IdsOf[root]) /\ id = IdsOf[root][k]
    BY <1>7, DeletedId
  <2>2. root' = deleteId[root][IdsOf[root][k]]
    BY <1>3, <1>7, <2>1
  <2>3. /\ root' \in TreeOf[inserted] /\ Usable(root')
        /\ IdsOf[root'] = RemoveAt(IdsOf[root], k)
    <3> HIDE DEF k
    <3> QED BY <1>4, <1>5, <2>1, <2>2, DeleteTree
  <2> DEFINE ids == AtomIds
             first == <<SENT_START>>
             last == <<SENT_END>>
             most == first \o ids
  <2>4. /\ ids \in Seq(Identifier) /\ Len(ids) = n
        /\ first \in Seq(Identifier) /\ Len(first) = 1
        /\ last \in Seq(Identifier) /\ Len(last) = 1
    BY <1>4, AtomIdsType, SentinelType
  <2>5. IdsOf[root] \in {most, most \o last}
    BY DEF EInv, TreeHoldsAtoms, AtomIds
  <2> HIDE DEF ids, first, last
  <2>6. /\ most \in Seq(Identifier) /\ Len(most) = n + 1
        /\ Len(most \o last) = n + 2
    <3>1. most \in Seq(Identifier) /\ Len(most) = Len(first) + Len(ids)
      BY <2>4, ConcatProperties
    <3>2. Len(most) = n + 1
      BY <1>4, <2>4, <3>1
    <3> HIDE DEF most
    <3>3. Len(most \o last) = Len(most) + 1
      <4>1. Len(most \o last) = Len(most) + Len(last)
        BY <2>4, <3>1, ConcatProperties
      <4> QED BY <2>4, <4>1
    <3> QED BY <1>4, <3>1, <3>2, <3>3
  <2>7. CASE position < n
    <3> DEFINE j == position + 1
               rest == RemoveAt(ids, j)
    <3>1. j \in 1..n /\ k = 1 + j
      <4> HIDE DEF n
      <4> QED BY <1>4, <2>7
    <3>2. atoms' = RemoveAt(atoms, j)
      BY <1>1, <2>7, DeleteStep DEF EInv
    <3>3. AtomIds' = rest
      <4> HIDE DEF j
      <4> QED BY <1>4, <3>1, <3>2, IdsRemoved DEF ids
    <3> HIDE DEF k, j
    <3>4. RemoveAt(most, k) = first \o rest
      <4>1. first \in Seq(Identifier) /\ ids \in Seq(Identifier)
            /\ j \in 1..Len(ids)
        BY <2>4, <3>1
      <4>2. RemoveAt(most, Len(first) + j) = first \o rest
        BY <4>1, RemoveAtRight
      <4> QED BY <2>4, <3>1, <4>2
    <3>5. RemoveAt(most \o last, k) = (first \o rest) \o last
      <4> HIDE DEF most, rest
      <4>1. k \in 1..Len(most)
        <5> HIDE DEF n
        <5> QED BY <1>4, <2>6, <3>1
      <4>2. RemoveAt(most \o last, k) = RemoveAt(most, k) \o last
        BY <2>4, <2>6, <4>1, RemoveAtLeft
      <4> QED BY <3>4, <4>2
    <3>6. IdsOf[root'] \in {first \o rest, (first \o rest) \o last}
      <4> HIDE DEF rest, most
      <4>1. CASE IdsOf[root] = most
        BY <2>3, <3>4, <4>1
      <4>2. CASE IdsOf[root] = most \o last
        BY <2>3, <3>5, <4>2
      <4> QED BY <2>5, <4>1, <4>2
    <3> HIDE DEF rest
    <3>7. IdsOf[root'] \in {first \o AtomIds', (first \o AtomIds') \o last}
      BY <3>3, <3>6
    <3>8. TreeHoldsAtoms'
      BY <3>7 DEF TreeHoldsAtoms, AtomIds, first, last
    <3> QED BY <1>2, <1>3, <2>3, <3>8 DEF EInv
  <2>8. CASE ~(position < n)
    <3>1. Len(IdsOf[root]) = n + 2 /\ k = Len(IdsOf[root])
      BY <1>7, <2>8, DeletedId
    <3>2. IdsOf[root] = most \o last
      <4> HIDE DEF most, k, n
      <4>1. n + 1 # n + 2
        BY <1>4
      <4> QED BY <2>5, <2>6, <3>1, <4>1
    <3>3. RemoveAt(most \o last, k) = most
      <4> HIDE DEF most, k
      <4>1. k = Len(most) + 1 /\ 1 \in 1..Len(last)
        <5> HIDE DEF n
        <5> QED BY <1>4, <2>4, <2>6, <3>1
      <4>2. RemoveAt(most \o last, Len(most) + 1) = most \o RemoveAt(last, 1)
        <5>1. /\ most \in Seq(Identifier) /\ last \in Seq(Identifier)
              /\ 1 \in 1..Len(last)
          BY <2>4, <2>6, <4>1
        <5> HIDE DEF last
        <5> QED BY <5>1, RemoveAtRight
      <4>3. RemoveAt(last, 1) = <<>>
        BY SentinelType DEF RemoveAt, last
      <4>4. most \o <<>> = most
        BY <2>6
      <4> QED BY <4>1, <4>2, <4>3, <4>4
    <3>4. atoms' = atoms
      BY <1>1, <2>8, DeleteStep DEF EInv
    <3>5. AtomIds' = ids
      BY <3>4 DEF AtomIds, ids
    <3> HIDE DEF most
    <3>6. IdsOf[root'] = most
      BY <2>3, <3>2, <3>3
    <3>7. IdsOf[root'] = first \o AtomIds'
      BY <3>5, <3>6 DEF most
    <3>8. TreeHoldsAtoms'
      BY <3>7 DEF TreeHoldsAtoms, AtomIds, first
    <3> QED BY <1>2, <1>3, <2>3, <3>8 DEF EInv
  <2> QED BY <2>7, <2>8
<1> QED BY <1>6, <1>7

-----------------------------------------------------------------------------
(* The editor: its theorems.                                               *)

\* The invariant holds of an empty document.
LEMMA EInvInit == EditorInit => EInv
<1> SUFFICES ASSUME EditorInit PROVE EInv
  OBVIOUS
<1>1. IInv /\ atoms = <<>> /\ inserted = 0 /\ root = EmptyRope
  BY IInvInit DEF EditorInit, Init
<1>2. <<SENT_START, SENT_END>> \in Seq(Identifier)
  BY SentinelType
<1>3. /\ root \in TreeOf[0] /\ IsLeaf(root)
      /\ IdsOf[root] = <<SENT_START, SENT_END>>
  <2>1. 0 \in 0..MaxHeight
    BY TreeOfAt
  <2>2. root = LeafNode(<<SENT_START, SENT_END>>)
    BY <1>1 DEF EmptyRope
  <2> QED BY <1>2, <2>1, <2>2, LeafIs
<1>4. TreeHoldsAtoms
  <2>1. AtomIds = <<>>
    BY <1>1 DEF AtomIds
  <2>2. ASSUME NEW a, NEW b PROVE (<<a>> \o <<>>) \o <<b>> = <<a, b>>
    <3>1. <<a>> \o <<>> = <<a>>
      OBVIOUS
    <3>2. <<a>> \o <<b>> = <<a, b>>
      <4> DEFINE t == <<a>> \o <<b>>
      <4>1. t \in Seq({a, b}) /\ Len(t) = 2 /\ t[1] = a /\ t[2] = b
        OBVIOUS
      <4> HIDE DEF t
      <4>2. t = <<a, b>>
        BY <4>1
      <4> QED BY <4>2 DEF t
    <3> QED BY <3>1, <3>2
  <2>3. IdsOf[root] = <<SENT_START>> \o AtomIds \o <<SENT_END>>
    BY <1>3, <2>1, <2>2
  <2> QED BY <2>3 DEF TreeHoldsAtoms, AtomIds
<1> QED BY <1>1, <1>3, <1>4 DEF EInv, Usable

\* Every step keeps the invariant, and is one of Lseq.
LEMMA EInvStep ==
    ASSUME DeletableLeaves <= 2, EInv, [EditorNext]_editorVars
    PROVE  EInv' /\ [Next]_vars
<1>1. CASE EditorNext
  <2>1. PICK position \in 0..Len(atoms) :
          \/ \E char \in Char : insertCharAtPosition(position, char)
          \/ deleteCharAtPosition(position)
    BY <1>1 DEF EditorNext
  <2>2. ASSUME NEW char \in Char, insertCharAtPosition(position, char)
        PROVE  EInv' /\ Next
    BY <2>2, EInvInsert, InsertsAsLseq DEF Next
  <2>3. ASSUME deleteCharAtPosition(position)
        PROVE  EInv' /\ Next
    BY <2>3, EInvDelete, DeletesAsLseq DEF Next
  <2> QED BY <2>1, <2>2, <2>3
<1>2. CASE UNCHANGED editorVars
  <2>1. UNCHANGED vars /\ UNCHANGED root
    BY <1>2 DEF editorVars
  <2>2. IInv'
    BY <2>1, IInvStep DEF EInv
  <2> QED BY <2>1, <2>2 DEF EInv, TreeHoldsAtoms, vars
<1> QED BY <1>1, <1>2

\* In every reachable state the tree can be searched and holds the atoms.
THEOREM EditorInvariant ==
    ASSUME DeletableLeaves <= 2
    PROVE  EditorSpec => []EInv
<1>1. EInv /\ [EditorNext]_editorVars => EInv'
  BY EInvStep
<1> QED BY <1>1, EInvInit, PTL DEF EditorSpec

\* As long as nothing is deleted from a tree of more than two leaves, the tree
\* holds exactly the identifiers of the atoms, in their order, whatever the
\* longest leaf and the history.
THEOREM TreeTheorem ==
    ASSUME DeletableLeaves <= 2
    PROVE  EditorSpec => []TreeHoldsAtoms
<1>1. EInv => TreeHoldsAtoms
  BY DEF EInv
<1> QED BY <1>1, EditorInvariant, PTL

\* The component then edits as Lseq does: searching the neighbours in the rope
\* tree implements taking them from the atoms, step by step.
THEOREM EditorTheorem ==
    ASSUME DeletableLeaves <= 2
    PROVE  EditorSpec => EditsAsLseq
<1>1. EditorInit => Init
  BY DEF EditorInit
<1>2. EInv /\ [EditorNext]_editorVars => [Next]_vars
  BY EInvStep
<1> QED BY <1>1, <1>2, EditorInvariant, PTL DEF EditorSpec, EditsAsLseq, Spec

\* So the atoms of the component keep their order, and its text is edited
\* exactly where the component was asked to edit it.
THEOREM EditorTextTheorem ==
    ASSUME DeletableLeaves <= 2
    PROVE  EditorSpec => []TypeOK /\ []AtomsOrdered /\ RefinesTextBuffer
<1>1. EditorSpec => Spec
  BY EditorTheorem DEF EditsAsLseq
<1> QED BY <1>1, LseqTypeTheorem, OrderTheorem, TextTheorem
=============================================================================
