----------------------------- MODULE LseqProofs -----------------------------
(***************************************************************************)
(* Proofs about Lseq, for every EndDigit, Boundary, set of characters and  *)
(* bound: alloc draws an identifier strictly between its arguments, the    *)
(* atoms stay strictly ordered, and the text is edited exactly where the   *)
(* component was asked to edit it.                                         *)
(*                                                                         *)
(* PathLess alone is not inductive: between <<1>> and <<1, 0>> alloc would *)
(* find <<1, 0, 1>>.  The paths it builds satisfy more: the lesser one,    *)
(* continued with zeros, has a lesser digit somewhere in the greater one.  *)
(***************************************************************************)
EXTENDS Lseq, SequenceTheorems, TLAPS

-----------------------------------------------------------------------------
(* The order of paths.                                                     *)

Digit(p, j) == IF j <= Len(p) THEN p[j] ELSE 0

PaddedAt(p, q, k) ==
    /\ \A j \in 1..(k-1) : Digit(p, j) = q[j]
    /\ Digit(p, k) < q[k]
PaddedLess(p, q) == \E k \in 1..Len(q) : PaddedAt(p, q, k)

\* A path has a length and its digits, padded or not, are naturals.
LEMMA Digits ==
    ASSUME NEW p \in Seq(Nat)
    PROVE  /\ Len(p) \in Nat
           /\ DOMAIN p = 1..Len(p)
           /\ \A j \in 1..Len(p) : p[j] \in Nat /\ Digit(p, j) = p[j]
           /\ \A j \in Nat \ {0} : Digit(p, j) \in Nat
  BY DEF Digit

\* The padded order implies the order of compare.
LEMMA PaddedImpliesLess ==
    ASSUME NEW p \in Seq(Nat), NEW q \in Seq(Nat), PaddedLess(p, q)
    PROVE  PathLess(p, q)
<1>1. PICK k \in 1..Len(q) : PaddedAt(p, q, k)
  BY DEF PaddedLess
<1>2. CASE k <= Len(p)
  <2>1. FirstDifference(p, q, k)
    BY <1>1, <1>2, Digits DEF PaddedAt, FirstDifference, Digit
  <2> QED BY <2>1, Digits DEF PathLess
<1>3. CASE ~(k <= Len(p))
  <2> DEFINE m == Len(p) + 1
  <2>1. m \in DOMAIN q
    BY <1>3, Digits
  <2>2. FirstDifference(p, q, m)
    BY <1>1, <1>3, Digits DEF PaddedAt, FirstDifference, Digit
  <2> QED BY <2>1, <2>2 DEF PathLess
<1> QED BY <1>2, <1>3

\* No two paths are each less than the other.
LEMMA PathLessAsymmetric ==
    ASSUME NEW p \in Seq(Nat), NEW q \in Seq(Nat), PathLess(p, q)
    PROVE  ~PathLess(q, p)
<1> SUFFICES ASSUME PathLess(q, p) PROVE FALSE
  OBVIOUS
<1>1. PICK i \in DOMAIN q : FirstDifference(p, q, i)
  BY DEF PathLess
<1>2. PICK k \in DOMAIN p : FirstDifference(q, p, k)
  BY DEF PathLess
<1>3. /\ DOMAIN p = 1..Len(p) /\ Len(p) \in Nat
      /\ \A j \in 1..Len(p) : p[j] \in Nat
  BY Digits
<1>4. /\ DOMAIN q = 1..Len(q) /\ Len(q) \in Nat
      /\ \A j \in 1..Len(q) : q[j] \in Nat
  BY Digits
<1>5. CASE i = k
  BY <1>1, <1>2, <1>3, <1>4, <1>5 DEF FirstDifference
<1>6. CASE i < k
  <2>1. i \in 1..(k-1) /\ i \in DOMAIN p
    BY <1>3, <1>4, <1>6
  <2> QED BY <1>1, <1>2, <1>3, <1>4, <2>1 DEF FirstDifference
<1>7. CASE k < i
  <2>1. k \in 1..(i-1) /\ k \in DOMAIN q
    BY <1>3, <1>4, <1>7
  <2> QED BY <1>1, <1>2, <1>3, <1>4, <2>1 DEF FirstDifference
<1> QED BY <1>3, <1>4, <1>5, <1>6, <1>7

\* The padded order is irreflexive.
LEMMA PaddedIrreflexive ==
    ASSUME NEW p \in Seq(Nat)
    PROVE  ~PaddedLess(p, p)
  BY Digits DEF PaddedLess, PaddedAt

\* The padded order is transitive.
LEMMA PaddedTransitive ==
    ASSUME NEW p \in Seq(Nat), NEW q \in Seq(Nat), NEW r \in Seq(Nat),
           PaddedLess(p, q), PaddedLess(q, r)
    PROVE  PaddedLess(p, r)
<1>1. PICK i \in 1..Len(q) : PaddedAt(p, q, i)
  BY DEF PaddedLess
<1>2. PICK k \in 1..Len(r) : PaddedAt(q, r, k)
  BY DEF PaddedLess
<1>0. /\ Len(q) \in Nat /\ Len(r) \in Nat
      /\ i \in Nat \ {0} /\ k \in Nat \ {0}
      /\ \A j \in 1..Len(q) : q[j] \in Nat /\ Digit(q, j) = q[j]
      /\ \A j \in 1..Len(r) : r[j] \in Nat
      /\ \A j \in Nat \ {0} : Digit(p, j) \in Nat
  <2>1. /\ Len(q) \in Nat
        /\ \A j \in 1..Len(q) : q[j] \in Nat /\ Digit(q, j) = q[j]
    BY Digits
  <2>2. Len(r) \in Nat /\ \A j \in 1..Len(r) : r[j] \in Nat
    BY Digits
  <2>3. \A j \in Nat \ {0} : Digit(p, j) \in Nat
    BY Digits
  <2> QED BY <2>1, <2>2, <2>3
<1>3. CASE i < k
  <2>1. i \in 1..Len(r) /\ i \in 1..(k-1)
    BY <1>0, <1>3
  <2>2. Digit(p, i) < r[i]
    BY <1>0, <1>1, <1>2, <2>1 DEF PaddedAt
  <2>3. ASSUME NEW j \in 1..(i-1)
        PROVE  Digit(p, j) = r[j]
    <3>1. j \in 1..(k-1) /\ j \in 1..Len(q)
      BY <1>0, <1>3
    <3> QED BY <1>0, <1>1, <1>2, <3>1 DEF PaddedAt
  <2> QED BY <2>1, <2>2, <2>3 DEF PaddedLess, PaddedAt
<1>4. CASE ~(i < k)
  <2>1. k \in 1..Len(q)
    BY <1>0, <1>4
  <2>2. q[k] < r[k]
    BY <1>0, <1>2, <2>1 DEF PaddedAt
  <2>3. Digit(p, k) <= q[k]
    <3>1. CASE k = i
      BY <1>0, <1>1, <2>1, <3>1 DEF PaddedAt
    <3>2. CASE k # i
      <4>1. k \in 1..(i-1)
        BY <1>0, <1>4, <3>2
      <4>2. Digit(p, k) = q[k]
        BY <1>1, <4>1 DEF PaddedAt
      <4> QED BY <1>0, <2>1, <4>2
    <3> QED BY <3>1, <3>2
  <2>4. Digit(p, k) < r[k]
    <3>1. Digit(p, k) \in Nat
      BY <1>0
    <3>2. q[k] \in Nat
      BY <1>0, <2>1
    <3>3. r[k] \in Nat
      BY <1>0
    <3> HIDE DEF Digit
    <3> QED BY <2>2, <2>3, <3>1, <3>2, <3>3
  <2>5. ASSUME NEW j \in 1..(k-1)
        PROVE  Digit(p, j) = r[j]
    <3>1. j \in 1..(i-1) /\ j \in 1..Len(q)
      BY <1>0, <1>4
    <3> QED BY <1>0, <1>1, <1>2, <3>1 DEF PaddedAt
  <2> QED BY <2>4, <2>5 DEF PaddedLess, PaddedAt
<1> QED BY <1>3, <1>4

-----------------------------------------------------------------------------
(* alloc.                                                                  *)

\* Whatever alloc draws lies strictly between its two arguments: at the depth
\* where it stops, and whichever side it steps from, for every boundary.
THEOREM AllocBetween ==
    ASSUME NEW p \in Seq(Nat), NEW q \in Seq(Nat), PaddedLess(p, q),
           NEW depth \in Depths(p, q), NEW fromP \in BOOLEAN,
           NEW path \in NewDigits(p, q, depth, fromP)
    PROVE  path \in Seq(Nat) /\ PaddedLess(p, path) /\ PaddedLess(path, q)
<1> DEFINE low == Digit(p, depth)
           high == IF depth <= Len(q) THEN q[depth] ELSE EndDigit
<1>0. /\ Len(p) \in Nat /\ Len(q) \in Nat /\ EndDigit \in Nat
      /\ depth \in Nat \ {0}
      /\ \A j \in Nat \ {0} : Digit(p, j) \in Nat
      /\ \A j \in 1..Len(q) : q[j] \in Nat
  BY Digits, EndAssumption DEF Depths
<1>1. PICK step \in Steps(p, q, depth) :
        path = [PrefixP(p, depth) EXCEPT
                  ![depth] = LastDigit(p, q, depth, fromP, step)]
  BY DEF NewDigits
<1>2. PrefixP(p, depth) = [j \in 1..depth |-> Digit(p, j)]
  BY DEF PrefixP, prefix, SENT_START, Digit
<1>3. /\ PrefixP(p, depth)[depth] = low
      /\ PrefixQ(q, depth)[depth] = high
      /\ low \in Nat /\ high \in Nat
  BY <1>0, <1>2, Digits DEF PrefixQ, prefix, SENT_END
<1>4. Interval(p, q, depth) = high - low - 1
  BY <1>3 DEF Interval
<1>5. step \in 1..(high - low - 1)
  BY <1>0, <1>3, <1>4, LseqAssumption DEF Steps
<1>6. LastDigit(p, q, depth, fromP, step) \in (low + 1)..(high - 1)
  BY <1>3, <1>5 DEF LastDigit
<1>7. /\ path \in Seq(Nat)
      /\ Len(path) = depth
      /\ \A j \in 1..(depth-1) : path[j] = Digit(p, j)
      /\ path[depth] \in (low + 1)..(high - 1)
  <2>1. path = [j \in 1..depth |->
                  IF j = depth THEN LastDigit(p, q, depth, fromP, step)
                               ELSE Digit(p, j)]
    BY <1>0, <1>1, <1>2
  <2>2. ASSUME NEW j \in 1..depth
        PROVE  (IF j = depth THEN LastDigit(p, q, depth, fromP, step)
                             ELSE Digit(p, j)) \in Nat
    BY <1>0, <1>3, <1>6
  <2>3. path \in [1..depth -> Nat]
    BY <2>1, <2>2
  <2> QED BY <1>0, <1>6, <2>1, <2>3
<1>8. PaddedLess(p, path)
  <2>0. low < path[depth] /\ depth \in 1..Len(path)
    <3> HIDE DEF low, high
    <3> QED BY <1>0, <1>3, <1>7
  <2>1. PaddedAt(p, path, depth)
    <3>1. \A j \in 1..(depth-1) : Digit(p, j) = path[j]
      BY <1>7
    <3> QED BY <2>0, <3>1 DEF PaddedAt
  <2> QED BY <2>0, <2>1 DEF PaddedLess
<1>9. PaddedLess(path, q)
  <2>1. PICK k \in 1..Len(q) : PaddedAt(p, q, k)
    BY DEF PaddedLess
  <2>2. ~(depth < k)
    <3>1. SUFFICES ASSUME depth < k PROVE FALSE
      OBVIOUS
    <3>2. depth \in 1..(k-1) /\ depth \in 1..Len(q)
      BY <1>0, <3>1
    <3>3. low = q[depth] /\ high = q[depth]
      BY <1>0, <2>1, <3>2 DEF PaddedAt
    <3> QED BY <1>3, <1>5, <3>3
  <2>3. \A j \in 1..depth : Digit(path, j) = path[j]
    BY <1>0, <1>7 DEF Digit
  <2>4. ASSUME NEW j \in 1..(k-1)
        PROVE  Digit(path, j) = q[j]
    <3>1. j \in 1..depth /\ j \in 1..(depth-1)
      BY <1>0, <2>2
    <3> QED BY <1>7, <2>1, <2>3, <3>1 DEF PaddedAt
  <2>5. Digit(path, k) < q[k]
    <3>1. CASE depth = k
      BY <1>0, <1>3, <1>7, <2>3, <3>1
    <3>2. CASE depth # k
      <4>1. k \in 1..(depth-1)
        BY <1>0, <2>2, <3>2
      <4> QED BY <1>7, <2>1, <2>3, <4>1 DEF PaddedAt
    <3> QED BY <3>1, <3>2
  <2> QED BY <2>4, <2>5 DEF PaddedLess, PaddedAt
<1> QED BY <1>7, <1>8, <1>9

-----------------------------------------------------------------------------
(* Sequences.                                                              *)

\* A sequence is the function of its elements.
LEMMA SeqAsFunction ==
    ASSUME NEW S, NEW s \in Seq(S)
    PROVE  s = [i \in 1..Len(s) |-> s[i]]
<1>1. s \in [1..Len(s) -> S]
  BY LenProperties
<1> QED BY <1>1

\* What InsertAt leaves at every index.
LEMMA InsertAtIs ==
    ASSUME NEW S, NEW s \in Seq(S), NEW e \in S, NEW k \in 1..(Len(s) + 1)
    PROVE  InsertAt(s, k, e) =
             [i \in 1..(Len(s) + 1) |->
                IF i < k THEN s[i] ELSE IF i = k THEN e ELSE s[i - 1]]
<1> DEFINE before == SubSeq(s, 1, k - 1)
           after == SubSeq(s, k, Len(s))
<1>0. Len(s) \in Nat /\ k \in Nat \ {0}
  OBVIOUS
<1>1. /\ before \in Seq(S) /\ Len(before) = k - 1
      /\ \A i \in 1..(k-1) : before[i] = s[i]
  BY <1>0
<1>2. /\ after \in Seq(S) /\ Len(after) = Len(s) + 1 - k
      /\ \A i \in 1..(Len(s) + 1 - k) : after[i] = s[k + i - 1]
  BY <1>0
<1> HIDE DEF before, after
<1>3. /\ before \o <<e>> \in Seq(S) /\ Len(before \o <<e>>) = k
      /\ \A i \in 1..(k-1) : (before \o <<e>>)[i] = s[i]
      /\ (before \o <<e>>)[k] = e
  <2>1. <<e>> \in Seq(S) /\ Len(<<e>>) = 1 /\ <<e>>[1] = e
    OBVIOUS
  <2>2. /\ before \o <<e>> \in Seq(S) /\ Len(before \o <<e>>) = k
    BY <1>0, <1>1, <2>1
  <2>3. \A i \in 1..(k-1) : (before \o <<e>>)[i] = before[i]
    BY <1>0, <1>1, <2>1
  <2>4. (before \o <<e>>)[k] = <<e>>[1]
    BY <1>0, <1>1, <2>1
  <2> QED BY <1>1, <2>1, <2>2, <2>3, <2>4
<1> DEFINE front == before \o <<e>>
<1> HIDE DEF front
<1>4. /\ front \o after \in Seq(S)
      /\ Len(front \o after) = Len(s) + 1
      /\ \A i \in 1..(Len(s) + 1) : (front \o after)[i] =
           IF i < k THEN s[i] ELSE IF i = k THEN e ELSE s[i - 1]
  <2>1. front \in Seq(S) /\ Len(front) = k
    BY <1>3 DEF front
  <2>2. /\ front \o after \in Seq(S)
        /\ Len(front \o after) = Len(s) + 1
        /\ \A i \in 1..(Len(s) + 1) : (front \o after)[i] =
             IF i <= k THEN front[i] ELSE after[i - k]
    BY <1>0, <1>2, <2>1
  <2>3. ASSUME NEW i \in 1..(Len(s) + 1)
        PROVE  (front \o after)[i] =
                 IF i < k THEN s[i] ELSE IF i = k THEN e ELSE s[i - 1]
    <3>1. CASE i <= k
      BY <1>0, <1>3, <2>2, <3>1 DEF front
    <3>2. CASE ~(i <= k)
      <4>1. i - k \in 1..(Len(s) + 1 - k) /\ k + (i - k) - 1 = i - 1
        BY <1>0, <3>2
      <4> QED BY <1>0, <1>2, <2>2, <3>2, <4>1
    <3> QED BY <3>1, <3>2
  <2> QED BY <2>2, <2>3
<1>5. InsertAt(s, k, e) = front \o after
  BY DEF InsertAt, before, after, front
<1>6. front \o after = [i \in 1..(Len(s) + 1) |-> (front \o after)[i]]
  <2> DEFINE t == front \o after
  <2>1. t \in Seq(S) /\ Len(t) = Len(s) + 1
    BY <1>4
  <2> HIDE DEF t
  <2>2. t = [i \in 1..(Len(s) + 1) |-> t[i]]
    BY <2>1, SeqAsFunction
  <2> QED BY <2>2 DEF t
<1> QED BY <1>4, <1>5, <1>6

\* What RemoveAt leaves at every index.
LEMMA RemoveAtIs ==
    ASSUME NEW S, NEW s \in Seq(S), NEW k \in 1..Len(s)
    PROVE  RemoveAt(s, k) =
             [i \in 1..(Len(s) - 1) |-> IF i < k THEN s[i] ELSE s[i + 1]]
<1> DEFINE before == SubSeq(s, 1, k - 1)
           after == SubSeq(s, k + 1, Len(s))
<1>0. Len(s) \in Nat /\ k \in Nat \ {0} /\ k <= Len(s)
  OBVIOUS
<1>1. /\ before \in Seq(S) /\ Len(before) = k - 1
      /\ \A i \in 1..(k-1) : before[i] = s[i]
  BY <1>0
<1>2. /\ after \in Seq(S) /\ Len(after) = Len(s) - k
      /\ \A i \in 1..(Len(s) - k) : after[i] = s[k + i]
  BY <1>0
<1> HIDE DEF before, after
<1>3. /\ before \o after \in Seq(S)
      /\ Len(before \o after) = Len(s) - 1
      /\ \A i \in 1..(Len(s) - 1) : (before \o after)[i] =
           IF i < k THEN before[i] ELSE after[i - (k - 1)]
  <2>1. /\ Len(before) + Len(after) = Len(s) - 1
        /\ \A i \in Nat : i <= Len(before) <=> i < k
    BY <1>0, <1>1, <1>2
  <2>2. /\ before \o after \in Seq(S)
        /\ Len(before \o after) = Len(before) + Len(after)
        /\ \A i \in 1..(Len(before) + Len(after)) : (before \o after)[i] =
             IF i <= Len(before) THEN before[i] ELSE after[i - Len(before)]
    BY <1>1, <1>2, ConcatProperties
  <2> QED BY <1>0, <1>1, <2>1, <2>2
<1>4. ASSUME NEW i \in 1..(Len(s) - 1)
      PROVE  (before \o after)[i] = IF i < k THEN s[i] ELSE s[i + 1]
  <2>1. CASE i < k
    BY <1>0, <1>1, <1>3, <2>1
  <2>2. CASE ~(i < k)
    <3>1. i - (k - 1) \in 1..(Len(s) - k) /\ k + (i - (k - 1)) = i + 1
      BY <1>0, <2>2
    <3> QED BY <1>0, <1>2, <1>3, <2>2, <3>1
  <2> QED BY <2>1, <2>2
<1>5. RemoveAt(s, k) = before \o after
  BY DEF RemoveAt, before, after
<1>6. before \o after = [i \in 1..(Len(s) - 1) |-> (before \o after)[i]]
  <2> DEFINE t == before \o after
  <2>1. t \in Seq(S) /\ Len(t) = Len(s) - 1
    BY <1>3
  <2> HIDE DEF t
  <2>2. t = [i \in 1..(Len(s) - 1) |-> t[i]]
    BY <2>1, SeqAsFunction
  <2> QED BY <2>2 DEF t
<1> QED BY <1>4, <1>5, <1>6

-----------------------------------------------------------------------------
(* The inductive invariant.                                                *)

AtomsPadded ==
    \A i \in 0..Len(atoms) : \A j \in (i+1)..(Len(atoms)+1) :
        PaddedLess(PathAt(i), PathAt(j))
IInv == TypeOK /\ AtomsPadded

\* Atoms have identifiers with paths, and so have the sentinels.
LEMMA PathAtType ==
    ASSUME atoms \in Seq(Atom)
    PROVE  /\ Len(atoms) \in Nat
           /\ DOMAIN atoms = 1..Len(atoms)
           /\ \A i \in 1..Len(atoms) :
                /\ atoms[i] \in Atom
                /\ PathAt(i) = atoms[i].id.path
           /\ PathAt(0) = <<0>> /\ PathAt(Len(atoms) + 1) = <<EndDigit>>
           /\ \A i \in 0..(Len(atoms)+1) : PathAt(i) \in Seq(Nat)
<1>1. Len(atoms) \in Nat /\ DOMAIN atoms = 1..Len(atoms)
  OBVIOUS
<1>2. ASSUME NEW i \in 1..Len(atoms)
      PROVE  /\ atoms[i] \in Atom
             /\ PathAt(i) = atoms[i].id.path
             /\ PathAt(i) \in Seq(Nat)
  <2>1. atoms[i] \in Atom
    OBVIOUS
  <2>2. PathAt(i) = atoms[i].id.path
    BY <1>1 DEF PathAt
  <2>3. atoms[i].id.path \in Seq(Nat)
    BY <2>1 DEF Atom, Identifier
  <2> QED BY <2>1, <2>2, <2>3
<1>3. /\ PathAt(0) = <<0>> /\ PathAt(Len(atoms) + 1) = <<EndDigit>>
  BY <1>1 DEF PathAt, SENT_START, SENT_END
<1>4. <<0>> \in Seq(Nat) /\ <<EndDigit>> \in Seq(Nat)
  BY EndAssumption
<1>5. ASSUME NEW i \in 0..(Len(atoms)+1)
      PROVE  PathAt(i) \in Seq(Nat)
  <2>1. i = 0 \/ i = Len(atoms) + 1 \/ i \in 1..Len(atoms)
    BY <1>1
  <2> QED BY <1>2, <1>3, <1>4, <2>1
<1> QED BY <1>1, <1>2, <1>3, <1>5

\* An identifier drawn between two neighbours gets its place between them.
LEMMA IndexBetween ==
    ASSUME IInv, NEW position \in 0..Len(atoms), NEW path \in Seq(Nat),
           PaddedLess(PathAt(position), path),
           PaddedLess(path, PathAt(position + 1))
    PROVE  IndexFor(NewId(path)) = position + 1
<1> DEFINE greater == {i \in DOMAIN atoms : Less(NewId(path), atoms[i].id)}
<1>0. atoms \in Seq(Atom)
  BY DEF IInv, TypeOK
<1>1. /\ Len(atoms) \in Nat
      /\ DOMAIN atoms = 1..Len(atoms)
      /\ \A i \in 1..Len(atoms) : PathAt(i) = atoms[i].id.path
      /\ \A i \in 0..(Len(atoms)+1) : PathAt(i) \in Seq(Nat)
  BY <1>0, PathAtType
<1>2. ASSUME NEW i \in (position + 1)..Len(atoms)
      PROVE  i \in greater
  <2>1. PaddedLess(path, PathAt(i))
    <3>1. CASE i = position + 1
      BY <3>1
    <3>2. CASE i # position + 1
      <4>0. i \in 1..Len(atoms) /\ position + 1 \in 1..Len(atoms)
            /\ position + 1 < i
        BY <1>1, <3>2
      <4>1. PaddedLess(PathAt(position + 1), PathAt(i))
        BY <4>0 DEF IInv, AtomsPadded
      <4> QED BY <1>1, <4>1, PaddedTransitive
    <3> QED BY <3>1, <3>2
  <2>2. PathLess(path, PathAt(i))
    BY <1>1, <2>1, PaddedImpliesLess
  <2> QED BY <1>1, <2>2 DEF Less, NewId
<1>3. ASSUME NEW i \in 1..position
      PROVE  i \notin greater
  <2>1. PaddedLess(PathAt(i), path)
    <3>1. CASE i = position
      BY <3>1
    <3>2. CASE i # position
      <4>1. PaddedLess(PathAt(i), PathAt(position))
        BY <1>1, <3>2 DEF IInv, AtomsPadded
      <4>2. PathAt(i) \in Seq(Nat) /\ PathAt(position) \in Seq(Nat)
        BY <1>1
      <4> QED BY <4>1, <4>2, PaddedTransitive
    <3> QED BY <3>1, <3>2
  <2>2. PathLess(PathAt(i), path)
    BY <1>1, <2>1, PaddedImpliesLess
  <2>3. ~PathLess(path, PathAt(i)) /\ path # PathAt(i)
    BY <1>1, <2>1, <2>2, PathLessAsymmetric, PaddedIrreflexive
  <2> QED BY <1>1, <2>3 DEF Less, NewId
<1>4. greater = (position + 1)..Len(atoms)
  BY <1>1, <1>2, <1>3
<1>5. CASE position = Len(atoms)
  BY <1>1, <1>4, <1>5 DEF IndexFor
<1>6. CASE position # Len(atoms)
  <2>1. position + 1 \in greater /\ \A j \in greater : position + 1 <= j
    <3>0. Len(atoms) \in Nat
      BY <1>1
    <3>1. position \in Nat /\ position < Len(atoms)
      BY <1>6, <3>0
    <3>2. position + 1 \in (position + 1)..Len(atoms)
      BY <1>1, <3>1
    <3>3. \A j \in (position + 1)..Len(atoms) : position + 1 <= j
      BY <3>1
    <3> HIDE DEF greater
    <3> QED BY <1>4, <3>2, <3>3
  <2>2. ASSUME NEW i \in greater, \A j \in greater : i <= j
        PROVE  i = position + 1
    BY <1>1, <1>4, <2>1, <2>2
  <2>3. greater # {}
    BY <2>1
  <2> QED BY <2>1, <2>2, <2>3 DEF IndexFor
<1> QED BY <1>5, <1>6

-----------------------------------------------------------------------------
(* The steps.                                                              *)

\* An insertion puts a new identifier, strictly between the neighbours of the
\* position, at the position.
LEMMA InsertStep ==
    ASSUME IInv, NEW position \in 0..Len(atoms), NEW char \in Char,
           Insert(position, char)
    PROVE  \E path \in Seq(Nat) :
             /\ PaddedLess(PathAt(position), path)
             /\ PaddedLess(path, PathAt(position + 1))
             /\ atoms' = InsertAt(atoms, position + 1,
                                  [id |-> NewId(path), value |-> char])
             /\ [id |-> NewId(path), value |-> char] \in Atom
<1> DEFINE p == PathAt(position)
           q == PathAt(position + 1)
<1>0. /\ Len(atoms) \in Nat
      /\ p \in Seq(Nat) /\ q \in Seq(Nat)
      /\ PaddedLess(p, q)
  <2>1. atoms \in Seq(Atom)
    BY DEF IInv, TypeOK
  <2>2. /\ Len(atoms) \in Nat
        /\ \A i \in 0..(Len(atoms)+1) : PathAt(i) \in Seq(Nat)
    BY <2>1, PathAtType
  <2> QED BY <2>2 DEF IInv, AtomsPadded
<1>a. PICK depth \in Depths(p, q), fromP \in BOOLEAN :
        \E path \in NewDigits(p, q, depth, fromP) :
          addAtom([id |-> NewId(path), value |-> char])
  BY DEF Insert
<1>1. PICK path \in NewDigits(p, q, depth, fromP) :
        addAtom([id |-> NewId(path), value |-> char])
  BY <1>a
<1>2. path \in Seq(Nat) /\ PaddedLess(p, path) /\ PaddedLess(path, q)
  BY <1>0, <1>1, AllocBetween
<1>3. IndexFor(NewId(path)) = position + 1
  BY <1>2, IndexBetween
<1>4. [id |-> NewId(path), value |-> char] \in Atom
  BY <1>2 DEF Atom, Identifier, NewId, ClientId
<1> QED BY <1>1, <1>2, <1>3, <1>4 DEF addAtom

\* A deletion removes the atom at the position, or nothing at the end.
LEMMA DeleteStep ==
    ASSUME IInv, NEW position \in 0..Len(atoms), Delete(position)
    PROVE  atoms' = IF position < Len(atoms)
                    THEN RemoveAt(atoms, position + 1) ELSE atoms
<1>0. /\ Len(atoms) \in Nat
      /\ DOMAIN atoms = 1..Len(atoms)
      /\ \A i \in 1..Len(atoms) : PathAt(i) = atoms[i].id.path
      /\ PathAt(Len(atoms) + 1) = <<EndDigit>>
      /\ \A i \in 0..(Len(atoms)+1) : PathAt(i) \in Seq(Nat)
  <2>1. atoms \in Seq(Atom)
    BY DEF IInv, TypeOK
  <2> QED BY <2>1, PathAtType
<1>1. ASSUME NEW i \in 0..Len(atoms), NEW j \in (i+1)..(Len(atoms)+1)
      PROVE  PathAt(i) # PathAt(j)
  <2>1. PaddedLess(PathAt(i), PathAt(j))
    BY DEF IInv, AtomsPadded
  <2>2. PathAt(i) \in Seq(Nat)
    BY <1>0
  <2> QED BY <2>1, <2>2, PaddedIrreflexive
<1>2. CASE position < Len(atoms)
  <2> DEFINE same == {i \in DOMAIN atoms :
                        atoms[i].id = atoms[position + 1].id}
  <2>1. position + 1 \in same
    BY <1>0, <1>2
  <2>2. ASSUME NEW i \in same
        PROVE  i = position + 1
    <3>1. PathAt(i) = PathAt(position + 1)
      BY <1>0, <1>2
    <3>2. ~(i < position + 1)
      BY <1>0, <1>1, <1>2, <3>1
    <3>3. ~(position + 1 < i)
      BY <1>0, <1>1, <1>2, <3>1
    <3> QED BY <1>0, <3>2, <3>3
  <2>3. same = {position + 1}
    BY <2>1, <2>2
  <2>4. (CHOOSE i \in same : \A j \in same : i <= j) = position + 1
    BY <1>0, <2>3
  <2>5. atoms' = IF same = {} THEN atoms
                 ELSE RemoveAt(atoms, CHOOSE i \in same :
                                        \A j \in same : i <= j)
    BY <1>2 DEF Delete, delete
  <2>6. same # {}
    BY <2>1
  <2> HIDE DEF same
  <2>7. atoms' = RemoveAt(atoms, position + 1)
    BY <2>4, <2>5, <2>6
  <2> QED BY <1>2, <2>7
<1>3. CASE ~(position < Len(atoms))
  <2>1. ASSUME NEW i \in DOMAIN atoms
        PROVE  atoms[i].id # SENT_END
    <3>1. PathAt(i) # PathAt(Len(atoms) + 1)
      BY <1>0, <1>1
    <3> QED BY <1>0, <3>1 DEF SENT_END
  <2> QED BY <1>3, <2>1 DEF Delete, delete
<1> QED BY <1>2, <1>3

\* Every initial state satisfies the invariant.
LEMMA IInvInit == Init => IInv
<1> SUFFICES ASSUME Init PROVE IInv
  OBVIOUS
<1>1. TypeOK
  <2>1. atoms \in Seq(Atom) /\ inserted \in 0..MaxInsert
    BY LseqAssumption DEF Init
  <2>2. DOMAIN bpbm = {}
    BY DEF Init
  <2>3. bpbm = [d \in DOMAIN bpbm |-> bpbm[d]]
    BY DEF Init
  <2> QED BY <2>1, <2>2, <2>3 DEF TypeOK
<1>2. Len(atoms) = 0
  BY DEF Init
<1>3. PathAt(0) = <<0>> /\ PathAt(1) = <<EndDigit>>
  BY <1>2 DEF PathAt, SENT_START, SENT_END
<1>4. PaddedLess(<<0>>, <<EndDigit>>)
  <2>1. PaddedAt(<<0>>, <<EndDigit>>, 1)
    BY EndAssumption DEF PaddedAt, Digit
  <2> QED BY <2>1 DEF PaddedLess
<1>5. AtomsPadded
  <2>1. ASSUME NEW i \in 0..Len(atoms), NEW j \in (i+1)..(Len(atoms)+1)
        PROVE  i = 0 /\ j = 1
    BY <1>2
  <2> QED BY <1>3, <1>4, <2>1 DEF AtomsPadded
<1> QED BY <1>1, <1>5 DEF IInv

\* The memory of alloc keeps its type.
LEMMA MemoryType ==
    ASSUME TypeOK, NEW depth \in Nat \ {0}, NEW fromP \in BOOLEAN,
           Allocates(depth, fromP)
    PROVE  /\ DOMAIN bpbm' \in SUBSET (Nat \ {0})
           /\ bpbm' = [d \in DOMAIN bpbm' |-> bpbm'[d]]
           /\ \A d \in DOMAIN bpbm' : bpbm'[d] \in BOOLEAN
<1>1. bpbm' = [d \in DOMAIN bpbm \cup {depth} |->
                 IF d = depth THEN fromP ELSE bpbm[d]]
  BY DEF Allocates
<1>2. DOMAIN bpbm' = DOMAIN bpbm \cup {depth}
  BY <1>1
<1>3. bpbm' = [d \in DOMAIN bpbm' |-> bpbm'[d]]
  BY <1>1
<1>4. ASSUME NEW d \in DOMAIN bpbm'
      PROVE  bpbm'[d] \in BOOLEAN
  BY <1>1, <1>2 DEF TypeOK
<1> QED BY <1>2, <1>3, <1>4 DEF TypeOK

\* An insertion keeps the invariant.
LEMMA IInvInsert ==
    ASSUME IInv, NEW position \in 0..Len(atoms), NEW char \in Char,
           Insert(position, char)
    PROVE  IInv'
<1> DEFINE n == Len(atoms)
           k == position + 1
<1>0. /\ atoms \in Seq(Atom) /\ n \in Nat
      /\ DOMAIN atoms = 1..n
      /\ \A i \in 1..n : atoms[i] \in Atom /\ PathAt(i) = atoms[i].id.path
      /\ PathAt(0) = <<0>> /\ PathAt(n + 1) = <<EndDigit>>
      /\ \A i \in 0..(n+1) : PathAt(i) \in Seq(Nat)
  <2>1. atoms \in Seq(Atom)
    BY DEF IInv, TypeOK
  <2> QED BY <2>1, PathAtType
<1>1. PICK path \in Seq(Nat) :
        /\ PaddedLess(PathAt(position), path)
        /\ PaddedLess(path, PathAt(k))
        /\ atoms' = InsertAt(atoms, k, [id |-> NewId(path), value |-> char])
        /\ [id |-> NewId(path), value |-> char] \in Atom
  BY InsertStep
<1> DEFINE atom == [id |-> NewId(path), value |-> char]
<1>2. atoms' = [i \in 1..(n + 1) |->
                  IF i < k THEN atoms[i] ELSE IF i = k THEN atom
                  ELSE atoms[i - 1]]
  <2>1. k \in 1..(Len(atoms) + 1)
    BY <1>0
  <2>2. atom \in Atom /\ atoms' = InsertAt(atoms, k, atom)
    BY <1>1
  <2> HIDE DEF k, atom
  <2> QED BY <1>0, <2>1, <2>2, InsertAtIs
<1>3. atoms' \in Seq(Atom) /\ Len(atoms') = n + 1
  <2>1. ASSUME NEW i \in 1..(n + 1)
        PROVE  (IF i < k THEN atoms[i] ELSE IF i = k THEN atom
                ELSE atoms[i - 1]) \in Atom
    <3>1. CASE i < k
      BY <1>0, <3>1
    <3>2. CASE i = k
      BY <1>1, <3>2
    <3>3. CASE i > k
      <4>1. i - 1 \in 1..n
        BY <1>0, <3>3
      <4> QED BY <1>0, <3>3, <4>1
    <3> QED BY <1>0, <3>1, <3>2, <3>3
  <2>2. atoms' \in [1..(n + 1) -> Atom]
    BY <1>2, <2>1
  <2>3. n + 1 \in Nat
    BY <1>0
  <2> QED BY <2>2, <2>3
<1>4. TypeOK'
  <2>1. inserted' \in 0..MaxInsert
    BY LseqAssumption DEF Insert, IInv, TypeOK
  <2>2. PICK depth \in Nat \ {0}, fromP \in BOOLEAN :
          Allocates(depth, fromP)
    BY DEF Insert, Depths
  <2> QED BY <1>3, <2>1, <2>2, MemoryType DEF IInv, TypeOK
<1>5. ASSUME NEW i \in 0..(n + 2)
      PROVE  PathAt(i)' = IF i < k THEN PathAt(i) ELSE IF i = k THEN path
                          ELSE PathAt(i - 1)
  <2>1. CASE i = 0
    BY <1>0, <2>1 DEF PathAt, SENT_START
  <2>2. CASE i = n + 2
    BY <1>0, <1>3, <2>2 DEF PathAt, SENT_END
  <2>3. CASE i \in 1..(n + 1)
    <3>1. PathAt(i)' = atoms'[i].id.path
      BY <1>0, <1>3, <2>3 DEF PathAt
    <3>2. CASE i < k
      BY <1>0, <1>2, <2>3, <3>1, <3>2
    <3>3. CASE i = k
      BY <1>0, <1>2, <2>3, <3>1, <3>3 DEF NewId
    <3>4. CASE i > k
      <4>1. i - 1 \in 1..n
        BY <1>0, <2>3, <3>4
      <4> QED BY <1>0, <1>2, <2>3, <3>1, <3>4, <4>1
    <3> QED BY <1>0, <3>2, <3>3, <3>4
  <2> QED BY <1>0, <2>1, <2>2, <2>3
<1>6. \A i \in 0..n : \A j \in (i+1)..(n+1) :
        PaddedLess(PathAt(i), PathAt(j))
  BY DEF IInv, AtomsPadded
<1>7. ASSUME NEW i \in 0..position
      PROVE  PaddedLess(PathAt(i), path)
  <2>1. CASE i = position
    BY <1>1, <2>1
  <2>2. CASE i # position
    <3>1. PaddedLess(PathAt(i), PathAt(position))
      BY <1>0, <1>6, <2>2
    <3>2. PathAt(i) \in Seq(Nat) /\ PathAt(position) \in Seq(Nat)
      BY <1>0
    <3> QED BY <1>1, <3>1, <3>2, PaddedTransitive
  <2> QED BY <2>1, <2>2
<1>8. ASSUME NEW j \in k..(n + 1)
      PROVE  PaddedLess(path, PathAt(j))
  <2>1. CASE j = k
    BY <1>1, <2>1
  <2>2. CASE j # k
    <3>0. k \in 0..n /\ j \in (k+1)..(n+1)
      BY <1>0, <2>2
    <3>1. PaddedLess(PathAt(k), PathAt(j))
      BY <1>6, <3>0
    <3>2. PathAt(k) \in Seq(Nat) /\ PathAt(j) \in Seq(Nat)
      BY <1>0
    <3> QED BY <1>1, <3>1, <3>2, PaddedTransitive
  <2> QED BY <2>1, <2>2
<1>9. ASSUME NEW i \in 0..(n + 1), NEW j \in (i+1)..(n + 2)
      PROVE  PaddedLess(PathAt(i)', PathAt(j)')
  <2>0. j \in 0..(n + 2) /\ i \in 0..(n + 2)
    BY <1>0
  <2>1. CASE j < k
    <3>1. PathAt(i)' = PathAt(i)
      BY <1>5, <2>0, <2>1
    <3>2. PathAt(j)' = PathAt(j)
      BY <1>5, <2>0, <2>1
    <3>3. i \in 0..n /\ j \in (i+1)..(n+1)
      BY <1>0, <2>1
    <3> QED BY <1>6, <3>1, <3>2, <3>3
  <2>2. CASE j = k
    <3>1. PathAt(i)' = PathAt(i)
      BY <1>5, <2>0, <2>2
    <3>2. PathAt(j)' = path
      BY <1>5, <2>0, <2>2
    <3>3. i \in 0..position
      BY <1>0, <2>2
    <3> QED BY <1>7, <3>1, <3>2, <3>3
  <2>3. CASE i = k
    <3>1. PathAt(i)' = path
      BY <1>5, <2>0, <2>3
    <3>2. PathAt(j)' = PathAt(j - 1)
      BY <1>0, <1>5, <2>0, <2>3
    <3>3. j - 1 \in k..(n + 1)
      BY <1>0, <2>3
    <3> QED BY <1>8, <3>1, <3>2, <3>3
  <2>4. CASE i < k /\ k < j
    <3>1. PathAt(i)' = PathAt(i)
      BY <1>5, <2>0, <2>4
    <3>2. PathAt(j)' = PathAt(j - 1)
      BY <1>0, <1>5, <2>0, <2>4
    <3>3. i \in 0..n /\ j - 1 \in (i+1)..(n + 1)
      BY <1>0, <2>4
    <3> QED BY <1>6, <3>1, <3>2, <3>3
  <2>5. CASE k < i
    <3>1. PathAt(i)' = PathAt(i - 1)
      BY <1>0, <1>5, <2>0, <2>5
    <3>2. PathAt(j)' = PathAt(j - 1)
      <4>1. ~(j < k) /\ j # k
        BY <1>0, <2>5
      <4> QED BY <1>5, <2>0, <4>1
    <3>3. i - 1 \in 0..n /\ j - 1 \in ((i-1)+1)..(n + 1)
      BY <1>0, <2>5
    <3> QED BY <1>6, <3>1, <3>2, <3>3
  <2>6. j < k \/ j = k \/ i = k \/ (i < k /\ k < j) \/ k < i
    BY <1>0
  <2> QED BY <2>1, <2>2, <2>3, <2>4, <2>5, <2>6
<1>10. AtomsPadded'
  <2>1. \A i \in 0..(n + 1) : \A j \in (i+1)..(n + 2) :
          PaddedLess(PathAt(i)', PathAt(j)')
    BY <1>9
  <2>2. Len(atoms') = n + 1 /\ (n + 1) + 1 = n + 2
    BY <1>0, <1>3
  <2> HIDE DEF n
  <2> QED BY <2>1, <2>2 DEF AtomsPadded
<1> QED BY <1>4, <1>10 DEF IInv

\* A deletion keeps the invariant.
LEMMA IInvDelete ==
    ASSUME IInv, NEW position \in 0..Len(atoms), Delete(position)
    PROVE  IInv'
<1> DEFINE n == Len(atoms)
           k == position + 1
<1>0. /\ atoms \in Seq(Atom) /\ n \in Nat
      /\ \A i \in 1..n : atoms[i] \in Atom /\ PathAt(i) = atoms[i].id.path
      /\ PathAt(0) = <<0>> /\ PathAt(n + 1) = <<EndDigit>>
  <2>1. atoms \in Seq(Atom)
    BY DEF IInv, TypeOK
  <2> QED BY <2>1, PathAtType
<1>1. bpbm' = bpbm /\ inserted' = inserted
  BY DEF Delete
<1>2. \A i \in 0..n : \A j \in (i+1)..(n+1) :
        PaddedLess(PathAt(i), PathAt(j))
  BY DEF IInv, AtomsPadded
<1>3. CASE position < n
  <2>1. atoms' = RemoveAt(atoms, k)
    BY <1>3, DeleteStep
  <2>2. atoms' = [i \in 1..(n - 1) |->
                    IF i < k THEN atoms[i] ELSE atoms[i + 1]]
    <3>1. k \in 1..Len(atoms)
      BY <1>0, <1>3
    <3> HIDE DEF k
    <3> QED BY <1>0, <2>1, <3>1, RemoveAtIs
  <2>3. atoms' \in Seq(Atom) /\ Len(atoms') = n - 1
    <3>1. ASSUME NEW i \in 1..(n - 1)
          PROVE  (IF i < k THEN atoms[i] ELSE atoms[i + 1]) \in Atom
      <4>1. i \in 1..n /\ i + 1 \in 1..n
        BY <1>0
      <4> QED BY <1>0, <4>1
    <3>2. atoms' \in [1..(n - 1) -> Atom]
      BY <2>2, <3>1
    <3>3. n - 1 \in Nat
      BY <1>0, <1>3
    <3> QED BY <3>2, <3>3
  <2>4. TypeOK'
    BY <1>1, <2>3 DEF IInv, TypeOK
  <2>5. ASSUME NEW i \in 0..n
        PROVE  PathAt(i)' = IF i < k THEN PathAt(i) ELSE PathAt(i + 1)
    <3>1. CASE i = 0
      BY <1>0, <3>1 DEF PathAt, SENT_START
    <3>2. CASE i = n
      BY <1>0, <1>3, <2>3, <3>2 DEF PathAt, SENT_END
    <3>3. CASE i \in 1..(n - 1)
      <4>1. PathAt(i)' = atoms'[i].id.path
        BY <1>0, <2>3, <3>3 DEF PathAt
      <4>2. i \in 1..n /\ i + 1 \in 1..n
        BY <1>0, <3>3
      <4> QED BY <1>0, <2>2, <3>3, <4>1, <4>2
    <3> QED BY <1>0, <3>1, <3>2, <3>3
  <2>6. ASSUME NEW i \in 0..(n - 1), NEW j \in (i+1)..n
        PROVE  PaddedLess(PathAt(i)', PathAt(j)')
    <3>0. i \in 0..n /\ j \in 0..n
      BY <1>0
    <3>1. CASE j < k
      BY <1>0, <1>2, <2>5, <3>0, <3>1
    <3>2. CASE i < k /\ k <= j
      <4>1. j + 1 \in (i+1)..(n+1)
        BY <1>0, <3>2
      <4> QED BY <1>0, <1>2, <2>5, <3>0, <3>2, <4>1
    <3>3. CASE k <= i
      <4>1. i + 1 \in 0..n /\ j + 1 \in ((i+1)+1)..(n+1) /\ k <= j
        BY <1>0, <3>3
      <4> QED BY <1>0, <1>2, <2>5, <3>0, <3>3, <4>1
    <3> QED BY <1>0, <3>1, <3>2, <3>3
  <2>7. AtomsPadded'
    <3>1. \A i \in 0..(n - 1) : \A j \in (i+1)..n :
            PaddedLess(PathAt(i)', PathAt(j)')
      BY <2>6
    <3>2. Len(atoms') = n - 1 /\ (n - 1) + 1 = n
      BY <1>0, <2>3
    <3> HIDE DEF n
    <3> QED BY <3>1, <3>2 DEF AtomsPadded
  <2> QED BY <2>4, <2>7 DEF IInv
<1>4. CASE ~(position < n)
  <2>1. atoms' = atoms
    BY <1>4, DeleteStep
  <2> QED BY <1>1, <2>1 DEF IInv, TypeOK, AtomsPadded, PathAt
<1> QED BY <1>3, <1>4

\* Every step keeps the invariant.
LEMMA IInvStep == IInv /\ [Next]_vars => IInv'
<1> SUFFICES ASSUME IInv, [Next]_vars PROVE IInv'
  OBVIOUS
<1>1. CASE Next
  <2>1. PICK position \in 0..Len(atoms) :
          (\E char \in Char : Insert(position, char)) \/ Delete(position)
    BY <1>1 DEF Next
  <2> QED BY <2>1, IInvInsert, IInvDelete
<1>2. CASE UNCHANGED vars
  BY <1>2 DEF vars, IInv, TypeOK, AtomsPadded, PathAt
<1> QED BY <1>1, <1>2

\* In every reachable state the variables have their types and the padded
\* order holds.
THEOREM LseqInvariant == Spec => []IInv
  BY IInvInit, IInvStep, PTL DEF Spec

\* The atoms and the boundary chosen at each depth keep their types, whatever
\* is inserted and deleted.
THEOREM LseqTypeTheorem == Spec => []TypeOK
<1>1. IInv => TypeOK
  BY DEF IInv
<1> QED BY <1>1, LseqInvariant, PTL

\* After any history of insertions and deletions, of any length, the
\* identifiers strictly increase from SENT_START along the atoms to SENT_END.
THEOREM OrderTheorem == Spec => []AtomsOrdered
<1>1. IInv => AtomsOrdered
  <2> SUFFICES ASSUME IInv,
                      NEW i \in 0..Len(atoms), NEW j \in (i+1)..(Len(atoms)+1)
               PROVE  PathLess(PathAt(i), PathAt(j))
    BY DEF AtomsOrdered
  <2>1. PaddedLess(PathAt(i), PathAt(j))
    BY DEF IInv, AtomsPadded
  <2>2. PathAt(i) \in Seq(Nat) /\ PathAt(j) \in Seq(Nat)
    BY PathAtType DEF IInv, TypeOK
  <2> QED BY <2>1, <2>2, PaddedImpliesLess
<1> QED BY <1>1, LseqInvariant, PTL

-----------------------------------------------------------------------------
(* The text.                                                               *)

\* The text has one character per atom.
LEMMA TextType ==
    ASSUME atoms \in Seq(Atom)
    PROVE  /\ printString \in Seq(Char)
           /\ Len(printString) = Len(atoms)
           /\ \A i \in 1..Len(atoms) : printString[i] = atoms[i].value
<1>1. Len(atoms) \in Nat /\ DOMAIN atoms = 1..Len(atoms)
  OBVIOUS
<1>2. printString = [i \in 1..Len(atoms) |-> atoms[i].value]
  BY <1>1 DEF printString
<1>3. ASSUME NEW i \in 1..Len(atoms)
      PROVE  atoms[i].value \in Char
  <2>1. atoms[i] \in Atom
    OBVIOUS
  <2> QED BY <2>1 DEF Atom
<1> QED BY <1>1, <1>2, <1>3

\* An insertion inserts its character at its position of the text.
LEMMA InsertText ==
    ASSUME IInv, NEW position \in 0..Len(atoms), NEW char \in Char,
           Insert(position, char)
    PROVE  printString' = InsertAt(printString, position + 1, char)
<1> DEFINE n == Len(atoms)
<1>0. atoms \in Seq(Atom) /\ n \in Nat /\ position + 1 \in 1..(n + 1)
  BY DEF IInv, TypeOK
<1>1. PICK path \in Seq(Nat) :
        /\ atoms' = InsertAt(atoms, position + 1,
                             [id |-> NewId(path), value |-> char])
        /\ [id |-> NewId(path), value |-> char] \in Atom
  BY InsertStep
<1> DEFINE atom == [id |-> NewId(path), value |-> char]
<1>2. atoms' = [i \in 1..(n + 1) |->
                  IF i < position + 1 THEN atoms[i]
                  ELSE IF i = position + 1 THEN atom ELSE atoms[i - 1]]
  <2> DEFINE k == position + 1
  <2>1. /\ atom \in Atom /\ atoms' = InsertAt(atoms, k, atom)
        /\ atoms \in Seq(Atom) /\ k \in 1..(Len(atoms) + 1)
    BY <1>0, <1>1
  <2> HIDE DEF atom, k
  <2>2. atoms' = [i \in 1..(n + 1) |->
                    IF i < k THEN atoms[i] ELSE IF i = k THEN atom
                    ELSE atoms[i - 1]]
    BY <2>1, InsertAtIs
  <2> QED BY <2>2 DEF k
<1>3. printString' = [i \in 1..(n + 1) |-> atoms'[i].value]
  BY <1>2 DEF printString
<1>4. InsertAt(printString, position + 1, char) =
        [i \in 1..(n + 1) |->
           IF i < position + 1 THEN printString[i]
           ELSE IF i = position + 1 THEN char ELSE printString[i - 1]]
  <2> DEFINE k == position + 1
             text == printString
  <2>1. /\ text \in Seq(Char) /\ Len(text) = n
        /\ k \in 1..(Len(text) + 1)
    BY <1>0, TextType
  <2> HIDE DEF k, text
  <2>2. InsertAt(text, k, char) =
          [i \in 1..(n + 1) |-> IF i < k THEN text[i]
                                ELSE IF i = k THEN char ELSE text[i - 1]]
    BY <2>1, InsertAtIs
  <2> QED BY <2>2 DEF k, text
<1>5. ASSUME NEW i \in 1..(n + 1)
      PROVE  atoms'[i].value =
               IF i < position + 1 THEN printString[i]
               ELSE IF i = position + 1 THEN char ELSE printString[i - 1]
  <2>1. CASE i < position + 1
    <3>1. i \in 1..n
      BY <1>0, <2>1
    <3> QED BY <1>0, <1>2, <2>1, <3>1, TextType
  <2>2. CASE i = position + 1
    BY <1>0, <1>2, <2>2
  <2>3. CASE i > position + 1
    <3>1. i - 1 \in 1..n
      BY <1>0, <2>3
    <3> QED BY <1>0, <1>2, <2>3, <3>1, TextType
  <2> QED BY <1>0, <2>1, <2>2, <2>3
<1> QED BY <1>3, <1>4, <1>5

\* A deletion removes the character at its position, if there is one.
LEMMA DeleteText ==
    ASSUME IInv, NEW position \in 0..Len(atoms), Delete(position)
    PROVE  printString' = IF position < Len(printString)
                          THEN RemoveAt(printString, position + 1)
                          ELSE printString
<1> DEFINE n == Len(atoms)
<1>0. /\ atoms \in Seq(Atom) /\ n \in Nat
      /\ printString \in Seq(Char) /\ Len(printString) = n
      /\ \A i \in 1..n : printString[i] = atoms[i].value
  BY TextType DEF IInv, TypeOK
<1>1. CASE position < n
  <2>0. position + 1 \in 1..n
    BY <1>0, <1>1
  <2>1. atoms' = [i \in 1..(n - 1) |->
                    IF i < position + 1 THEN atoms[i] ELSE atoms[i + 1]]
    BY <1>0, <1>1, <2>0, DeleteStep, RemoveAtIs
  <2>2. printString' = [i \in 1..(n - 1) |-> atoms'[i].value]
    BY <2>1 DEF printString
  <2>3. RemoveAt(printString, position + 1) =
          [i \in 1..(n - 1) |-> IF i < position + 1 THEN printString[i]
                                ELSE printString[i + 1]]
    BY <1>0, <2>0, RemoveAtIs
  <2>4. ASSUME NEW i \in 1..(n - 1)
        PROVE  atoms'[i].value = IF i < position + 1 THEN printString[i]
                                 ELSE printString[i + 1]
    <3>1. i \in 1..n /\ i + 1 \in 1..n
      BY <1>0
    <3> QED BY <1>0, <2>1, <3>1
  <2> QED BY <1>0, <1>1, <2>2, <2>3, <2>4
<1>2. CASE ~(position < n)
  BY <1>0, <1>2, DeleteStep DEF printString
<1> QED BY <1>1, <1>2

\* The LSEQ object implements the text buffer: every call of the component
\* changes the text at the position it names and nowhere else.
THEOREM TextTheorem == Spec => RefinesTextBuffer
<1>1. Init => Buffer!Init
  BY DEF Init, Buffer!Init, printString
<1>2. IInv /\ [Next]_vars => [Buffer!Next]_<<printString, call>>
  <2> SUFFICES ASSUME IInv, [Next]_vars
               PROVE  [Buffer!Next]_<<printString, call>>
    OBVIOUS
  <2>0. Len(printString) = Len(atoms)
    BY TextType DEF IInv, TypeOK
  <2>1. CASE Next
    <3>1. PICK position \in 0..Len(atoms) :
            (\E char \in Char : Insert(position, char)) \/ Delete(position)
      BY <2>1 DEF Next
    <3>2. ASSUME NEW char \in Char, Insert(position, char)
          PROVE  Buffer!InsertChar(position, char)
      <4>1. printString' = InsertAt(printString, position + 1, char)
        BY <3>2, InsertText
      <4> QED BY <3>2, <4>1
              DEF Insert, InsertAt, Buffer!InsertChar, Buffer!InsertAt
    <3>3. ASSUME Delete(position)
          PROVE  Buffer!DeleteChar(position)
      <4>1. printString' = IF position < Len(printString)
                           THEN RemoveAt(printString, position + 1)
                           ELSE printString
        BY <3>3, DeleteText
      <4> QED BY <3>3, <4>1
              DEF Delete, RemoveAt, Buffer!DeleteChar, Buffer!RemoveAt
    <3> QED BY <2>0, <3>1, <3>2, <3>3 DEF Buffer!Next
  <2>2. CASE UNCHANGED vars
    BY <2>2 DEF vars, printString
  <2> QED BY <2>1, <2>2
<1> QED BY <1>1, <1>2, LseqInvariant, PTL
        DEF Spec, RefinesTextBuffer, Buffer!Spec
=============================================================================
