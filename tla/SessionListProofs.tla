-------------------------- MODULE SessionListProofs --------------------------
(***************************************************************************)
(* What the helpers on lists of sessions return, for any list: a session   *)
(* is found if and only if it occurs, and appending or leaving one out     *)
(* changes by one how often it occurs, and nothing else.                   *)
(***************************************************************************)
EXTENDS SessionList, FiniteSetTheorems, SequenceTheorems,
        WellFoundedInduction, TLAPS

\* Every set of natural numbers that is not empty has a least element.
LEMMA LeastNumber ==
    ASSUME NEW T \in SUBSET Nat, T # {}
    PROVE  \E least \in T : \A n \in T : least <= n
<1> DEFINE R == {p \in Nat \X Nat : p[1] < p[2]}
<1>1. IsWellFoundedOn(R, Nat)
  <2>1. R = OpToRel(<, Nat)
    BY DEF OpToRel
  <2> QED BY <2>1, NatLessThanWellFounded
<1>2. \A m, n \in Nat : m < n => <<m, n>> \in R
  OBVIOUS
<1>. HIDE DEF R
<1>3. PICK least \in T : \A n \in T : <<n, least>> \notin R
  BY <1>1, WFMin
<1>4. \A n \in T : ~(n < least)
  BY <1>2, <1>3
<1>. QED BY <1>4

\* searchIndex finds the first occurrence if there is one.
LEMMA SearchIndexIs ==
    ASSUME NEW S, NEW list \in Seq(S), NEW session
    PROVE  LET idx == searchIndex(session, list)
           IN  \/ idx = 0 /\ \A i \in 1..Len(list) : list[i] # session
               \/ /\ idx \in 1..Len(list) /\ list[idx] = session
                  /\ \A j \in 1..(idx - 1) : list[j] # session
<1> DEFINE at == {i \in 1..Len(list) : list[i] = session}
           first == {i \in DOMAIN list :
                       /\ list[i] = session
                       /\ \A j \in 1..(i-1) : list[j] # session}
<1>0. DOMAIN list = 1..Len(list) /\ Len(list) \in Nat
  OBVIOUS
<1>1. CASE at = {}
  <2>1. first = {}
    BY <1>0, <1>1
  <2>. QED BY <1>1, <2>1 DEF searchIndex
<1>2. CASE at # {}
  <2>1. PICK least \in at : \A n \in at : least <= n
    <3>1. at \in SUBSET Nat
      OBVIOUS
    <3>. HIDE DEF at
    <3>. QED BY <1>2, <3>1, LeastNumber
  <2>2. \A j \in 1..(least - 1) : j \in 1..Len(list) /\ ~(least <= j)
    BY <2>1, <1>0
  <2>3. least \in first
    BY <2>1, <2>2, <1>0
  <2>4. (CHOOSE i \in first : TRUE) \in first
    BY <2>3
  <2>5. searchIndex(session, list) = CHOOSE i \in first : TRUE
    BY <2>3 DEF searchIndex
  <2>. QED BY <2>4, <2>5, <1>0
<1>. QED BY <1>1, <1>2

\* A session that is left out was there, and the others keep their places
\* before and after it.
LEMMA WithoutSessionIs ==
    ASSUME NEW S, NEW list \in Seq(S), NEW session
    PROVE  LET k == searchIndex(session, list)
               rest == WithoutSession(list, session)
           IN  /\ rest \in Seq(S)
               /\ k = 0 => rest = list
               /\ k # 0 =>
                    /\ k \in 1..Len(list) /\ list[k] = session
                    /\ Len(rest) = Len(list) - 1
                    /\ \A i \in 1..(Len(list) - 1) :
                         rest[i] = IF i < k THEN list[i] ELSE list[i + 1]
<1> DEFINE k == searchIndex(session, list)
<1>1. CASE k = 0
  BY <1>1 DEF WithoutSession
<1>2. CASE k # 0
  <2> DEFINE before == SubSeq(list, 1, k - 1)
             after == SubSeq(list, k + 1, Len(list))
  <2>1. k \in 1..Len(list) /\ list[k] = session
    BY <1>2, SearchIndexIs
  <2>2. WithoutSession(list, session) = before \o after
    BY <1>2 DEF WithoutSession, RemoveAt
  <2>. HIDE DEF k
  <2>3. Len(list) \in Nat /\ k \in Nat \ {0} /\ k <= Len(list)
    BY <2>1
  <2>4. /\ before \in Seq(S) /\ Len(before) = k - 1
        /\ \A i \in 1..(k-1) : before[i] = list[i]
    BY <2>3
  <2>5. /\ after \in Seq(S) /\ Len(after) = Len(list) - k
        /\ \A i \in 1..(Len(list) - k) : after[i] = list[k + i]
    BY <2>3
  <2>. HIDE DEF before, after
  <2>6. /\ before \o after \in Seq(S)
        /\ Len(before \o after) = Len(list) - 1
        /\ \A i \in 1..(Len(list) - 1) : (before \o after)[i] =
             IF i < k THEN before[i] ELSE after[i - (k - 1)]
    <3>1. /\ Len(before) + Len(after) = Len(list) - 1
          /\ \A i \in Nat : i <= Len(before) <=> i < k
      BY <2>3, <2>4, <2>5
    <3>2. /\ before \o after \in Seq(S)
          /\ Len(before \o after) = Len(before) + Len(after)
          /\ \A i \in 1..(Len(before) + Len(after)) : (before \o after)[i] =
               IF i <= Len(before) THEN before[i] ELSE after[i - Len(before)]
      BY <2>4, <2>5, ConcatProperties
    <3>. QED BY <2>3, <2>4, <3>1, <3>2
  <2>7. ASSUME NEW i \in 1..(Len(list) - 1)
        PROVE  (before \o after)[i] = IF i < k THEN list[i] ELSE list[i + 1]
    <3>1. CASE i < k
      BY <2>3, <2>4, <2>6, <3>1
    <3>2. CASE ~(i < k)
      <4>1. i - (k - 1) \in 1..(Len(list) - k) /\ k + (i - (k - 1)) = i + 1
        BY <2>3, <3>2
      <4> QED BY <2>3, <2>5, <2>6, <3>2, <4>1
    <3>. QED BY <3>1, <3>2
  <2>. QED BY <1>2, <2>1, <2>2, <2>6, <2>7 DEF k
<1>. QED BY <1>1, <1>2

-----------------------------------------------------------------------------
(* How often a session occurs.                                             *)

At(s, list) == {i \in DOMAIN list : list[i] = s}

\* The places where a session occurs are finitely many, and counting them is
\* counting its occurrences.
LEMMA AtFinite ==
    ASSUME NEW S, NEW list \in Seq(S), NEW s
    PROVE  /\ IsFiniteSet(At(s, list)) /\ At(s, list) \subseteq 1..Len(list)
           /\ Occurrences(s, list) = Cardinality(At(s, list))
           /\ Occurrences(s, list) \in Nat
<1>1. At(s, list) \subseteq 1..Len(list) /\ Len(list) \in Nat
  BY DEF At
<1>2. IsFiniteSet(At(s, list))
  <2>1. 1 \in Int /\ Len(list) \in Int
    BY <1>1
  <2>2. IsFiniteSet(1..Len(list))
    BY <2>1, FS_Interval
  <2>. QED BY <1>1, <2>2, FS_Subset
<1>3. Occurrences(s, list) = Cardinality(At(s, list))
  BY DEF Occurrences, At
<1>. QED BY <1>1, <1>2, <1>3, FS_CardinalityType

\* A session occurs in a list if searchIndex finds it, and not otherwise.
LEMMA OccursIf ==
    ASSUME NEW S, NEW list \in Seq(S), NEW s
    PROVE  /\ Occurrences(s, list) # 0 <=> searchIndex(s, list) # 0
           /\ Contains(list, s) <=> Occurrences(s, list) # 0
           /\ s \in ToSet(list) <=> Occurrences(s, list) # 0
<1>1. Occurrences(s, list) # 0 <=> At(s, list) # {}
  BY AtFinite, FS_EmptySet
<1>2. At(s, list) # {} <=> \E i \in 1..Len(list) : list[i] = s
  BY DEF At
<1>3. DOMAIN list = 1..Len(list)
  OBVIOUS
<1>4. searchIndex(s, list) # 0 <=> \E i \in 1..Len(list) : list[i] = s
  BY SearchIndexIs
<1>. QED BY <1>1, <1>2, <1>3, <1>4 DEF Contains, ToSet

\* In the list of a key that is absent nothing occurs.
LEMMA OccursNowhere == \A s : Occurrences(s, <<>>) = 0
<1>1. \A s : At(s, <<>>) = {}
  BY DEF At
<1>. QED BY <1>1, FS_EmptySet DEF Occurrences, At

\* Appending a session adds an occurrence of it and of no other.
LEMMA OccursAppended ==
    ASSUME NEW S, NEW list \in Seq(S), NEW x \in S, NEW s
    PROVE  Occurrences(s, Append(list, x)) =
             IF s = x THEN Occurrences(s, list) + 1 ELSE Occurrences(s, list)
<1> DEFINE n == Len(list) + 1
           longer == Append(list, x)
<1>1. /\ longer \in Seq(S) /\ Len(longer) = n
      /\ \A i \in 1..Len(list) : longer[i] = list[i]
      /\ longer[n] = x /\ Len(list) \in Nat
  OBVIOUS
<1>2. DOMAIN longer = 1..n /\ DOMAIN list = 1..Len(list)
  BY <1>1
<1>. HIDE DEF longer
<1>3. At(s, longer) = IF s = x THEN At(s, list) \cup {n} ELSE At(s, list)
  BY <1>1, <1>2 DEF At
<1>4. n \notin At(s, list)
  BY <1>1, AtFinite
<1>5. Cardinality(At(s, list) \cup {n}) = Cardinality(At(s, list)) + 1
  BY <1>4, AtFinite, FS_AddElement
<1>. QED BY <1>1, <1>3, <1>5, AtFinite DEF longer

\* Leaving a session out removes an occurrence of it, if there is one, and of
\* no other.
LEMMA OccursWithout ==
    ASSUME NEW S, NEW list \in Seq(S), NEW x, NEW s
    PROVE  Occurrences(s, WithoutSession(list, x)) =
             IF s = x /\ searchIndex(x, list) # 0
             THEN Occurrences(s, list) - 1 ELSE Occurrences(s, list)
<1> DEFINE k == searchIndex(x, list)
           rest == WithoutSession(list, x)
<1>1. CASE k = 0
  BY <1>1, WithoutSessionIs
<1>2. CASE k # 0
  <2>1. /\ rest \in Seq(S) /\ Len(rest) = Len(list) - 1
        /\ k \in 1..Len(list) /\ list[k] = x /\ Len(list) \in Nat
        /\ \A i \in 1..(Len(list) - 1) :
             rest[i] = IF i < k THEN list[i] ELSE list[i + 1]
    BY <1>2, WithoutSessionIs
  <2>2. DOMAIN rest = 1..(Len(list) - 1) /\ DOMAIN list = 1..Len(list)
    BY <2>1
  <2>. HIDE DEF rest, k
  <2> DEFINE A == At(s, rest)
             B == At(s, list) \ {k}
             f == [i \in A |-> IF i < k THEN i ELSE i + 1]
             g == [j \in B |-> IF j < k THEN j ELSE j - 1]
  <2>3. \A i \in A : f[i] \in B
    <3>1. \A i \in 1..(Len(list) - 1) :
            i < k \/ (i + 1 \in 1..Len(list) /\ i + 1 # k)
      BY <2>1
    <3>. QED BY <2>1, <2>2, <3>1 DEF At
  <2>4. \A j \in B : g[j] \in A /\ f[g[j]] = j
    <3>. SUFFICES ASSUME NEW j \in B PROVE g[j] \in A /\ f[g[j]] = j
      OBVIOUS
    <3>1. j \in 1..Len(list) /\ list[j] = s /\ j # k
      BY <2>2 DEF At
    <3>2. CASE j < k
      <4>1. j \in 1..(Len(list) - 1) /\ rest[j] = s
        BY <2>1, <3>1, <3>2
      <4>. QED BY <2>2, <3>2, <4>1 DEF At
    <3>3. CASE ~(j < k)
      <4>1. j - 1 \in 1..(Len(list) - 1) /\ ~(j - 1 < k) /\ (j - 1) + 1 = j
        BY <2>1, <3>1, <3>3
      <4>2. rest[j - 1] = s
        BY <2>1, <3>1, <4>1
      <4>. QED BY <2>2, <3>3, <4>1, <4>2 DEF At
    <3>. QED BY <3>2, <3>3
  <2>5. \A i, j \in A : f[i] = f[j] => i = j
    <3>1. A \subseteq 1..(Len(list) - 1)
      BY <2>2 DEF At
    <3>. QED BY <2>1, <3>1
  <2>6. IsFiniteSet(A) /\ IsFiniteSet(At(s, list))
    BY <2>1, AtFinite
  <2>7. f \in Bijection(A, B)
    <3>1. f \in [A -> B]
      BY <2>3
    <3>2. \A b \in B : \E a \in A : f[a] = b
      BY <2>4
    <3>. HIDE DEF f, A, B
    <3>. QED BY <2>5, <3>1, <3>2 DEF Bijection, Injection, Surjection, IsInjective
  <2>8. Cardinality(B) = Cardinality(A)
    <3>. HIDE DEF f, A, B
    <3>. QED BY <2>6, <2>7, FS_Bijection DEF ExistsBijection
  <2>9. Cardinality(B) = IF k \in At(s, list)
                         THEN Cardinality(At(s, list)) - 1
                         ELSE Cardinality(At(s, list))
    BY <2>6, FS_RemoveElement
  <2>10. k \in At(s, list) <=> s = x
    BY <2>1, <2>2 DEF At
  <2>11. Occurrences(s, rest) = Cardinality(A)
    BY <2>1, AtFinite
  <2>12. Occurrences(s, list) = Cardinality(At(s, list))
    BY AtFinite
  <2>. QED BY <1>2, <2>8, <2>9, <2>10, <2>11, <2>12 DEF rest, k
<1>. QED BY <1>1, <1>2

\* Taking the head off a list removes the first of its occurrences.
LEMMA OccursTail ==
    ASSUME NEW S, NEW list \in Seq(S), list # <<>>, NEW s
    PROVE  /\ Occurrences(s, Tail(list)) = IF s = Head(list)
                                          THEN Occurrences(s, list) - 1
                                          ELSE Occurrences(s, list)
           /\ Occurrences(Head(list), list) # 0
<1> DEFINE rest == WithoutSession(list, Head(list))
<1>1. /\ Len(list) \in Nat \ {0} /\ Head(list) = list[1]
      /\ Tail(list) \in Seq(S) /\ Len(Tail(list)) = Len(list) - 1
      /\ \A i \in 1..(Len(list) - 1) : Tail(list)[i] = list[i + 1]
  OBVIOUS
<1>2. searchIndex(Head(list), list) = 1
  <2>1. PICK k : k = searchIndex(Head(list), list)
    OBVIOUS
  <2>2. 1 \in 1..Len(list)
    BY <1>1
  <2>3. k \in 1..Len(list) /\ \A j \in 1..(k - 1) : list[j] # list[1]
    BY <1>1, <2>1, <2>2, SearchIndexIs
  <2>4. 1 \notin 1..(k - 1)
    BY <2>3
  <2>. QED BY <2>1, <2>3, <2>4
<1>3. /\ rest \in Seq(S) /\ Len(rest) = Len(list) - 1
      /\ \A i \in 1..(Len(list) - 1) : rest[i] = list[i + 1]
  <2>1. PICK k : k = searchIndex(Head(list), list)
    OBVIOUS
  <2>2. /\ rest \in Seq(S)
        /\ k # 0 => /\ Len(rest) = Len(list) - 1
                    /\ \A i \in 1..(Len(list) - 1) :
                         rest[i] = IF i < k THEN list[i] ELSE list[i + 1]
    BY <2>1, WithoutSessionIs
  <2>. HIDE DEF rest
  <2>3. k = 1 /\ \A i \in 1..(Len(list) - 1) : ~(i < 1)
    BY <1>1, <1>2, <2>1
  <2>. QED BY <2>2, <2>3
<1>. HIDE DEF rest
<1>4. rest = Tail(list)
  BY <1>1, <1>3, SeqEqual
<1>5. Occurrences(s, rest) = IF s = Head(list) /\ searchIndex(Head(list), list) # 0
                             THEN Occurrences(s, list) - 1
                             ELSE Occurrences(s, list)
  BY OccursWithout DEF rest
<1>6. Occurrences(Head(list), list) # 0
  BY <1>2, OccursIf
<1>. QED BY <1>2, <1>4, <1>5, <1>6
=============================================================================
