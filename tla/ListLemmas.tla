----------------------------- MODULE ListLemmas -----------------------------
(***************************************************************************)
(* Facts about the lists of sinks and of announcements: what std::list's   *)
(* push_back and erase do to the number of entries of one sink.            *)
(***************************************************************************)
EXTENDS Integers, FiniteSets, SequencesExt, TLAPS, WellFoundedInduction,
        SequenceTheorems, FiniteSetTheorems, FunctionTheorems

\* A nonempty set of naturals has a smallest element, and Min chooses it.
LEMMA MinIsElement ==
  ASSUME NEW I, I \subseteq Nat, I # {}
  PROVE  Min(I) \in I /\ \A j \in I : Min(I) <= j
<1>1. \E m \in I : \A j \in I : <<j, m>> \notin OpToRel(<, Nat)
  BY NatLessThanWellFounded, WFMin, Zenon
<1>2. \A x, y \in Nat : x < y => <<x, y>> \in OpToRel(<, Nat)
  BY DEF OpToRel
<1>3. \E m \in I : \A j \in I : m <= j
  <2>1. PICK m \in I : \A j \in I : <<j, m>> \notin OpToRel(<, Nat)
    BY <1>1
  <2>2. \A j \in I : ~(j < m)
    BY <1>2, <2>1
  <2> QED
    BY <2>2
<1> QED
  BY <1>3 DEF Min

\* Erasing entry k of a list.
LEMMA RemoveAtProperties ==
  ASSUME NEW S, NEW s \in Seq(S), NEW k \in 1..Len(s)
  PROVE  /\ RemoveAt(s, k) \in Seq(S)
         /\ Len(RemoveAt(s, k)) = Len(s) - 1
         /\ \A i \in 1..Len(s) - 1 :
              RemoveAt(s, k)[i] = IF i < k THEN s[i] ELSE s[i + 1]
<1> DEFINE before == SubSeq(s, 1, k - 1)
           after == SubSeq(s, k + 1, Len(s))
<1>1. /\ before \in Seq(S) /\ Len(before) = k - 1
      /\ \A i \in 1..k - 1 : before[i] = s[i]
  <2>1. k - 1 \in Int /\ \A i \in 1..k - 1 : s[i] \in S
    OBVIOUS
  <2> QED
    BY <2>1, SubSeqProperties
<1>2. /\ after \in Seq(S) /\ Len(after) = Len(s) - k
      /\ \A i \in 1..Len(s) - k : after[i] = s[k + i]
  <2>1. k + 1 \in Int /\ Len(s) \in Int /\ \A i \in k + 1..Len(s) : s[i] \in S
    OBVIOUS
  <2>2. /\ after \in Seq(S)
        /\ Len(after) = IF k + 1 <= Len(s) THEN Len(s) - (k + 1) + 1 ELSE 0
        /\ \A i \in 1..Len(s) - (k + 1) + 1 : after[i] = s[k + 1 + i - 1]
    BY <2>1, SubSeqProperties
  <2> QED
    BY <2>2
<1>3. RemoveAt(s, k) = before \o after
  BY DEF RemoveAt
<1> QED
  <2> HIDE DEF before, after
  <2>1. /\ before \o after \in Seq(S)
        /\ Len(before \o after) = Len(before) + Len(after)
        /\ \A i \in 1..Len(before) + Len(after) : (before \o after)[i] =
             IF i <= Len(before) THEN before[i] ELSE after[i - Len(before)]
    BY <1>1, <1>2, ConcatProperties, Zenon
  <2>2. Len(before) + Len(after) = Len(s) - 1
    BY <1>1, <1>2
  <2>3. ASSUME NEW i \in 1..Len(s) - 1
        PROVE  (before \o after)[i] = IF i < k THEN s[i] ELSE s[i + 1]
    <3>1. CASE i < k
      BY <3>1, <2>1, <2>2, <1>1
    <3>2. CASE k <= i
      <4>1. (before \o after)[i] = after[i - (k - 1)]
        BY <3>2, <2>1, <2>2, <1>1
      <4>2. i - (k - 1) \in 1..Len(s) - k /\ k + (i - (k - 1)) = i + 1
        BY <3>2
      <4> QED
        BY <4>1, <4>2, <3>2, <1>2
    <3>3. i < k \/ k <= i
      <4>1. k \in Int /\ i \in Int
        OBVIOUS
      <4> QED
        BY <4>1
    <3> QED
      BY <3>1, <3>2, <3>3, Zenon
  <2> QED
    BY <1>3, <2>1, <2>2, <2>3

\* list::erase of the first entry equal to e: what is left is the same list
\* with that one entry gone.
LEMMA RemoveFirstProperties ==
  ASSUME NEW S, NEW s \in Seq(S), NEW e, \E i \in 1..Len(s) : s[i] = e
  PROVE  /\ RemoveFirst(s, e) \in Seq(S)
         /\ \E k \in 1..Len(s) : s[k] = e /\ RemoveFirst(s, e) = RemoveAt(s, k)
<1> DEFINE I == {i \in 1..Len(s) : s[i] = e}
           k == SelectInSeq(s, LAMBDA v : v = e)
<1>1. Min(I) \in I
  BY MinIsElement
<1>2. k = Min(I)
  BY DEF SelectInSeq
<1>3. k \in 1..Len(s) /\ s[k] = e
  BY <1>1, <1>2
<1>4. RemoveFirst(s, e) = RemoveAt(s, k)
  BY DEF RemoveFirst
<1>5. RemoveAt(s, k) \in Seq(S)
  BY <1>3, RemoveAtProperties
<1> QED
  BY <1>3, <1>4, <1>5

\* Taking one from a count leaves some exactly if there was more than one.
LEMMA MoreThanOne == ASSUME NEW n \in Nat, n # 0 PROVE n > 1 <=> n - 1 # 0
  OBVIOUS

\* Announcements are left after the first one exactly if there were several.
LEMMA TailIsEmpty ==
  ASSUME NEW S, NEW s \in Seq(S), s # <<>>
  PROVE  Len(s) > 1 <=> Tail(s) # <<>>
<1>1. /\ Tail(s) \in Seq(S) /\ Len(Tail(s)) = Len(s) - 1
      /\ Len(s) # 0 /\ Len(s) \in Nat
  BY HeadTailProperties, EmptySeq
<1>2. Tail(s) = <<>> <=> Len(Tail(s)) = 0
  BY <1>1, EmptySeq
<1> QED
  BY <1>1, <1>2, MoreThanOne, Zenon

-----------------------------------------------------------------------------
\* Positions of e in s.
Positions(s, e) == {i \in 1..Len(s) : s[i] = e}

\* A list has finitely many positions of an element, so their number is one.
LEMMA PositionsAreFinite ==
  ASSUME NEW S, NEW s \in Seq(S), NEW e
  PROVE  IsFiniteSet(Positions(s, e)) /\ Cardinality(Positions(s, e)) \in Nat
<1>1. IsFiniteSet(1..Len(s))
  BY FS_Interval
<1>2. Positions(s, e) \in SUBSET (1..Len(s))
  BY DEF Positions
<1> QED
  BY <1>1, <1>2, FS_Subset, FS_CardinalityType

\* push_back(x) adds one entry of x.
LEMMA CountAppend ==
  ASSUME NEW S, NEW s \in Seq(S), NEW x \in S, NEW e
  PROVE  Cardinality(Positions(Append(s, x), e)) =
           Cardinality(Positions(s, e)) + IF x = e THEN 1 ELSE 0
<1>1. CASE x = e
  <2>1. Positions(Append(s, x), e) = Positions(s, e) \union {Len(s) + 1}
    BY <1>1 DEF Positions
  <2>2. Len(s) + 1 \notin Positions(s, e)
    BY DEF Positions
  <2> QED
    BY <1>1, <2>1, <2>2, PositionsAreFinite, FS_AddElement
<1>2. CASE x # e
  <2>1. Positions(Append(s, x), e) = Positions(s, e)
    BY <1>2 DEF Positions
  <2> QED
    BY <1>2, <2>1, PositionsAreFinite
<1> QED
  BY <1>1, <1>2

\* Erasing entry k removes one entry of the sink that was there.
LEMMA CountRemoveAt ==
  ASSUME NEW S, NEW s \in Seq(S), NEW k \in 1..Len(s), NEW e
  PROVE  Cardinality(Positions(RemoveAt(s, k), e)) =
           Cardinality(Positions(s, e)) - IF s[k] = e THEN 1 ELSE 0
<1> DEFINE r == RemoveAt(s, k)
           A == Positions(r, e)
           B == Positions(s, e) \ {k}
           f == [i \in A |-> IF i < k THEN i ELSE i + 1]
<1>1. /\ r \in Seq(S) /\ Len(r) = Len(s) - 1
      /\ \A i \in 1..Len(s) - 1 : r[i] = IF i < k THEN s[i] ELSE s[i + 1]
  BY RemoveAtProperties
<1>2. f \in [A -> B] /\ \A a, b \in A : f[a] = f[b] => a = b
  BY <1>1 DEF Positions
<1>3. \A t \in B : \E a \in A : f[a] = t
  <2> SUFFICES ASSUME NEW t \in B PROVE \E a \in A : f[a] = t
    OBVIOUS
  <2>1. t \in 1..Len(s) /\ s[t] = e /\ t # k
    BY DEF Positions
  <2>2. CASE t < k
    <3>1. t \in A /\ f[t] = t
      BY <1>1, <2>1, <2>2 DEF Positions
    <3> QED
      BY <3>1
  <2>3. CASE k < t
    <3>1. t - 1 \in A /\ f[t - 1] = t
      BY <1>1, <2>1, <2>3 DEF Positions
    <3> QED
      BY <3>1
  <2> QED
    BY <2>1, <2>2, <2>3
<1> HIDE DEF f, A, B, r
<1>4. f \in Bijection(A, B)
  BY <1>2, <1>3, Fun_IsBij
<1>5. IsFiniteSet(A)
  BY <1>1, PositionsAreFinite DEF A
<1>6. Cardinality(B) = Cardinality(A)
  BY <1>4, <1>5, FS_Bijection DEF ExistsBijection
<1>7. Cardinality(B) = IF s[k] = e THEN Cardinality(Positions(s, e)) - 1
                                  ELSE Cardinality(Positions(s, e))
  <2>1. k \in Positions(s, e) <=> s[k] = e
    BY DEF Positions
  <2> QED
    BY <2>1, PositionsAreFinite, FS_RemoveElement DEF B
<1> QED
  BY <1>6, <1>7, PositionsAreFinite DEF A, r
=============================================================================
