--------------------------- MODULE PositionsProofs ---------------------------
(***************************************************************************)
(* Facts about counting positions, finding the k-th one and picking the    *)
(* elements at them.  Induction on natural numbers takes the form of facts *)
(* about sets of numbers (SetInduction), which follow from the well-       *)
(* foundedness of strict inclusion on finite sets.                         *)
(***************************************************************************)
EXTENDS Positions, FiniteSetTheorems, SequenceTheorems, TLAPS

(***************************************************************************)
(* Least elements and induction                                            *)
(***************************************************************************)
\* A set of natural numbers that is not empty has a least element.
LEMMA Least ==
    ASSUME NEW S, S \subseteq Nat, S # {}
    PROVE  \E m \in S : \A k \in S : m <= k
<1> DEFINE T == {0..n : n \in S}
           R == StrictSubsetOrdering(Nat)
<1>1. IsWellFoundedOn(R, FiniteSubsetsOf(Nat))
  BY FS_StrictSubsetOrderingWellFounded
<1>2. T \subseteq FiniteSubsetsOf(Nat) /\ T # {}
  <2>1. \A n \in Nat : IsFiniteSet(0..n) /\ 0..n \subseteq Nat
    BY FS_Interval
  <2>2. \A n \in S : 0..n \in FiniteSubsetsOf(Nat)
    BY <2>1 DEF FiniteSubsetsOf
  <2> QED BY <2>2
<1>3. \E x \in T : \A y \in T : <<y, x>> \notin R
  <2> HIDE DEF R, T
  <2> QED BY <1>1, <1>2, WFMin
<1>4. PICK m \in S : \A y \in T : <<y, 0..m>> \notin R
  BY <1>3
<1>5. ASSUME NEW k \in S, k < m PROVE FALSE
  <2>1. m \in 0..m /\ m \notin 0..k /\ 0..k \subseteq 0..m
    BY <1>5
  <2>2. 0..k # 0..m
    BY <2>1
  <2>3. <<0..k, 0..m>> \in R
    BY <2>1, <2>2 DEF StrictSubsetOrdering
  <2> QED BY <2>3, <1>4
<1> QED BY <1>5

\* What holds of 0 and of the successor of whatever it holds of, holds of every number.
LEMMA SetInduction ==
    ASSUME NEW S, 0 \in S, \A n \in Nat : n \in S => n + 1 \in S
    PROVE  Nat \subseteq S
<1> SUFFICES ASSUME NEW x \in Nat, x \notin S PROVE FALSE
  OBVIOUS
<1>1. PICK m \in Nat \ S : \A k \in Nat \ S : m <= k
  BY Least
<1>2. m # 0 /\ m - 1 \in Nat /\ m - 1 \in S
  BY <1>1
<1> QED BY <1>1, <1>2

(***************************************************************************)
(* Counting                                                                *)
(***************************************************************************)
\* A set of positions of some sequence.
Bounded(S, n) == \A k \in S : k \in 1..n

IsPositions(S) == \E n \in Nat : Bounded(S, n)

\* Positions are finitely many and positive, and so are those up to a place.
LEMMA PositionsFinite ==
    ASSUME NEW S, IsPositions(S)
    PROVE  /\ IsFiniteSet(S) /\ Cardinality(S) \in Nat
           /\ \A k \in S : k \in Nat /\ k > 0 /\ k - 1 \in Nat
           /\ \A i : /\ IsFiniteSet({k \in S : k <= i})
                     /\ Count(S, i) \in Nat /\ Count(S, i) <= Cardinality(S)
<1>1. PICK n \in Nat : Bounded(S, n)
  BY DEF IsPositions
<1>2. IsFiniteSet(1..n)
  BY FS_Interval
<1>3. S \subseteq 1..n
  BY <1>1 DEF Bounded
<1>4. IsFiniteSet(S)
  BY <1>2, <1>3, FS_Subset
<1>5. \A T \in SUBSET S : IsFiniteSet(T) /\ Cardinality(T) <= Cardinality(S)
  BY <1>4, FS_Subset
<1>6. \A T \in SUBSET S : Cardinality(T) \in Nat
  BY <1>5, FS_CardinalityType
<1>7. \A k \in S : k \in Nat /\ k > 0 /\ k - 1 \in Nat
  BY <1>1 DEF Bounded
<1>8. ASSUME NEW i
      PROVE  /\ IsFiniteSet({k \in S : k <= i})
             /\ Count(S, i) \in Nat /\ Count(S, i) <= Cardinality(S)
  <2>1. {k \in S : k <= i} \in SUBSET S
    OBVIOUS
  <2> QED BY <2>1, <1>5, <1>6 DEF Count
<1>9. Cardinality(S) \in Nat
  BY <1>6
<1> QED BY <1>4, <1>7, <1>8, <1>9

\* Counting place by place.
LEMMA CountStep ==
    ASSUME NEW S, IsPositions(S)
    PROVE  /\ Count(S, 0) = 0
           /\ \A i \in Nat : i + 1 \in S => Count(S, i + 1) = Count(S, i) + 1
           /\ \A i \in Nat : i + 1 \notin S => Count(S, i + 1) = Count(S, i)
           /\ \A i \in S : Count(S, i) = Count(S, i - 1) + 1
           /\ \A i \in Int : (\A k \in S : k <= i) => Count(S, i) = Cardinality(S)
<1>0. \A k \in S : k \in Nat /\ k > 0 /\ k - 1 \in Nat
  BY PositionsFinite
<1>1. Count(S, 0) = 0
  <2>1. \A k \in S : ~(k <= 0)
    BY <1>0
  <2>2. {k \in S : k <= 0} = {}
    BY <2>1, Zenon
  <2> QED BY <2>2, FS_EmptySet DEF Count
<1>2. ASSUME NEW i \in Nat, i + 1 \in S PROVE Count(S, i + 1) = Count(S, i) + 1
  <2> DEFINE T == {k \in S : k <= i}
             U == {k \in S : k <= i + 1}
  <2>1. IsFiniteSet(T) /\ Cardinality(T) \in Nat
    BY PositionsFinite DEF Count
  <2>2. \A k \in S : k <= i + 1 <=> k <= i \/ k = i + 1
    BY <1>0
  <2>3. ~(i + 1 <= i)
    OBVIOUS
  <2>4. U = T \cup {i + 1}
    BY <2>2, <1>2, Zenon
  <2>5. i + 1 \notin T
    BY <2>3, Zenon
  <2> HIDE DEF T, U
  <2>6. Cardinality(U) = Cardinality(T) + 1
    BY <2>1, <2>4, <2>5, FS_AddElement
  <2> QED BY <2>6, Zenon DEF Count, T, U
<1>3. ASSUME NEW i \in Nat, i + 1 \notin S PROVE Count(S, i + 1) = Count(S, i)
  <2>1. \A k \in S : k <= i + 1 <=> k <= i
    BY <1>0, <1>3
  <2>2. {k \in S : k <= i + 1} = {k \in S : k <= i}
    BY <2>1, Zenon
  <2> QED BY <2>2, Zenon DEF Count
<1>4. ASSUME NEW i \in S PROVE Count(S, i) = Count(S, i - 1) + 1
  <2>1. i - 1 \in Nat /\ (i - 1) + 1 = i
    BY <1>0
  <2> QED BY <2>1, <1>2
<1>5. ASSUME NEW i \in Int, \A k \in S : k <= i PROVE Count(S, i) = Cardinality(S)
  <2>1. {k \in S : k <= i} = S
    BY <1>5, Zenon
  <2> QED BY <2>1, Zenon DEF Count
<1> QED BY <1>1, <1>2, <1>3, <1>4, <1>5

\* A count never falls, and rises at every position that is counted.
LEMMA CountMonotone ==
    ASSUME NEW S, IsPositions(S)
    PROVE  /\ \A i, j \in Int : i <= j => Count(S, i) <= Count(S, j)
           /\ \A i \in Int, j \in S : i < j => Count(S, i) < Count(S, j)
<1>0. /\ \A k \in S : k \in Nat /\ k > 0 /\ k - 1 \in Nat
      /\ \A i : Count(S, i) \in Nat
  BY PositionsFinite
<1>1. ASSUME NEW i \in Int, NEW j \in Int, i <= j PROVE Count(S, i) <= Count(S, j)
  <2>1. \A k \in S : k <= i => k <= j
    BY <1>0, <1>1
  <2>2. {k \in S : k <= i} \in SUBSET {k \in S : k <= j}
    BY <2>1, Zenon
  <2>3. IsFiniteSet({k \in S : k <= j})
    BY PositionsFinite
  <2> QED BY <2>2, <2>3, FS_Subset DEF Count
<1>2. ASSUME NEW i \in Int, NEW j \in S, i < j PROVE Count(S, i) < Count(S, j)
  <2>1. j - 1 \in Int /\ i <= j - 1
    BY <1>0, <1>2
  <2>2. Count(S, i) <= Count(S, j - 1)
    BY <1>1, <2>1
  <2>3. Count(S, j) = Count(S, j - 1) + 1
    BY CountStep
  <2> QED BY <1>0, <2>2, <2>3
<1> QED BY <1>1, <1>2

\* There are no more positions up to a place than places.
LEMMA CountUpTo ==
    ASSUME NEW S, IsPositions(S), NEW i \in Nat
    PROVE  Count(S, i) <= i
<1> DEFINE U == {j \in Nat : Count(S, j) <= j}
<1>1. 0 \in U
  BY CountStep
<1>2. ASSUME NEW j \in Nat, j \in U PROVE Count(S, j + 1) <= j + 1
  <2>1. \/ Count(S, j + 1) = Count(S, j) + 1
        \/ Count(S, j + 1) = Count(S, j)
    BY CountStep
  <2>2. Count(S, j) \in Nat /\ Count(S, j) <= j
    BY <1>2, PositionsFinite
  <2> HIDE DEF U
  <2> QED BY <2>1, <2>2
<1>3. \A j \in Nat : j \in U => j + 1 \in U
  BY <1>2
<1>4. Nat \subseteq U
  <2> HIDE DEF U
  <2> QED BY <1>1, <1>3, SetInduction
<1> QED BY <1>4

\* Nth and Count are inverse to each other.
LEMMA NthProperties ==
    ASSUME NEW S, IsPositions(S)
    PROVE  /\ \A k \in 1..Cardinality(S) : Nth(S, k) \in S /\ Count(S, Nth(S, k)) = k
           /\ \A i \in S : Count(S, i) \in 1..Cardinality(S) /\ Nth(S, Count(S, i)) = i
<1>0. /\ \A k \in S : k \in Nat /\ k > 0 /\ k - 1 \in Nat
      /\ \A i : Count(S, i) \in Nat /\ Count(S, i) <= Cardinality(S)
      /\ Cardinality(S) \in Nat
  BY PositionsFinite
<1>1. ASSUME NEW k \in 1..Cardinality(S) PROVE \E i \in S : Count(S, i) = k
  <2> DEFINE T == {i \in Nat : Count(S, i) >= k}
  <2>1. PICK n \in Nat : Bounded(S, n)
    BY DEF IsPositions
  <2>2. \A j \in S : j <= n
    BY <2>1 DEF Bounded
  <2>3. n \in T
    BY <2>2, CountStep, <1>0
  <2>4. PICK i \in T : \A m \in T : i <= m
    <3> HIDE DEF T
    <3>1. T \subseteq Nat
      BY DEF T
    <3> QED BY <2>3, <3>1, Least
  <2>5. i # 0
    BY CountStep, <1>0
  <2>6. i - 1 \in Nat /\ (i - 1) + 1 = i
    BY <2>5
  <2>7. i - 1 \notin T
    BY <2>4, <2>6
  <2>8. Count(S, i - 1) < k
    BY <2>6, <2>7, <1>0
  <2>9. \/ i \in S /\ Count(S, i) = Count(S, i - 1) + 1
        \/ Count(S, i) = Count(S, i - 1)
    BY <2>6, CountStep
  <2> QED BY <2>6, <2>8, <2>9, <1>0
<1>2. \A k \in 1..Cardinality(S) : Nth(S, k) \in S /\ Count(S, Nth(S, k)) = k
  BY <1>1 DEF Nth
<1>3. ASSUME NEW i \in S, NEW j \in S, Count(S, i) = Count(S, j) PROVE i = j
  <2>1. i \in Int /\ j \in Int
    BY <1>0
  <2>2. i < j => Count(S, i) < Count(S, j)
    BY <2>1, CountMonotone
  <2>3. j < i => Count(S, j) < Count(S, i)
    BY <2>1, CountMonotone
  <2> QED BY <1>3, <2>1, <2>2, <2>3, <1>0
<1>4. ASSUME NEW i \in S PROVE Count(S, i) \in 1..Cardinality(S)
  <2>1. Count(S, 0) < Count(S, i)
    BY <1>0, CountMonotone
  <2> QED BY <2>1, CountStep, <1>0
<1>5. ASSUME NEW i \in S PROVE Nth(S, Count(S, i)) = i
  <2>1. Nth(S, Count(S, i)) \in S /\ Count(S, Nth(S, Count(S, i))) = Count(S, i)
    BY <1>2, <1>4
  <2> QED BY <2>1, <1>3
<1> QED BY <1>2, <1>4, <1>5

\* Picking gives one element for each position, each at the place it is counted.
LEMMA PickProperties ==
    ASSUME NEW X, NEW seq \in Seq(X), NEW S, Bounded(S, Len(seq))
    PROVE  /\ IsPositions(S)
           /\ Pick(seq, S) \in Seq(X)
           /\ Len(Pick(seq, S)) = Cardinality(S)
           /\ DOMAIN Pick(seq, S) = 1..Cardinality(S)
           /\ \A k \in 1..Cardinality(S) : Pick(seq, S)[k] = seq[Nth(S, k)]
           /\ \A i \in S : Pick(seq, S)[Count(S, i)] = seq[i]
<1>1. IsPositions(S)
  BY LenProperties DEF IsPositions
<1>2. Cardinality(S) \in Nat
  BY <1>1, PositionsFinite
<1>3. \A k \in 1..Cardinality(S) : Nth(S, k) \in 1..Len(seq)
  BY <1>1, NthProperties DEF Bounded
<1>4. \A k \in 1..Cardinality(S) : seq[Nth(S, k)] \in X
  BY <1>3, ElementOfSeq
<1>5. Pick(seq, S) \in Seq(X) /\ Len(Pick(seq, S)) = Cardinality(S)
  BY <1>2, <1>4 DEF Pick
<1>6. \A k \in 1..Cardinality(S) : Pick(seq, S)[k] = seq[Nth(S, k)]
  BY DEF Pick
<1>7. \A i \in S : Count(S, i) \in 1..Cardinality(S) /\ Nth(S, Count(S, i)) = i
  BY <1>1, NthProperties
<1> QED BY <1>1, <1>5, <1>6, <1>7 DEF Pick

(***************************************************************************)
(* Stretches: the positions that lie behind place p, counted from p        *)
(***************************************************************************)
Stretch(T, S, p, m) == Bounded(T, m) /\ \A i \in 1..m : i \in T <=> p + i \in S

\* Inside a stretch, counting and finding go on from where the stretch begins.
LEMMA CountStretch ==
    ASSUME NEW S, IsPositions(S), NEW p \in Nat, NEW m \in Nat, NEW T, Stretch(T, S, p, m)
    PROVE  /\ IsPositions(T)
           /\ \A i \in 0..m : Count(S, p + i) = Count(S, p) + Count(T, i)
           /\ Count(S, p + m) = Count(S, p) + Cardinality(T)
           /\ \A k \in 1..Cardinality(T) : Nth(S, Count(S, p) + k) = p + Nth(T, k)
<1>1. IsPositions(T)
  BY DEF IsPositions, Stretch
<1>2. /\ \A i : Count(S, i) \in Nat
      /\ \A i : Count(T, i) \in Nat
  BY <1>1, PositionsFinite
<1>3. ASSUME NEW i \in 0..m PROVE Count(S, p + i) = Count(S, p) + Count(T, i)
  <2> DEFINE U == {j \in Nat : j <= m => Count(S, p + j) = Count(S, p) + Count(T, j)}
  <2>1. 0 \in U
    BY <1>1, <1>2, CountStep
  <2>2. ASSUME NEW j \in Nat, j \in U, j + 1 <= m
        PROVE  Count(S, p + (j + 1)) = Count(S, p) + Count(T, j + 1)
    <3>1. Count(S, p + j) = Count(S, p) + Count(T, j)
      BY <2>2
    <3>2. j + 1 \in T <=> p + (j + 1) \in S
      BY <2>2 DEF Stretch
    <3>3. p + j \in Nat /\ p + (j + 1) = (p + j) + 1
      OBVIOUS
    <3>4. CASE j + 1 \in T
      <4>1. Count(T, j + 1) = Count(T, j) + 1
        BY <1>1, <3>4, CountStep
      <4>2. Count(S, p + (j + 1)) = Count(S, p + j) + 1
        BY <3>2, <3>3, <3>4, CountStep
      <4> QED BY <3>1, <4>1, <4>2, <1>2
    <3>5. CASE j + 1 \notin T
      <4>1. Count(T, j + 1) = Count(T, j)
        BY <1>1, <3>5, CountStep
      <4>2. Count(S, p + (j + 1)) = Count(S, p + j)
        BY <3>2, <3>3, <3>5, CountStep
      <4> QED BY <3>1, <4>1, <4>2, <1>2
    <3> QED BY <3>4, <3>5
  <2>3. \A j \in Nat : j \in U => j + 1 \in U
    BY <2>2
  <2>4. Nat \subseteq U
    <3> HIDE DEF U
    <3> QED BY <2>1, <2>3, SetInduction
  <2>5. i \in U
    BY <2>4
  <2> QED BY <2>5
<1>4. Count(T, m) = Cardinality(T)
  <2>1. \A k \in T : k <= m
    BY DEF Stretch, Bounded
  <2> QED BY <1>1, <2>1, CountStep
<1>5. ASSUME NEW k \in 1..Cardinality(T)
      PROVE  Nth(S, Count(S, p) + k) = p + Nth(T, k)
  <2>1. Nth(T, k) \in T /\ Count(T, Nth(T, k)) = k
    BY <1>1, NthProperties
  <2>2. Nth(T, k) \in 1..m /\ p + Nth(T, k) \in S
    BY <2>1 DEF Stretch, Bounded
  <2>3. Count(S, p + Nth(T, k)) = Count(S, p) + k
    BY <1>3, <2>1, <2>2
  <2> QED BY <2>2, <2>3, NthProperties
<1> QED BY <1>1, <1>3, <1>4, <1>5

\* The part of a sequence behind place p, m elements long.
LEMMA PartProperties ==
    ASSUME NEW X, NEW seq \in Seq(X), NEW p \in Nat, NEW m \in Nat, p + m <= Len(seq)
    PROVE  /\ SubSeq(seq, p + 1, p + m) \in Seq(X)
           /\ Len(SubSeq(seq, p + 1, p + m)) = m
           /\ DOMAIN SubSeq(seq, p + 1, p + m) = 1..m
           /\ \A i \in 1..m : SubSeq(seq, p + 1, p + m)[i] = seq[p + i]
<1>1. \A i \in (p + 1)..(p + m) : seq[i] \in X
  <2>1. Len(seq) \in Nat
    BY LenProperties
  <2> QED BY <2>1, ElementOfSeq
<1>2. /\ p + 1 \in Int /\ p + m \in Int
      /\ (IF p + 1 <= p + m THEN (p + m) - (p + 1) + 1 ELSE 0) = m
      /\ (p + m) - (p + 1) + 1 = m
  OBVIOUS
<1>3. /\ SubSeq(seq, p + 1, p + m) \in Seq(X)
      /\ Len(SubSeq(seq, p + 1, p + m)) = m
  BY <1>1, <1>2, SubSeqProperties
<1>4. ASSUME NEW i \in 1..m PROVE SubSeq(seq, p + 1, p + m)[i] = seq[p + i]
  <2>1. i \in 1..((p + m) - (p + 1) + 1) /\ (p + 1) + i - 1 = p + i
    OBVIOUS
  <2>2. SubSeq(seq, p + 1, p + m)[i] = seq[(p + 1) + i - 1]
    BY <1>1, <1>2, <2>1, SubSeqProperties
  <2> QED BY <2>1, <2>2
<1> QED BY <1>3, <1>4, LenProperties

\* The same part by its two ends.
LEMMA PartUpTo ==
    ASSUME NEW X, NEW seq \in Seq(X), NEW p \in Nat, NEW e \in Nat, p <= e, e <= Len(seq)
    PROVE  /\ SubSeq(seq, p + 1, e) \in Seq(X)
           /\ Len(SubSeq(seq, p + 1, e)) = e - p
           /\ DOMAIN SubSeq(seq, p + 1, e) = 1..(e - p)
           /\ \A i \in 1..(e - p) : SubSeq(seq, p + 1, e)[i] = seq[p + i]
<1> DEFINE m == e - p
<1>1. m \in Nat /\ p + m = e /\ p + m <= Len(seq)
  OBVIOUS
<1> HIDE DEF m
<1>2. /\ SubSeq(seq, p + 1, p + m) \in Seq(X)
      /\ Len(SubSeq(seq, p + 1, p + m)) = m
      /\ DOMAIN SubSeq(seq, p + 1, p + m) = 1..m
      /\ \A i \in 1..m : SubSeq(seq, p + 1, p + m)[i] = seq[p + i]
  BY <1>1, PartProperties
<1> QED BY <1>1, <1>2 DEF m

\* A part of a part is a part of the whole.
LEMMA PartOfPart ==
    ASSUME NEW X, NEW seq \in Seq(X), NEW s \in Nat, NEW n \in Nat, s + n <= Len(seq),
           NEW p \in Nat, NEW m \in Nat, p + m <= n
    PROVE  SubSeq(SubSeq(seq, s + 1, s + n), p + 1, p + m) = SubSeq(seq, s + p + 1, s + p + m)
<1> DEFINE part == SubSeq(seq, s + 1, s + n)
           q == s + p
<1>1. /\ part \in Seq(X) /\ Len(part) = n
      /\ \A i \in 1..n : part[i] = seq[s + i]
  BY PartProperties
<1>2. /\ SubSeq(part, p + 1, p + m) \in Seq(X) /\ Len(SubSeq(part, p + 1, p + m)) = m
      /\ \A i \in 1..m : SubSeq(part, p + 1, p + m)[i] = part[p + i]
  <2> HIDE DEF part
  <2> QED BY <1>1, PartProperties
<1>3. q \in Nat /\ q + m <= Len(seq)
  <2>1. Len(seq) \in Nat
    BY LenProperties
  <2> QED BY <2>1
<1>4. /\ SubSeq(seq, q + 1, q + m) \in Seq(X) /\ Len(SubSeq(seq, q + 1, q + m)) = m
      /\ \A i \in 1..m : SubSeq(seq, q + 1, q + m)[i] = seq[q + i]
  <2> HIDE DEF q
  <2> QED BY <1>3, PartProperties
<1>5. \A i \in 1..m : p + i \in 1..n /\ s + (p + i) = q + i
  OBVIOUS
<1> HIDE DEF part, q
<1>6. \A i \in 1..m : SubSeq(part, p + 1, p + m)[i] = SubSeq(seq, q + 1, q + m)[i]
  BY <1>1, <1>2, <1>4, <1>5
<1>7. SubSeq(part, p + 1, p + m) = SubSeq(seq, q + 1, q + m)
  BY <1>2, <1>4, <1>6, SeqEqual
<1> QED BY <1>7 DEF part, q

\* Picking from a stretch gives a stretch of what is picked.
LEMMA PickStretch ==
    ASSUME NEW X, NEW seq \in Seq(X), NEW S, Bounded(S, Len(seq)),
           NEW p \in Nat, NEW m \in Nat, p + m <= Len(seq), NEW T, Stretch(T, S, p, m)
    PROVE  Pick(SubSeq(seq, p + 1, p + m), T) =
              SubSeq(Pick(seq, S), Count(S, p) + 1, Count(S, p + m))
<1> DEFINE part == SubSeq(seq, p + 1, p + m)
           lo   == Count(S, p)
           hi   == Count(S, p + m)
<1>1. Len(seq) \in Nat /\ IsPositions(S)
  BY LenProperties, PickProperties
<1>2. /\ part \in Seq(X) /\ Len(part) = m
      /\ \A i \in 1..m : part[i] = seq[p + i]
  BY PartProperties
<1>3. /\ IsPositions(T) /\ Bounded(T, m) /\ Cardinality(T) \in Nat
      /\ hi = lo + Cardinality(T)
      /\ \A k \in 1..Cardinality(T) : Nth(S, lo + k) = p + Nth(T, k)
  <2>1. IsPositions(T) /\ hi = lo + Cardinality(T)
    BY <1>1, CountStretch
  <2>2. \A k \in 1..Cardinality(T) : Nth(S, lo + k) = p + Nth(T, k)
    BY <1>1, CountStretch
  <2> QED BY <2>1, <2>2, PositionsFinite DEF Stretch
<1>4. lo \in Nat /\ hi \in Nat /\ hi <= Cardinality(S) /\ Cardinality(S) \in Nat
  BY <1>1, PositionsFinite
<1>5. /\ Pick(part, T) \in Seq(X) /\ Len(Pick(part, T)) = Cardinality(T)
      /\ \A k \in 1..Cardinality(T) : Pick(part, T)[k] = part[Nth(T, k)]
  <2> HIDE DEF part
  <2> QED BY <1>2, <1>3, PickProperties
<1>6. /\ Pick(seq, S) \in Seq(X) /\ Len(Pick(seq, S)) = Cardinality(S)
      /\ \A k \in 1..Cardinality(S) : Pick(seq, S)[k] = seq[Nth(S, k)]
  BY PickProperties
<1>7. /\ SubSeq(Pick(seq, S), lo + 1, hi) \in Seq(X)
      /\ Len(SubSeq(Pick(seq, S), lo + 1, hi)) = Cardinality(T)
      /\ \A k \in 1..Cardinality(T) : SubSeq(Pick(seq, S), lo + 1, hi)[k] = Pick(seq, S)[lo + k]
  <2> HIDE DEF lo, hi
  <2>1. lo + Cardinality(T) <= Len(Pick(seq, S))
    BY <1>3, <1>4, <1>6
  <2> QED BY <2>1, <1>3, <1>4, <1>6, PartProperties
<1>8. ASSUME NEW k \in 1..Cardinality(T)
      PROVE  Pick(part, T)[k] = SubSeq(Pick(seq, S), lo + 1, hi)[k]
  <2>1. Nth(T, k) \in 1..m
    BY <1>3, NthProperties DEF Bounded
  <2>2. Pick(part, T)[k] = seq[p + Nth(T, k)]
    BY <1>2, <1>5, <2>1
  <2>3. lo + k \in 1..Cardinality(S)
    BY <1>3, <1>4
  <2>4. Pick(seq, S)[lo + k] = seq[p + Nth(T, k)]
    BY <1>3, <1>6, <2>3
  <2> QED BY <1>7, <2>2, <2>4
<1> HIDE DEF part, lo, hi
<1>9. Pick(part, T) = SubSeq(Pick(seq, S), lo + 1, hi)
  BY <1>5, <1>7, <1>8, SeqEqual
<1> QED BY <1>9 DEF part, lo, hi

(***************************************************************************)
(* Ranks: where the positions T end up when the positions S are picked     *)
(***************************************************************************)
Ranks(T, S) == {Count(S, i) : i \in T}

\* Among the ranks of the positions T in S, counting and finding are those of T.
LEMMA CountRanks ==
    ASSUME NEW S, IsPositions(S), NEW T, T \subseteq S
    PROVE  /\ IsPositions(T) /\ IsPositions(Ranks(T, S)) /\ Bounded(Ranks(T, S), Cardinality(S))
           /\ \A i \in Nat : Count(Ranks(T, S), Count(S, i)) = Count(T, i)
           /\ Cardinality(Ranks(T, S)) = Cardinality(T)
           /\ \A k \in 1..Cardinality(T) : Nth(Ranks(T, S), k) = Count(S, Nth(T, k))
<1> DEFINE R == Ranks(T, S)
<1>0. /\ \A i : Count(S, i) \in Nat
      /\ Cardinality(S) \in Nat
      /\ \A k \in S : k \in Nat /\ k > 0 /\ k - 1 \in Nat
  BY PositionsFinite
<1>1. IsPositions(T)
  BY DEF IsPositions, Bounded
<1>2. Bounded(R, Cardinality(S)) /\ IsPositions(R)
  BY <1>0, NthProperties DEF Ranks, Bounded, IsPositions
<1>3. /\ \A i : Count(T, i) \in Nat
      /\ \A i : Count(R, i) \in Nat
  BY <1>1, <1>2, PositionsFinite
<1>4. ASSUME NEW i \in S PROVE Count(S, i) \in R <=> i \in T
  <2>1. ASSUME NEW j \in T, Count(S, j) = Count(S, i) PROVE i = j
    <3>1. Nth(S, Count(S, i)) = i /\ Nth(S, Count(S, j)) = j
      BY NthProperties
    <3> QED BY <2>1, <3>1
  <2> QED BY <2>1 DEF Ranks
<1>5. ASSUME NEW i \in Nat PROVE Count(R, Count(S, i)) = Count(T, i)
  <2> DEFINE U == {j \in Nat : Count(R, Count(S, j)) = Count(T, j)}
  <2>1. 0 \in U
    BY <1>1, <1>2, CountStep
  <2>2. ASSUME NEW j \in Nat, j \in U PROVE Count(R, Count(S, j + 1)) = Count(T, j + 1)
    <3>1. CASE j + 1 \notin S
      <4>1. Count(S, j + 1) = Count(S, j)
        BY <3>1, CountStep
      <4>2. Count(T, j + 1) = Count(T, j)
        BY <1>1, <3>1, CountStep
      <4> QED BY <2>2, <4>1, <4>2
    <3>2. CASE j + 1 \in S
      <4>1. Count(S, j + 1) = Count(S, j) + 1
        BY <3>2, CountStep
      <4>2. Count(S, j) + 1 \in R <=> j + 1 \in T
        BY <3>2, <4>1, <1>4
      <4>3. CASE j + 1 \in T
        <5>1. Count(R, Count(S, j) + 1) = Count(R, Count(S, j)) + 1
          BY <1>0, <1>2, <4>2, <4>3, CountStep
        <5>2. Count(T, j + 1) = Count(T, j) + 1
          BY <1>1, <4>3, CountStep
        <5> QED BY <2>2, <4>1, <5>1, <5>2
      <4>4. CASE j + 1 \notin T
        <5>1. Count(R, Count(S, j) + 1) = Count(R, Count(S, j))
          BY <1>0, <1>2, <4>2, <4>4, CountStep
        <5>2. Count(T, j + 1) = Count(T, j)
          BY <1>1, <4>4, CountStep
        <5> QED BY <2>2, <4>1, <5>1, <5>2
      <4> QED BY <4>3, <4>4
    <3> QED BY <3>1, <3>2
  <2>3. \A j \in Nat : j \in U => j + 1 \in U
    BY <2>2
  <2>4. Nat \subseteq U
    <3> HIDE DEF U
    <3> QED BY <2>1, <2>3, SetInduction
  <2>5. i \in U
    BY <2>4
  <2> QED BY <2>5
<1>6. Cardinality(R) = Cardinality(T)
  <2>1. PICK n \in Nat : Bounded(S, n)
    BY DEF IsPositions
  <2>2. (\A k \in S : k <= n) /\ \A k \in T : k <= n
    BY <2>1 DEF Bounded
  <2>3. Count(S, n) = Cardinality(S) /\ Count(T, n) = Cardinality(T)
    BY <1>1, <2>2, CountStep
  <2>4. \A k \in R : k <= Cardinality(S)
    BY <1>2 DEF Bounded
  <2>5. Count(R, Cardinality(S)) = Cardinality(R)
    BY <1>0, <1>2, <2>4, CountStep
  <2> QED BY <1>5, <2>3, <2>5
<1>7. ASSUME NEW k \in 1..Cardinality(T) PROVE Nth(R, k) = Count(S, Nth(T, k))
  <2>1. Nth(T, k) \in T /\ Count(T, Nth(T, k)) = k
    BY <1>1, NthProperties
  <2>2. Count(S, Nth(T, k)) \in R /\ Nth(T, k) \in Nat
    BY <1>0, <2>1 DEF Ranks
  <2>3. Count(R, Count(S, Nth(T, k))) = k
    BY <1>5, <2>1, <2>2
  <2> QED BY <1>2, <2>2, <2>3, NthProperties
<1> QED BY <1>1, <1>2, <1>5, <1>6, <1>7

\* Picking twice is picking once.
LEMMA PickTwice ==
    ASSUME NEW X, NEW seq \in Seq(X), NEW S, Bounded(S, Len(seq)), NEW T, T \subseteq S
    PROVE  Pick(Pick(seq, S), Ranks(T, S)) = Pick(seq, T)
<1> DEFINE R == Ranks(T, S)
           once == Pick(seq, S)
<1>1. /\ IsPositions(S) /\ once \in Seq(X) /\ Len(once) = Cardinality(S)
      /\ \A i \in S : once[Count(S, i)] = seq[i]
  BY PickProperties
<1>2. /\ IsPositions(T) /\ Bounded(R, Cardinality(S)) /\ Cardinality(R) = Cardinality(T)
      /\ \A k \in 1..Cardinality(T) : Nth(R, k) = Count(S, Nth(T, k))
  BY <1>1, CountRanks
<1>3. Bounded(T, Len(seq))
  BY DEF Bounded
<1> HIDE DEF once, R
<1>4. /\ Pick(once, R) \in Seq(X) /\ Len(Pick(once, R)) = Cardinality(T)
      /\ \A k \in 1..Cardinality(T) : Pick(once, R)[k] = once[Nth(R, k)]
  BY <1>1, <1>2, PickProperties
<1>5. /\ Pick(seq, T) \in Seq(X) /\ Len(Pick(seq, T)) = Cardinality(T)
      /\ \A k \in 1..Cardinality(T) : Pick(seq, T)[k] = seq[Nth(T, k)]
  BY <1>3, PickProperties
<1>6. ASSUME NEW k \in 1..Cardinality(T) PROVE Pick(once, R)[k] = Pick(seq, T)[k]
  <2>1. Nth(T, k) \in T
    BY <1>2, NthProperties
  <2> QED BY <2>1, <1>1, <1>2, <1>4, <1>5
<1>7. Pick(once, R) = Pick(seq, T)
  BY <1>4, <1>5, <1>6, SeqEqual
<1> QED BY <1>7 DEF once, R

=============================================================================
