------------------------ MODULE DatasetPreviewProofs ------------------------
(***************************************************************************)
(* Proofs about DatasetPreview: for files of any size, any chunk size and  *)
(* any window, the lazy reader returns the window of the whole file, takes *)
(* no chunk it does not need, and its pages tile the file.                 *)
(*                                                                         *)
(* What the reader sees is one fixed text, the chunks of the file decoded  *)
(* each by itself (Seen); its buffer is always a part of that text that    *)
(* begins behind the line it was asked for last.  That text and the        *)
(* decoding of the file as a whole are compared line by line with the      *)
(* lines of the bytes.                                                     *)
(***************************************************************************)
EXTENDS DatasetPreview, PositionsProofs

(***************************************************************************)
(* The lines of a text                                                     *)
(***************************************************************************)
\* Breaks are positions; what Nth and LineEnd say of them.
LEMMA BreaksProperties ==
    ASSUME NEW X, NEW t \in Seq(X)
    PROVE  /\ Len(t) \in Nat /\ DOMAIN t = 1..Len(t)
           /\ Bounded(Breaks(t), Len(t)) /\ IsPositions(Breaks(t))
           /\ Cardinality(Breaks(t)) \in Nat
           /\ Count(Breaks(t), Len(t)) = Cardinality(Breaks(t))
<1>1. Len(t) \in Nat /\ DOMAIN t = 1..Len(t)
  BY LenProperties
<1>2. Bounded(Breaks(t), Len(t))
  BY <1>1 DEF Breaks, Bounded
<1>3. IsPositions(Breaks(t))
  BY <1>1, <1>2 DEF IsPositions
<1>4. Cardinality(Breaks(t)) \in Nat
  BY <1>3, PositionsFinite
<1>5. \A k \in Breaks(t) : k <= Len(t)
  BY <1>1, <1>2 DEF Bounded
<1>6. Count(Breaks(t), Len(t)) = Cardinality(Breaks(t))
  BY <1>1, <1>3, <1>5, CountStep
<1> QED BY <1>1, <1>2, <1>3, <1>4, <1>6

\* The ends of the lines: the newlines in their order, then the end of the text.
LEMMA LineEndProperties ==
    ASSUME NEW X, NEW t \in Seq(X)
    PROVE  /\ \A k \in Nat : LineEnd(t, k) \in 0..(Len(t) + 1)
           /\ \A k \in Nat : k < Cardinality(Breaks(t)) =>
                 /\ LineEnd(t, k + 1) \in Breaks(t)
                 /\ LineEnd(t, k + 1) \in 1..Len(t)
                 /\ Count(Breaks(t), LineEnd(t, k + 1)) = k + 1
           /\ \A k \in Nat : k <= Cardinality(Breaks(t)) =>
                 /\ LineEnd(t, k) < LineEnd(t, k + 1)
                 /\ Count(Breaks(t), LineEnd(t, k)) = k
           /\ \A k \in Nat : k > Cardinality(Breaks(t)) => LineEnd(t, k) = Len(t) + 1
<1> DEFINE B == Breaks(t)
           N == Cardinality(Breaks(t))
<1>0. /\ Len(t) \in Nat /\ Bounded(B, Len(t)) /\ IsPositions(B) /\ N \in Nat
      /\ \A i : Count(B, i) \in Nat
  BY BreaksProperties, PositionsFinite
<1>1. ASSUME NEW k \in Nat, k < N
      PROVE  /\ LineEnd(t, k + 1) \in B /\ LineEnd(t, k + 1) \in 1..Len(t)
             /\ Count(B, LineEnd(t, k + 1)) = k + 1
  <2>1. k + 1 \in 1..N /\ k + 1 # 0 /\ k + 1 <= N
    BY <1>0, <1>1
  <2>2. LineEnd(t, k + 1) = Nth(B, k + 1)
    BY <2>1 DEF LineEnd
  <2>3. Nth(B, k + 1) \in B /\ Count(B, Nth(B, k + 1)) = k + 1
    BY <2>1, <1>0, NthProperties
  <2> QED BY <2>2, <2>3, <1>0 DEF Bounded
<1>2. ASSUME NEW k \in Nat, k > N PROVE LineEnd(t, k) = Len(t) + 1
  BY <1>0, <1>2 DEF LineEnd
<1>3. LineEnd(t, 0) = 0
  BY DEF LineEnd
<1>4. ASSUME NEW k \in Nat, k <= N
      PROVE  LineEnd(t, k) \in 0..Len(t) /\ Count(B, LineEnd(t, k)) = k
  <2>1. CASE k = 0
    BY <2>1, <1>0, <1>3, CountStep
  <2>2. CASE k > 0
    <3>1. k - 1 \in Nat /\ k - 1 < N /\ (k - 1) + 1 = k
      BY <2>2, <1>0, <1>4
    <3>2. LineEnd(t, k) \in 1..Len(t) /\ Count(B, LineEnd(t, k)) = k
      BY <3>1, <1>1
    <3> QED BY <3>2, <1>0
  <2> QED BY <2>1, <2>2
<1>5. ASSUME NEW k \in Nat PROVE LineEnd(t, k) \in 0..(Len(t) + 1)
  BY <1>0, <1>2, <1>4
<1>6. ASSUME NEW k \in Nat, k <= N PROVE LineEnd(t, k) < LineEnd(t, k + 1)
  <2>1. CASE k < N
    <3>1. SUFFICES ASSUME LineEnd(t, k + 1) <= LineEnd(t, k) PROVE FALSE
      BY <1>5
    <3>2. LineEnd(t, k) \in Int /\ LineEnd(t, k + 1) \in Int
      BY <1>5
    <3>3. Count(B, LineEnd(t, k + 1)) <= Count(B, LineEnd(t, k))
      BY <3>1, <3>2, <1>0, CountMonotone
    <3> QED BY <3>3, <2>1, <1>1, <1>4, <1>6
  <2>2. CASE k = N
    <3>1. LineEnd(t, k + 1) = Len(t) + 1
      BY <2>2, <1>0, <1>2
    <3> QED BY <3>1, <1>0, <1>4, <1>6
  <2> QED BY <2>1, <2>2, <1>0, <1>6
<1> HIDE DEF B, N
<1>7. /\ \A k \in Nat : k < N =>
            /\ LineEnd(t, k + 1) \in B /\ LineEnd(t, k + 1) \in 1..Len(t)
            /\ Count(B, LineEnd(t, k + 1)) = k + 1
      /\ \A k \in Nat : k <= N => LineEnd(t, k) < LineEnd(t, k + 1) /\ Count(B, LineEnd(t, k)) = k
  BY <1>1, <1>4, <1>6
<1> QED BY <1>2, <1>5, <1>7 DEF B, N

\* The text ends with a newline, or one line more than newlines is counted.
LEMMA LineCountProperties ==
    ASSUME NEW X, NEW t \in Seq(X)
    PROVE  /\ LineCount(t) \in Nat
           /\ LineCount(t) \in {Cardinality(Breaks(t)), Cardinality(Breaks(t)) + 1}
           /\ LineCount(t) <= Len(t)
           /\ LineCount(t) = Cardinality(Breaks(t)) <=>
                 LineEnd(t, Cardinality(Breaks(t))) = Len(t)
<1> DEFINE B == Breaks(t)
           N == Cardinality(Breaks(t))
<1>0. /\ Len(t) \in Nat /\ DOMAIN t = 1..Len(t)
      /\ Bounded(B, Len(t)) /\ IsPositions(B) /\ N \in Nat
      /\ \A i : Count(B, i) \in Nat
      /\ Count(B, Len(t)) = N
  BY BreaksProperties, PositionsFinite
<1>1. LineCount(t) = N + (IF t # <<>> /\ t[Len(t)] # "nl" THEN 1 ELSE 0)
  BY DEF LineCount
<1>2. t = <<>> <=> Len(t) = 0
  BY EmptySeq
<1>3. LineEnd(t, N) \in 0..Len(t) /\ (N > 0 => LineEnd(t, N) \in B)
  <2>1. CASE N = 0
    BY <2>1, <1>0 DEF LineEnd
  <2>2. CASE N > 0
    <3>1. N - 1 \in Nat /\ N - 1 < N /\ (N - 1) + 1 = N
      BY <2>2, <1>0
    <3> QED BY <3>1, <1>0, LineEndProperties
  <2> QED BY <2>1, <2>2, <1>0
<1>4. CASE Len(t) = 0
  <2>1. LineEnd(t, N) = 0
    BY <1>3, <1>4
  <2>2. N = 0
    BY <1>0, <1>4, CountStep
  <2> QED BY <2>1, <2>2, <1>1, <1>2, <1>4
<1>5. CASE Len(t) > 0 /\ t[Len(t)] = "nl"
  <2>1. Len(t) \in B
    BY <1>0, <1>5 DEF Breaks
  <2>2. N > 0
    BY <2>1, <1>0, NthProperties
  <2>3. LineEnd(t, N) = Nth(B, N)
    BY <2>2, <1>0 DEF LineEnd
  <2>4. Nth(B, N) = Len(t)
    BY <2>1, <1>0, NthProperties
  <2>5. N <= Len(t)
    BY <1>0, CountUpTo
  <2> QED BY <2>3, <2>4, <2>5, <1>0, <1>1, <1>2, <1>5
<1>6. CASE Len(t) > 0 /\ t[Len(t)] # "nl"
  <2>1. Len(t) \notin B
    BY <1>6 DEF Breaks
  <2>2. LineEnd(t, N) # Len(t)
    <3>1. CASE N = 0
      BY <3>1, <1>6 DEF LineEnd
    <3>2. CASE N > 0
      BY <3>2, <2>1, <1>3
    <3> QED BY <3>1, <3>2, <1>0
  <2>3. (Len(t) - 1) + 1 = Len(t) /\ Len(t) - 1 \in Nat
    BY <1>0, <1>6
  <2>4. Count(B, Len(t)) = Count(B, Len(t) - 1)
    BY <2>1, <2>3, <1>0, CountStep
  <2>5. N <= Len(t) - 1
    BY <2>3, <2>4, <1>0, CountUpTo
  <2> QED BY <2>2, <2>5, <1>0, <1>1, <1>2, <1>6
<1> QED BY <1>0, <1>4, <1>5, <1>6

(***************************************************************************)
(* Decoding a file in pieces that end at the places C                      *)
(***************************************************************************)
Characters == {"x", "nl", "cr", "wide", "bad"}

Starts(b, C) == {i \in DOMAIN b : Completes(b, i) => i - 1 \in C}

CharAt(b, C, i) == IF Completed(b, i) /\ i \notin C THEN "wide"
                   ELSE IF b[i] \in {"lead", "cont"} THEN "bad" ELSE b[i]

Chars(b, C) == [i \in DOMAIN b |-> CharAt(b, C, i)]

TextOf(b, C) == Pick(Chars(b, C), Starts(b, C))

\* Decode is the case of one piece.
LEMMA DecodeInOnePiece ==
    ASSUME NEW b
    PROVE  Decode(b) = TextOf(b, {})
<1>1. {i \in DOMAIN b : ~Completes(b, i)} = Starts(b, {})
  BY Zenon DEF Starts
<1>2. [i \in DOMAIN b |-> IF Completed(b, i) THEN "wide"
                          ELSE IF b[i] \in {"lead", "cont"} THEN "bad" ELSE b[i]] =
      Chars(b, {})
  BY Zenon DEF Chars, CharAt
<1> QED BY <1>1, <1>2, Zenon DEF Decode, TextOf

\* A file in pieces: its characters, where they start, and the text they make.
LEMMA TextProperties ==
    ASSUME NEW b \in Seq(Byte), NEW C
    PROVE  /\ Len(b) \in Nat /\ DOMAIN b = 1..Len(b)
           /\ Chars(b, C) \in Seq(Characters) /\ Len(Chars(b, C)) = Len(b)
           /\ Bounded(Starts(b, C), Len(b)) /\ IsPositions(Starts(b, C))
           /\ Breaks(b) \subseteq Starts(b, C)
           /\ TextOf(b, C) \in Seq(Characters)
           /\ Len(TextOf(b, C)) = Cardinality(Starts(b, C))
           /\ \A i \in 1..Len(b) : Chars(b, C)[i] = CharAt(b, C, i) /\ b[i] \in Byte
           /\ Count(Starts(b, C), Len(b)) = Cardinality(Starts(b, C))
<1>1. Len(b) \in Nat /\ DOMAIN b = 1..Len(b) /\ \A i \in 1..Len(b) : b[i] \in Byte
  BY LenProperties, ElementOfSeq
<1>2. \A i \in 1..Len(b) : CharAt(b, C, i) \in Characters
  BY <1>1 DEF CharAt, Characters, Byte
<1>3. Chars(b, C) \in Seq(Characters) /\ Len(Chars(b, C)) = Len(b)
  BY <1>1, <1>2 DEF Chars
<1>4. Bounded(Starts(b, C), Len(b)) /\ IsPositions(Starts(b, C))
  BY <1>1 DEF Starts, Bounded, IsPositions
<1>5. Breaks(b) \subseteq Starts(b, C)
  BY DEF Breaks, Starts, Completes
<1>6. /\ TextOf(b, C) \in Seq(Characters)
      /\ Len(TextOf(b, C)) = Cardinality(Starts(b, C))
  BY <1>3, <1>4, PickProperties DEF TextOf
<1>7. \A k \in Starts(b, C) : k <= Len(b)
  BY <1>1, <1>4 DEF Bounded
<1>8. Count(Starts(b, C), Len(b)) = Cardinality(Starts(b, C))
  BY <1>1, <1>4, <1>7, CountStep
<1>9. \A i \in 1..Len(b) : Chars(b, C)[i] = CharAt(b, C, i)
  BY <1>1 DEF Chars
<1> QED BY <1>1, <1>3, <1>4, <1>5, <1>6, <1>8, <1>9

\* The newlines of the text are those of the bytes.
LEMMA BreaksOfText ==
    ASSUME NEW b \in Seq(Byte), NEW C
    PROVE  Breaks(TextOf(b, C)) = Ranks(Breaks(b), Starts(b, C))
<1> DEFINE S == Starts(b, C)
           t == TextOf(b, C)
<1>1. /\ DOMAIN b = 1..Len(b) /\ Breaks(b) \subseteq S /\ IsPositions(S)
      /\ DOMAIN t = 1..Cardinality(S)
      /\ \A i \in S : t[Count(S, i)] = Chars(b, C)[i]
  <2>1. Bounded(S, Len(Chars(b, C)))
    BY TextProperties
  <2> QED BY <2>1, TextProperties, PickProperties DEF TextOf
<1>2. ASSUME NEW i \in S PROVE t[Count(S, i)] = "nl" <=> i \in Breaks(b)
  <2>1. i \in 1..Len(b) /\ b[i] \in Byte /\ Chars(b, C)[i] = CharAt(b, C, i)
    BY TextProperties DEF Bounded
  <2>2. CharAt(b, C, i) = "nl" <=> b[i] = "nl"
    BY <2>1 DEF CharAt, Completed, Byte
  <2> QED BY <2>1, <2>2, <1>1 DEF Breaks
<1>3. ASSUME NEW k \in Breaks(t) PROVE k \in Ranks(Breaks(b), S)
  <2>1. k \in 1..Cardinality(S) /\ t[k] = "nl"
    BY <1>1 DEF Breaks
  <2>2. Nth(S, k) \in S /\ Count(S, Nth(S, k)) = k
    BY <1>1, <2>1, NthProperties
  <2>3. Nth(S, k) \in Breaks(b)
    BY <1>2, <2>1, <2>2
  <2> QED BY <2>2, <2>3 DEF Ranks
<1>4. ASSUME NEW i \in Breaks(b) PROVE Count(S, i) \in Breaks(t)
  <2>1. i \in S /\ Count(S, i) \in 1..Cardinality(S)
    BY <1>1, NthProperties
  <2>2. t[Count(S, i)] = "nl"
    BY <1>2, <2>1
  <2> QED BY <1>1, <2>1, <2>2 DEF Breaks
<1> HIDE DEF S, t
<1>5. Breaks(t) = Ranks(Breaks(b), S)
  BY <1>3, <1>4 DEF Ranks
<1> QED BY <1>5 DEF S, t

\* Line k of the text ends where line k of the bytes does.
LEMMA LineEndOfText ==
    ASSUME NEW b \in Seq(Byte), NEW C
    PROVE  /\ Cardinality(Breaks(TextOf(b, C))) = Cardinality(Breaks(b))
           /\ LineCount(TextOf(b, C)) = LineCount(b)
           /\ \A k \in Nat : k <= Cardinality(Breaks(b)) =>
                 LineEnd(TextOf(b, C), k) = Count(Starts(b, C), LineEnd(b, k))
           /\ \A k \in Nat \ {0} :
                 LineEnd(TextOf(b, C), k) - 1 = Count(Starts(b, C), LineEnd(b, k) - 1)
<1> DEFINE S == Starts(b, C)
           t == TextOf(b, C)
           N == Cardinality(Breaks(b))
<1>1. /\ Len(b) \in Nat /\ Len(t) = Cardinality(S) /\ t \in Seq(Characters)
      /\ Breaks(b) \subseteq S /\ IsPositions(S) /\ Bounded(S, Len(b))
      /\ Count(S, Len(b)) = Cardinality(S)
  BY TextProperties
<1>2. /\ Cardinality(S) \in Nat /\ \A i : Count(S, i) \in Nat
      /\ \A i \in S : i \in Nat
  BY <1>1, PositionsFinite
<1>3. IsPositions(Breaks(b)) /\ N \in Nat
  BY BreaksProperties
<1>4. /\ Cardinality(Breaks(t)) = N
      /\ \A k \in 1..N : Nth(Breaks(t), k) = Count(S, Nth(Breaks(b), k))
  BY <1>1, BreaksOfText, CountRanks
<1>5. ASSUME NEW k \in Nat, k <= N PROVE LineEnd(t, k) = Count(S, LineEnd(b, k))
  <2>1. CASE k = 0
    BY <2>1, <1>1, CountStep DEF LineEnd
  <2>2. CASE k > 0
    BY <2>2, <1>3, <1>4, <1>5 DEF LineEnd
  <2> QED BY <2>1, <2>2
<1>6. ASSUME NEW k \in Nat \ {0} PROVE LineEnd(t, k) - 1 = Count(S, LineEnd(b, k) - 1)
  <2>1. CASE k <= N
    <3>1. k - 1 \in Nat /\ k - 1 < N /\ (k - 1) + 1 = k
      BY <2>1, <1>3
    <3>2. LineEnd(b, k) \in S
      BY <3>1, <1>1, LineEndProperties
    <3>3. Count(S, LineEnd(b, k)) = Count(S, LineEnd(b, k) - 1) + 1
      BY <3>2, <1>1, CountStep
    <3> QED BY <2>1, <3>3, <1>2, <1>5
  <2>2. CASE k > N
    <3>1. LineEnd(b, k) = Len(b) + 1
      BY <2>2, LineEndProperties
    <3>2. LineEnd(t, k) = Len(t) + 1
      BY <2>2, <1>1, <1>4, LineEndProperties
    <3> QED BY <3>1, <3>2, <1>1, <1>2
  <2> QED BY <2>1, <2>2, <1>3
<1>7. LineEnd(b, N) = Len(b) <=> LineEnd(t, N) = Len(t)
  <2>1. LineEnd(t, N) = Count(S, LineEnd(b, N))
    BY <1>3, <1>5
  <2>2. LineEnd(b, N) \in 0..Len(b)
    <3>0. N \in Nat /\ N + 1 \in Nat
      BY <1>3
    <3>1. LineEnd(b, N) \in 0..(Len(b) + 1) /\ LineEnd(b, N + 1) \in 0..(Len(b) + 1)
      <4> HIDE DEF N
      <4> QED BY <3>0, LineEndProperties
    <3>2. LineEnd(b, N) < LineEnd(b, N + 1)
      BY <1>3, LineEndProperties
    <3> QED BY <3>1, <3>2, <1>1
  <2>3. ASSUME LineEnd(b, N) < Len(b) PROVE LineEnd(t, N) < Len(t)
    <3>1. CASE Len(b) \in S
      <4>1. Count(S, LineEnd(b, N)) < Count(S, Len(b))
        BY <2>2, <2>3, <3>1, <1>1, CountMonotone
      <4> QED BY <4>1, <2>1, <1>1
    <3>2. CASE Len(b) \notin S
      <4>1. Len(b) \in DOMAIN b
        BY <2>2, <2>3, TextProperties
      <4>2. Completes(b, Len(b))
        BY <3>2, <4>1 DEF Starts
      <4>3. Len(b) - 1 \in 1..Len(b) /\ b[Len(b) - 1] = "lead"
        BY <4>2, <1>1 DEF Completes
      <4>4. Len(b) - 1 \in S
        BY <4>3, TextProperties DEF Starts, Completes
      <4>5. LineEnd(b, N) # Len(b) - 1
        <5>1. CASE N = 0
          <6>1. LineEnd(b, 0) = 0
            BY DEF LineEnd
          <6> QED BY <4>3, <5>1, <6>1, <1>1
        <5>2. CASE N > 0
          <6>1. N - 1 \in Nat /\ N - 1 < N /\ (N - 1) + 1 = N
            BY <5>2, <1>3
          <6>2. LineEnd(b, (N - 1) + 1) \in Breaks(b)
            BY <6>1, LineEndProperties
          <6> QED BY <6>1, <6>2, <4>3 DEF Breaks
        <5> QED BY <5>1, <5>2, <1>3
      <4>6. LineEnd(b, N) < Len(b) - 1
        BY <2>2, <2>3, <4>5, <1>1
      <4>7. Count(S, LineEnd(b, N)) < Count(S, Len(b) - 1)
        BY <2>2, <4>4, <4>6, <1>1, CountMonotone
      <4>8. Count(S, Len(b) - 1) <= Count(S, Len(b))
        BY <1>1, CountMonotone
      <4> QED BY <4>7, <4>8, <2>1, <1>1, <1>2
    <3> QED BY <3>1, <3>2
  <2> QED BY <2>1, <2>2, <2>3, <1>1, <1>2
<1>8. LineCount(t) = LineCount(b)
  <2>1. /\ LineCount(b) \in {N, N + 1}
        /\ LineCount(b) = N <=> LineEnd(b, N) = Len(b)
    BY LineCountProperties
  <2>2. /\ LineCount(t) \in {N, N + 1}
        /\ LineCount(t) = N <=> LineEnd(t, N) = Len(t)
    <3> HIDE DEF t, N
    <3> QED BY <1>1, <1>4, LineCountProperties
  <2> QED BY <2>1, <2>2, <1>7, <1>3
<1> HIDE DEF S, t, N
<1>9. /\ \A k \in Nat : k <= N => LineEnd(t, k) = Count(S, LineEnd(b, k))
      /\ \A k \in Nat \ {0} : LineEnd(t, k) - 1 = Count(S, LineEnd(b, k) - 1)
  BY <1>5, <1>6
<1> QED BY <1>4, <1>8, <1>9 DEF S, t, N

\* Line k takes the places from Begin to Begin + Size.
Begin(t, k) == LineEnd(t, k - 1)
Size(t, k)  == LineEnd(t, k) - 1 - Begin(t, k)

\* A line is the part of the text that Begin and Size say.
LEMMA LinesProperties ==
    ASSUME NEW X, NEW t \in Seq(X)
    PROVE  /\ Lines(t) \in Seq(Seq(X)) /\ Len(Lines(t)) = LineCount(t)
           /\ \A k \in 1..LineCount(t) :
                 /\ Begin(t, k) \in Nat /\ Size(t, k) \in Nat
                 /\ Begin(t, k) + Size(t, k) = LineEnd(t, k) - 1
                 /\ Begin(t, k) + Size(t, k) <= Len(t)
                 /\ Lines(t)[k] = SubSeq(t, Begin(t, k) + 1, Begin(t, k) + Size(t, k))
                 /\ Lines(t)[k] \in Seq(X) /\ Len(Lines(t)[k]) = Size(t, k)
                 /\ DOMAIN Lines(t)[k] = 1..Size(t, k)
                 /\ \A i \in 1..Size(t, k) : Lines(t)[k][i] = t[Begin(t, k) + i]
<1>1. /\ LineCount(t) \in Nat /\ Len(t) \in Nat /\ Cardinality(Breaks(t)) \in Nat
      /\ LineCount(t) <= Cardinality(Breaks(t)) + 1
  BY LineCountProperties, BreaksProperties
<1>2. ASSUME NEW k \in 1..LineCount(t)
      PROVE  /\ Begin(t, k) \in Nat /\ Size(t, k) \in Nat
             /\ Begin(t, k) + Size(t, k) = LineEnd(t, k) - 1
             /\ Begin(t, k) + Size(t, k) <= Len(t)
             /\ Lines(t)[k] = SubSeq(t, Begin(t, k) + 1, Begin(t, k) + Size(t, k))
  <2>1. k \in Nat /\ k - 1 \in Nat /\ k - 1 <= Cardinality(Breaks(t)) /\ (k - 1) + 1 = k
    BY <1>1
  <2>2. LineEnd(t, k) \in 0..(Len(t) + 1) /\ LineEnd(t, k - 1) \in 0..(Len(t) + 1)
    BY <2>1, LineEndProperties
  <2>3. LineEnd(t, k - 1) < LineEnd(t, (k - 1) + 1)
    BY <2>1, LineEndProperties
  <2>4. LineEnd(t, k - 1) < LineEnd(t, k)
    BY <2>1, <2>3
  <2>5. /\ Begin(t, k) \in Nat /\ Size(t, k) \in Nat
        /\ Begin(t, k) + Size(t, k) = LineEnd(t, k) - 1
        /\ Begin(t, k) + Size(t, k) <= Len(t)
    BY <1>1, <2>2, <2>4 DEF Begin, Size
  <2>6. Lines(t)[k] = SubSeq(t, LineEnd(t, k - 1) + 1, LineEnd(t, k) - 1)
    BY DEF Lines
  <2> QED BY <2>5, <2>6 DEF Begin
<1>3. ASSUME NEW k \in 1..LineCount(t)
      PROVE  /\ Lines(t)[k] \in Seq(X) /\ Len(Lines(t)[k]) = Size(t, k)
             /\ DOMAIN Lines(t)[k] = 1..Size(t, k)
             /\ \A i \in 1..Size(t, k) : Lines(t)[k][i] = t[Begin(t, k) + i]
  <2> DEFINE part == SubSeq(t, Begin(t, k) + 1, Begin(t, k) + Size(t, k))
  <2>1. /\ part \in Seq(X) /\ Len(part) = Size(t, k) /\ DOMAIN part = 1..Size(t, k)
        /\ \A i \in 1..Size(t, k) : part[i] = t[Begin(t, k) + i]
    <3>1. /\ Begin(t, k) \in Nat /\ Size(t, k) \in Nat
          /\ Begin(t, k) + Size(t, k) <= Len(t)
      BY <1>2
    <3> QED BY <3>1, PartProperties
  <2>2. Lines(t)[k] = part
    BY <1>2
  <2> HIDE DEF part
  <2> QED BY <2>1, <2>2
<1>4. Lines(t) \in Seq(Seq(X)) /\ Len(Lines(t)) = LineCount(t)
  <2>1. Lines(t) = [k \in 1..LineCount(t) |-> Lines(t)[k]]
    BY DEF Lines
  <2>2. Lines(t) \in [1..LineCount(t) -> Seq(X)]
    BY <2>1, <1>3
  <2> QED BY <2>2, <1>1
<1> QED BY <1>2, <1>3, <1>4

\* The characters of line k of the text are those of line k of the bytes.
LineStarts(b, C, k) == {i \in 1..Size(b, k) : Begin(b, k) + i \in Starts(b, C)}

LineChars(b, C, k) == SubSeq(Chars(b, C), Begin(b, k) + 1, Begin(b, k) + Size(b, k))

\* Line k of the text is picked from line k of the bytes.
LEMMA LineOfText ==
    ASSUME NEW b \in Seq(Byte), NEW C, NEW k \in 1..LineCount(b)
    PROVE  /\ k \in 1..LineCount(TextOf(b, C))
           /\ Lines(TextOf(b, C))[k] = Pick(LineChars(b, C, k), LineStarts(b, C, k))
           /\ LineChars(b, C, k) \in Seq(Characters) /\ Len(LineChars(b, C, k)) = Size(b, k)
           /\ Bounded(LineStarts(b, C, k), Size(b, k)) /\ IsPositions(LineStarts(b, C, k))
           /\ \A i \in 1..Size(b, k) :
                 LineChars(b, C, k)[i] = CharAt(b, C, Begin(b, k) + i)
<1> DEFINE t == TextOf(b, C)
           S == Starts(b, C)
           p == Begin(b, k)
           m == Size(b, k)
           T == LineStarts(b, C, k)
<1>1. /\ Len(b) \in Nat /\ Len(Chars(b, C)) = Len(b) /\ Chars(b, C) \in Seq(Characters)
      /\ Bounded(S, Len(b)) /\ IsPositions(S) /\ t \in Seq(Characters)
      /\ \A i \in 1..Len(b) : Chars(b, C)[i] = CharAt(b, C, i)
  BY TextProperties
<1>2. p \in Nat /\ m \in Nat /\ p + m <= Len(b) /\ p + m = LineEnd(b, k) - 1
  BY LinesProperties
<1>3. LineCount(t) = LineCount(b)
  BY LineEndOfText
<1>4. LineCount(b) \in Nat /\ LineCount(b) <= Cardinality(Breaks(b)) + 1
      /\ Cardinality(Breaks(b)) \in Nat
  BY LineCountProperties, BreaksProperties
<1>5. k \in Nat \ {0} /\ k - 1 \in Nat /\ k - 1 <= Cardinality(Breaks(b))
  BY <1>4
<1>6. /\ LineEnd(t, k - 1) = Count(S, p)
      /\ LineEnd(t, k) - 1 = Count(S, p + m)
  BY <1>2, <1>5, LineEndOfText DEF Begin
<1>7. Lines(t)[k] = SubSeq(t, Count(S, p) + 1, Count(S, p + m))
  <2>1. Lines(t)[k] = SubSeq(t, LineEnd(t, k - 1) + 1, LineEnd(t, k) - 1)
    BY <1>3 DEF Lines
  <2> QED BY <2>1, <1>6
<1>8. Bounded(T, m) /\ IsPositions(T) /\ Stretch(T, S, p, m)
  BY <1>2 DEF LineStarts, Bounded, IsPositions, Stretch
<1> HIDE DEF p, m, S, T, t
<1>9. Pick(SubSeq(Chars(b, C), p + 1, p + m), T) =
      SubSeq(Pick(Chars(b, C), S), Count(S, p) + 1, Count(S, p + m))
  BY <1>1, <1>2, <1>8, PickStretch
<1>10. Lines(t)[k] = Pick(LineChars(b, C, k), T)
  BY <1>7, <1>9 DEF t, S, p, m, TextOf, LineChars
<1>11. /\ LineChars(b, C, k) \in Seq(Characters) /\ Len(LineChars(b, C, k)) = m
       /\ \A i \in 1..m : LineChars(b, C, k)[i] = Chars(b, C)[p + i]
  <2> DEFINE part == SubSeq(Chars(b, C), p + 1, p + m)
  <2>1. /\ part \in Seq(Characters) /\ Len(part) = m
        /\ \A i \in 1..m : part[i] = Chars(b, C)[p + i]
    BY <1>1, <1>2, PartProperties
  <2>2. LineChars(b, C, k) = part
    BY DEF LineChars, p, m
  <2> HIDE DEF part
  <2> QED BY <2>1, <2>2
<1>12. \A i \in 1..m : p + i \in 1..Len(b)
  BY <1>1, <1>2
<1>13. \A i \in 1..m : LineChars(b, C, k)[i] = CharAt(b, C, p + i)
  BY <1>1, <1>11, <1>12
<1> QED BY <1>3, <1>8, <1>10, <1>11, <1>13 DEF t, S, p, m, T

\* Whether a line parses depends on its bytes alone, not on where they are cut.
LEMMA UnparsableByBytes ==
    ASSUME NEW b \in Seq(Byte), NEW C, NEW k \in 1..LineCount(b)
    PROVE  Unparsable(Lines(TextOf(b, C))[k]) <=> Unparsable(Lines(b)[k])
<1> DEFINE T == LineStarts(b, C, k)
           l == Lines(TextOf(b, C))[k]
           p == Begin(b, k)
           m == Size(b, k)
<1>1. /\ l = Pick(LineChars(b, C, k), T) /\ Bounded(T, m) /\ IsPositions(T)
      /\ LineChars(b, C, k) \in Seq(Characters) /\ Len(LineChars(b, C, k)) = m
      /\ \A i \in 1..m : LineChars(b, C, k)[i] = CharAt(b, C, p + i)
  BY LineOfText
<1>2. /\ DOMAIN l = 1..Cardinality(T)
      /\ \A i \in T : l[Count(T, i)] = CharAt(b, C, p + i)
  BY <1>1, PickProperties DEF Bounded
<1>3. /\ p \in Nat /\ m \in Nat /\ p + m <= Len(b) /\ Len(b) \in Nat
      /\ DOMAIN Lines(b)[k] = 1..m
      /\ \A i \in 1..m : Lines(b)[k][i] = b[p + i]
      /\ DOMAIN b = 1..Len(b) /\ \A i \in 1..Len(b) : b[i] \in Byte
  BY LinesProperties, TextProperties
<1>4. \A i \in 1..m : p + i \in 1..Len(b) /\ b[p + i] \in Byte
  BY <1>3
<1>5. \A i \in 1..m : CharAt(b, C, p + i) = "cr" <=> b[p + i] = "cr"
  BY <1>4 DEF CharAt, Completed, Byte
<1>6. ASSUME NEW i \in T, NEW j \in T PROVE i < j <=> Count(T, i) < Count(T, j)
  <2>1. i \in Int /\ j \in Int /\ Count(T, i) \in Nat /\ Count(T, j) \in Nat
    <3> HIDE DEF T
    <3>1. IsPositions(T)
      BY <1>1
    <3>2. (\A x \in T : x \in Int) 
      BY <3>1, PositionsFinite
    <3>3. (\A x : Count(T, x) \in Nat)
      BY <3>1, PositionsFinite
    <3>4. Count(T, i) \in Nat /\ Count(T, j) \in Nat
      BY <3>3
    <3>5. i \in Int /\ j \in Int
      BY <3>2
    <3> QED BY <3>4, <3>5
  <2>2. i < j => Count(T, i) < Count(T, j)
    BY <2>1, <1>1, CountMonotone
  <2>3. j <= i => Count(T, j) <= Count(T, i)
    BY <2>1, <1>1, CountMonotone
  <2> QED BY <2>1, <2>2, <2>3
<1>7. ASSUME NEW i \in 1..m, i \notin T
      PROVE  /\ b[p + i] = "cont"
             /\ i > 1 => i - 1 \in T /\ b[p + (i - 1)] = "lead"
             /\ i = 1 => p > 0 /\ b[p] = "lead"
  <2>1. p + i \in DOMAIN b /\ p + i \notin Starts(b, C)
    BY <1>3, <1>7 DEF LineStarts
  <2>2. Completes(b, p + i)
    BY <2>1 DEF Starts
  <2>3. b[p + i] = "cont" /\ p + i > 1 /\ b[p + i - 1] = "lead"
    <3>1. p \in Nat /\ i \in Nat
      BY <1>3
    <3> HIDE DEF p, m, T
    <3> QED BY <2>2, <3>1 DEF Completes
  <2>4. ASSUME i > 1 PROVE i - 1 \in T /\ b[p + (i - 1)] = "lead"
    <3>1. i - 1 \in 1..m /\ p + (i - 1) = p + i - 1
      BY <2>4, <1>3
    <3>2. p + (i - 1) \in DOMAIN b /\ b[p + (i - 1)] = "lead"
      BY <3>1, <2>3, <1>3
    <3>3. p + (i - 1) \in Starts(b, C)
      BY <3>2 DEF Starts, Completes
    <3> QED BY <3>1, <3>2, <3>3 DEF LineStarts
  <2>5. ASSUME i = 1 PROVE p > 0 /\ b[p] = "lead"
    BY <2>3, <2>5, <1>3
  <2> QED BY <2>3, <2>4, <2>5
<1>8. ASSUME Unparsable(l) PROVE Unparsable(Lines(b)[k])
  <2>1. PICK x, y \in 1..Cardinality(T) : x < y /\ l[x] = "cr" /\ l[y] # "cr"
    BY <1>2, <1>8 DEF Unparsable
  <2>2. /\ Nth(T, x) \in T /\ Count(T, Nth(T, x)) = x
        /\ Nth(T, y) \in T /\ Count(T, Nth(T, y)) = y
    BY <1>1, NthProperties
  <2>3. Nth(T, x) < Nth(T, y)
    BY <2>1, <2>2, <1>6
  <2>4. /\ Nth(T, x) \in 1..m /\ Nth(T, y) \in 1..m
    BY <2>2, <1>1 DEF Bounded
  <2>5. b[p + Nth(T, x)] = "cr" /\ b[p + Nth(T, y)] # "cr"
    BY <2>1, <2>2, <2>4, <1>2, <1>5
  <2> QED BY <2>3, <2>4, <2>5, <1>3 DEF Unparsable
<1>9. ASSUME Unparsable(Lines(b)[k]) PROVE Unparsable(l)
  <2>1. PICK x, y \in 1..m : x < y /\ b[p + x] = "cr" /\ b[p + y] # "cr"
    BY <1>3, <1>9 DEF Unparsable
  <2>2. x \in T
    BY <2>1, <1>7
  <2>3. ASSUME NEW z \in T, x < z, b[p + z] # "cr" PROVE Unparsable(l)
    <3>1. /\ Count(T, x) \in 1..Cardinality(T) /\ Count(T, z) \in 1..Cardinality(T)
          /\ Count(T, x) < Count(T, z)
      BY <2>2, <2>3, <1>1, <1>6, NthProperties
    <3>2. l[Count(T, x)] = "cr" /\ l[Count(T, z)] # "cr"
      BY <2>1, <2>2, <2>3, <1>1, <1>2, <1>5 DEF Bounded
    <3> QED BY <3>1, <3>2, <1>2 DEF Unparsable
  <2>4. CASE y \in T
    BY <2>1, <2>3, <2>4
  <2>5. CASE y \notin T
    <3>1. y - 1 \in T /\ b[p + (y - 1)] = "lead"
      BY <2>1, <2>5, <1>7
    <3>2. x < y - 1
      BY <2>1, <3>1
    <3> QED BY <2>3, <3>1, <3>2
  <2> QED BY <2>4, <2>5
<1> HIDE DEF l
<1> QED BY <1>8, <1>9 DEF l

\* What a line shows besides wide characters is in its bytes.
LEMMA PlainByBytes ==
    ASSUME NEW b \in Seq(Byte), NEW C, NEW k \in 1..LineCount(b)
    PROVE  Plain(Lines(TextOf(b, C))[k]) =
              Pick(Lines(b)[k], {i \in 1..Size(b, k) : Lines(b)[k][i] \notin {"lead", "cont"}})
<1> DEFINE T == LineStarts(b, C, k)
           c == LineChars(b, C, k)
           l == Lines(TextOf(b, C))[k]
           p == Begin(b, k)
           m == Size(b, k)
           U == {i \in 1..m : Lines(b)[k][i] \notin {"lead", "cont"}}
<1>1. /\ l = Pick(c, T) /\ Bounded(T, m) /\ IsPositions(T)
      /\ c \in Seq(Characters) /\ Len(c) = m
      /\ \A i \in 1..m : c[i] = CharAt(b, C, p + i)
  BY LineOfText
<1>2. /\ DOMAIN l = 1..Cardinality(T)
      /\ \A i \in T : l[Count(T, i)] = c[i]
  BY <1>1, PickProperties DEF Bounded
<1>3. /\ p \in Nat /\ m \in Nat /\ p + m <= Len(b) /\ Len(b) \in Nat
      /\ Lines(b)[k] \in Seq(Byte) /\ Len(Lines(b)[k]) = m
      /\ \A i \in 1..m : Lines(b)[k][i] = b[p + i]
      /\ DOMAIN b = 1..Len(b) /\ \A i \in 1..Len(b) : b[i] \in Byte
  BY LinesProperties, TextProperties
<1>4. \A i \in 1..m : p + i \in 1..Len(b) /\ b[p + i] \in Byte
  BY <1>3
<1>5. ASSUME NEW i \in 1..m
      PROVE  /\ i \in U <=> c[i] \notin {"wide", "bad"}
             /\ i \in U => i \in T /\ c[i] = Lines(b)[k][i]
  <2>1. b[p + i] \in Byte /\ Lines(b)[k][i] = b[p + i] /\ c[i] = CharAt(b, C, p + i)
    BY <1>1, <1>3, <1>4
  <2>2. c[i] \notin {"wide", "bad"} <=> b[p + i] \notin {"lead", "cont"}
    BY <2>1 DEF CharAt, Completed, Byte
  <2>3. b[p + i] \notin {"lead", "cont"} => c[i] = b[p + i]
    BY <2>1 DEF CharAt, Completed
  <2>4. b[p + i] \notin {"lead", "cont"} => i \in T
    BY <1>3, <1>4 DEF LineStarts, Starts, Completes
  <2> QED BY <2>1, <2>2, <2>3, <2>4
<1>6. U \subseteq T /\ Bounded(U, m)
  BY <1>5 DEF Bounded
<1> HIDE DEF T, c, l, p, m, U
<1>7. {i \in DOMAIN l : l[i] \notin {"wide", "bad"}} = Ranks(U, T)
  <2>1. ASSUME NEW x \in DOMAIN l, l[x] \notin {"wide", "bad"} PROVE x \in Ranks(U, T)
    <3>1. Nth(T, x) \in T /\ Count(T, Nth(T, x)) = x
      BY <1>1, <1>2, NthProperties
    <3>2. Nth(T, x) \in 1..m /\ c[Nth(T, x)] = l[x]
      BY <3>1, <1>1, <1>2 DEF Bounded
    <3>3. Nth(T, x) \in U
      BY <3>2, <2>1, <1>5
    <3> QED BY <3>1, <3>3 DEF Ranks
  <2>2. ASSUME NEW i \in U PROVE Count(T, i) \in DOMAIN l /\ l[Count(T, i)] \notin {"wide", "bad"}
    <3>1. i \in T /\ i \in 1..m
      BY <1>6 DEF Bounded
    <3>2. Count(T, i) \in 1..Cardinality(T)
      BY <3>1, <1>1, NthProperties
    <3> QED BY <3>1, <3>2, <1>2, <1>5
  <2> QED BY <2>1, <2>2 DEF Ranks
<1>8. Plain(l) = Pick(c, U)
  <2>1. Pick(Pick(c, T), Ranks(U, T)) = Pick(c, U)
    BY <1>1, <1>6, PickTwice
  <2> QED BY <2>1, <1>1, <1>7 DEF Plain
<1>9. Pick(c, U) = Pick(Lines(b)[k], U)
  <2>1. IsPositions(U)
    BY <1>3, <1>6 DEF IsPositions
  <2>2. \A j \in 1..Cardinality(U) : Nth(U, j) \in U /\ Nth(U, j) \in 1..m
    BY <2>1, <1>6, NthProperties DEF Bounded
  <2>3. \A j \in 1..Cardinality(U) : c[Nth(U, j)] = Lines(b)[k][Nth(U, j)]
    BY <2>2, <1>5
  <2> QED BY <2>3, Zenon DEF Pick
<1> QED BY <1>8, <1>9, Zenon DEF l, U, m

(***************************************************************************)
(* Chunks                                                                  *)
(***************************************************************************)
Cuts(c) == {i \in Nat : i % c = 0}

\* The only multiple of c below c is 0.
LEMMA SmallMultiple ==
    ASSUME NEW c \in Nat \ {0}, NEW d \in Int, NEW y \in 0..(c - 1), d * c = y
    PROVE  y = 0
<1>1. CASE d >= 1
  <2>1. d * c >= c
    BY <1>1
  <2> QED BY <2>1
<1>2. CASE d = 0
  BY <1>2
<1>3. CASE d < 0
  <2>1. d * c < 0
    BY <1>3
  <2> QED BY <2>1
<1> QED BY <1>1, <1>2, <1>3

\* Places behind a cut, up to the next cut.
LEMMA CutProperties ==
    ASSUME NEW c \in Nat \ {0}, NEW p \in Nat, p % c = 0
    PROVE  /\ \A r \in 0..(c - 1) : (p + r) % c = r /\ ((p + r) \div c) * c = p
           /\ (p + c) % c = 0
<1>1. ASSUME NEW r \in 0..(c - 1) PROVE (p + r) % c = r /\ ((p + r) \div c) * c = p
  <2>1. (p + r) % c = r
    OBVIOUS
  <2>2. p + r = ((p + r) \div c) * c + ((p + r) % c)
    OBVIOUS
  <2> QED BY <2>1, <2>2
<1>2. (p + c) % c = 0
  <2> DEFINE q == p \div c
             z == (p + c) \div c
             y == (p + c) % c
  <2>1. q \in Int /\ z \in Int /\ y \in 0..(c - 1)
    OBVIOUS
  <2>2. p = q * c
    OBVIOUS
  <2>3. p + c = z * c + y
    OBVIOUS
  <2> HIDE DEF q, z, y
  <2>4. (q + 1 - z) * c = y
    BY <2>1, <2>2, <2>3
  <2>5. y = 0
    BY <2>1, <2>4, SmallMultiple
  <2> QED BY <2>5 DEF y
<1> QED BY <1>1, <1>2

\* Where the chunk begins that ends at e.
LEMMA ChunkStart ==
    ASSUME NEW c \in Nat \ {0}, NEW p \in Nat, p % c = 0, NEW e \in (p + 1)..(p + c)
    PROVE  ((e - 1) \div c) * c = p
<1> DEFINE r == e - 1 - p
<1>1. r \in 0..(c - 1) /\ p + r = e - 1
  OBVIOUS
<1> HIDE DEF r
<1>2. ((p + r) \div c) * c = p
  BY <1>1, CutProperties
<1> QED BY <1>1, <1>2

\* A chunk that is decoded by itself is a part of the text that is seen.
LEMMA ChunkOfText ==
    ASSUME NEW b \in Seq(Byte), NEW c \in Nat \ {0}, NEW p \in Nat, p % c = 0, p < Len(b),
           NEW e, e = Smaller(p + c, Len(b))
    PROVE  /\ e \in (p + 1)..Len(b) /\ e <= p + c /\ (e % c = 0 \/ e = Len(b))
           /\ Decode(SubSeq(b, p + 1, e)) =
                 SubSeq(TextOf(b, Cuts(c)), Count(Starts(b, Cuts(c)), p) + 1,
                                            Count(Starts(b, Cuts(c)), e))
<1> DEFINE C == Cuts(c)
           m == e - p
           part == SubSeq(b, p + 1, e)
           S == Starts(b, C)
           T == Starts(part, {})
<1>1. /\ Len(b) \in Nat /\ DOMAIN b = 1..Len(b) /\ Bounded(S, Len(b)) /\ IsPositions(S)
      /\ Chars(b, C) \in Seq(Characters) /\ Len(Chars(b, C)) = Len(b)
      /\ \A i \in 1..Len(b) : Chars(b, C)[i] = CharAt(b, C, i) /\ b[i] \in Byte
  BY TextProperties
<1>2. /\ e \in (p + 1)..Len(b) /\ e <= p + c
      /\ e = Len(b) \/ e = p + c
  <2>1. Len(b) \in Nat /\ p + c \in Nat /\ p < p + c
    BY <1>1
  <2>2. e = IF p + c < Len(b) THEN p + c ELSE Len(b)
    BY Zenon DEF Smaller
  <2> QED BY <2>1, <2>2
<1>3. e % c = 0 \/ e = Len(b)
  BY <1>2, CutProperties
<1>4. m \in Nat /\ m <= c /\ p + m = e /\ p + m <= Len(b)
  BY <1>1, <1>2
<1>5. /\ part \in Seq(Byte) /\ Len(part) = m /\ DOMAIN part = 1..m
      /\ \A i \in 1..m : part[i] = b[p + i]
  <2>1. e \in Nat /\ p <= e /\ e <= Len(b)
    BY <1>1, <1>2
  <2> HIDE DEF C, S, T
  <2> QED BY <2>1, PartUpTo
<1> HIDE DEF C, m, part, S, T
<1>6. ASSUME NEW i \in 1..m
      PROVE  /\ p + i \in 1..Len(b) /\ part[i] = b[p + i]
             /\ p + i - 1 \in C <=> i = 1
             /\ i < m => p + i \notin C
             /\ i > 1 => i - 1 \in 1..m /\ part[i - 1] = b[p + i - 1]
             /\ i < m => i + 1 \in 1..m /\ part[i + 1] = b[p + i + 1]
  <2>1. p + i \in 1..Len(b) /\ part[i] = b[p + i]
    BY <1>1, <1>4, <1>5
  <2>2. p + i - 1 \in C <=> i = 1
    <3>1. i - 1 \in 0..(c - 1) /\ p + (i - 1) = p + i - 1 /\ p + i - 1 \in Nat
      BY <1>4
    <3>2. (p + i - 1) % c = i - 1
      BY <3>1, CutProperties
    <3> QED BY <3>1, <3>2 DEF C, Cuts
  <2>3. ASSUME i < m PROVE p + i \notin C
    <3>1. i \in 0..(c - 1) /\ i # 0
      BY <2>3, <1>4
    <3>2. (p + i) % c = i
      BY <3>1, CutProperties
    <3> QED BY <3>1, <3>2 DEF C, Cuts
  <2>4. ASSUME i > 1 PROVE i - 1 \in 1..m /\ part[i - 1] = b[p + i - 1]
    <3>1. i - 1 \in 1..m /\ p + (i - 1) = p + i - 1
      BY <2>4, <1>4
    <3> QED BY <3>1, <1>5
  <2>5. ASSUME i < m PROVE i + 1 \in 1..m /\ part[i + 1] = b[p + i + 1]
    <3>1. i + 1 \in 1..m /\ p + (i + 1) = p + i + 1
      BY <2>5, <1>4
    <3> QED BY <3>1, <1>5
  <2> QED BY <2>1, <2>2, <2>3, <2>4, <2>5
<1>7. ASSUME NEW i \in 1..m PROVE i \in T <=> p + i \in S
  <2>1. i \in T <=> ~Completes(part, i)
    BY <1>5 DEF T, Starts
  <2>2. p + i \in S <=> (Completes(b, p + i) => p + i - 1 \in C)
    BY <1>1, <1>6 DEF S, Starts
  <2>3. CASE i = 1
    <3>1. ~Completes(part, i)
      BY <2>3 DEF Completes
    <3> QED BY <2>1, <2>2, <2>3, <3>1, <1>6
  <2>4. CASE i > 1
    <3>1. Completes(part, i) <=> part[i] = "cont" /\ part[i - 1] = "lead"
      BY <2>4 DEF Completes
    <3>2. Completes(b, p + i) <=> b[p + i] = "cont" /\ b[p + i - 1] = "lead"
      BY <2>4 DEF Completes
    <3> QED BY <2>1, <2>2, <2>4, <3>1, <3>2, <1>6
  <2> QED BY <2>3, <2>4
<1>8. Stretch(T, S, p, m)
  BY <1>5, <1>7 DEF Stretch, Bounded, T, Starts
<1>9. ASSUME NEW i \in 1..m PROVE CharAt(part, {}, i) = CharAt(b, C, p + i)
  <2>1. Completed(part, i) <=> Completed(b, p + i) /\ p + i \notin C
    <3>1. CASE i < m
      <4>1. Completed(part, i) <=> part[i] = "lead" /\ part[i + 1] = "cont"
        BY <3>1, <1>4, <1>5 DEF Completed
      <4>2. Completed(b, p + i) <=> b[p + i] = "lead" /\ b[p + i + 1] = "cont"
        BY <3>1, <1>1, <1>4 DEF Completed
      <4> QED BY <3>1, <4>1, <4>2, <1>6
    <3>2. CASE i = m
      <4>1. ~Completed(part, i)
        BY <3>2, <1>4, <1>5 DEF Completed
      <4>2. p + i = e
        BY <3>2, <1>4
      <4>3. e = Len(b) => ~Completed(b, p + i)
        BY <4>2, <1>1 DEF Completed
      <4>4. e % c = 0 => p + i \in C
        BY <4>2, <1>4 DEF C, Cuts
      <4> QED BY <4>1, <4>3, <4>4, <1>3
    <3> QED BY <3>1, <3>2, <1>4
  <2> QED BY <2>1, <1>6 DEF CharAt
<1>10. Chars(part, {}) = SubSeq(Chars(b, C), p + 1, p + m)
  <2>1. /\ Chars(part, {}) \in Seq(Characters) /\ Len(Chars(part, {})) = m
        /\ \A i \in 1..m : Chars(part, {})[i] = CharAt(part, {}, i)
    BY <1>5, TextProperties
  <2>2. /\ SubSeq(Chars(b, C), p + 1, p + m) \in Seq(Characters)
        /\ Len(SubSeq(Chars(b, C), p + 1, p + m)) = m
        /\ \A i \in 1..m : SubSeq(Chars(b, C), p + 1, p + m)[i] = Chars(b, C)[p + i]
    BY <1>1, <1>4, PartProperties
  <2>3. ASSUME NEW i \in 1..m
        PROVE  Chars(part, {})[i] = SubSeq(Chars(b, C), p + 1, p + m)[i]
    <3>1. p + i \in 1..Len(b)
      BY <1>6
    <3>2. Chars(b, C)[p + i] = CharAt(b, C, p + i)
      BY <3>1, <1>1
    <3> QED BY <3>2, <2>1, <2>2, <1>9
  <2> QED BY <2>1, <2>2, <2>3, <1>4, SeqEqual
<1>11. Pick(SubSeq(Chars(b, C), p + 1, p + m), T) =
       SubSeq(Pick(Chars(b, C), S), Count(S, p) + 1, Count(S, p + m))
  BY <1>1, <1>4, <1>8, PickStretch
<1>12. Decode(part) = Pick(SubSeq(Chars(b, C), p + 1, p + m), T)
  BY <1>10, DecodeInOnePiece, Zenon DEF TextOf, T
<1>13. Decode(part) = SubSeq(TextOf(b, C), Count(S, p) + 1, Count(S, e))
  BY <1>4, <1>11, <1>12 DEF TextOf, S
<1> QED BY <1>2, <1>3, <1>13 DEF part, S, C

(***************************************************************************)
(* The buffer of a reader that has asked for a lines of the text t and has *)
(* been given its first v characters                                       *)
(***************************************************************************)
Buffered(t, a, v) == SubSeq(t, LineEnd(t, a) + 1, v)

\* What is buffered is a part of the text, or nothing is left of it.
LEMMA BufferedProperties ==
    ASSUME NEW X, NEW t \in Seq(X), NEW a \in Nat, NEW v \in 0..Len(t)
    PROVE  /\ Len(t) \in Nat /\ LineEnd(t, a) \in Nat /\ Buffered(t, a, v) \in Seq(X)
           /\ LineEnd(t, a) > v => Buffered(t, a, v) = <<>>
           /\ LineEnd(t, a) <= v =>
                 /\ v - LineEnd(t, a) \in Nat
                 /\ Buffered(t, a, v) =
                       SubSeq(t, LineEnd(t, a) + 1, LineEnd(t, a) + (v - LineEnd(t, a)))
                 /\ Len(Buffered(t, a, v)) = v - LineEnd(t, a)
                 /\ DOMAIN Buffered(t, a, v) = 1..(v - LineEnd(t, a))
                 /\ \A i \in 1..(v - LineEnd(t, a)) :
                       Buffered(t, a, v)[i] = t[LineEnd(t, a) + i]
<1> DEFINE s == LineEnd(t, a)
           n == v - s
<1>1. Len(t) \in Nat /\ s \in Nat
  BY LenProperties, LineEndProperties
<1> HIDE DEF s
<1>2. ASSUME s > v PROVE SubSeq(t, s + 1, v) = <<>>
  BY <1>1, <1>2, SubSeqEmpty
<1>3. ASSUME s <= v
      PROVE  /\ n \in Nat /\ SubSeq(t, s + 1, v) = SubSeq(t, s + 1, s + n)
             /\ SubSeq(t, s + 1, v) \in Seq(X)
             /\ Len(SubSeq(t, s + 1, v)) = n
             /\ DOMAIN SubSeq(t, s + 1, v) = 1..n
             /\ \A i \in 1..n : SubSeq(t, s + 1, v)[i] = t[s + i]
  <2>1. n \in Nat /\ s + n = v /\ s + n <= Len(t)
    BY <1>1, <1>3
  <2> DEFINE part == SubSeq(t, s + 1, s + n)
  <2> HIDE DEF n
  <2>2. /\ part \in Seq(X) /\ Len(part) = n /\ DOMAIN part = 1..n
        /\ \A i \in 1..n : part[i] = t[s + i]
    <3>1. s \in Nat /\ n \in Nat /\ s + n <= Len(t)
      BY <1>1, <2>1
    <3> QED BY <3>1, PartProperties
  <2>3. SubSeq(t, s + 1, v) = part
    BY <2>1
  <2> QED BY <2>1, <2>2, <2>3
<1>4. SubSeq(t, s + 1, v) \in Seq(X)
  BY <1>1, <1>2, <1>3, EmptySeq
<1> HIDE DEF n
<1> QED BY <1>1, <1>2, <1>3, <1>4 DEF Buffered, s, n

\* A line is buffered when the text has one more newline and it has come in.
LEMMA BufferedHasLine ==
    ASSUME NEW X, NEW t \in Seq(X), NEW a \in Nat, NEW v \in 0..Len(t)
    PROVE  /\ HasLine(Buffered(t, a, v)) <=>
                 a < Cardinality(Breaks(t)) /\ LineEnd(t, a + 1) <= v
           /\ \A i \in DOMAIN Buffered(t, a, v) :
                 Buffered(t, a, v)[i] = "nl" => LineEnd(t, a + 1) <= LineEnd(t, a) + i
<1> DEFINE s == LineEnd(t, a)
           B == Breaks(t)
           N == Cardinality(B)
           buf == Buffered(t, a, v)
<1>1. /\ Len(t) \in Nat /\ DOMAIN t = 1..Len(t) /\ Bounded(B, Len(t)) /\ IsPositions(B)
      /\ N \in Nat /\ \A i : Count(B, i) \in Nat /\ Count(B, i) <= N
  BY BreaksProperties, PositionsFinite
<1>2. s \in Nat /\ LineEnd(t, a + 1) \in Nat
  <2>1. a + 1 \in Nat
    OBVIOUS
  <2>2. LineEnd(t, a) \in 0..(Len(t) + 1) /\ LineEnd(t, a + 1) \in 0..(Len(t) + 1)
    BY <2>1, LineEndProperties
  <2> QED BY <2>2, <1>1
<1>3. ASSUME s <= v, NEW i \in 1..(v - s), t[s + i] = "nl"
      PROVE  a < N /\ LineEnd(t, a + 1) <= s + i /\ s + i <= v
  <2>1. s + i \in B /\ s < s + i /\ s + i \in Nat
    BY <1>1, <1>2, <1>3 DEF Breaks
  <2>2. a <= N
    <3>1. a > N => s = Len(t) + 1
      BY LineEndProperties
    <3> QED BY <3>1, <1>1, <1>2, <1>3
  <2>3. Count(B, s) = a
    BY <2>2, LineEndProperties
  <2>4. Count(B, s) < Count(B, s + i)
    BY <1>1, <1>2, <2>1, CountMonotone
  <2>5. a < N /\ Count(B, s + i) >= a + 1
    BY <1>1, <2>3, <2>4
  <2>6. LineEnd(t, a + 1) \in B /\ Count(B, LineEnd(t, a + 1)) = a + 1
    BY <2>5, LineEndProperties
  <2>7. ASSUME s + i < LineEnd(t, a + 1) PROVE FALSE
    <3>1. Count(B, s + i) < Count(B, LineEnd(t, a + 1))
      BY <2>1, <2>6, <2>7, <1>1, CountMonotone
    <3> QED BY <3>1, <2>5, <2>6, <1>1
  <2> QED BY <2>1, <2>5, <2>7, <1>2, <1>3
<1>4. ASSUME NEW i \in DOMAIN buf, buf[i] = "nl"
      PROVE  s <= v /\ i \in 1..(v - s) /\ t[s + i] = "nl"
  <2>1. s <= v
    <3>1. s > v => buf = <<>>
      BY BufferedProperties
    <3>2. DOMAIN <<>> = {}
      OBVIOUS
    <3> QED BY <3>1, <3>2, <1>2, <1>4
  <2>2. DOMAIN buf = 1..(v - s) /\ \A j \in 1..(v - s) : buf[j] = t[s + j]
    BY <2>1, BufferedProperties
  <2> HIDE DEF buf
  <2> QED BY <2>1, <2>2, <1>4
<1>5. ASSUME a < N, LineEnd(t, a + 1) <= v PROVE HasLine(buf)
  <2>1. s < LineEnd(t, a + 1) /\ LineEnd(t, a + 1) \in B
    BY <1>1, <1>5, LineEndProperties
  <2>2. s <= v /\ LineEnd(t, a + 1) - s \in 1..(v - s)
        /\ s + (LineEnd(t, a + 1) - s) = LineEnd(t, a + 1)
    BY <1>2, <1>5, <2>1
  <2>3. DOMAIN buf = 1..(v - s) /\ \A j \in 1..(v - s) : buf[j] = t[s + j]
    BY <2>2, BufferedProperties
  <2>4. t[LineEnd(t, a + 1)] = "nl"
    BY <2>1 DEF Breaks
  <2>5. buf[LineEnd(t, a + 1) - s] = "nl"
    BY <2>2, <2>3, <2>4
  <2> HIDE DEF buf
  <2> QED BY <2>2, <2>3, <2>5 DEF HasLine
<1>6. ASSUME HasLine(buf) PROVE a < N /\ LineEnd(t, a + 1) <= v
  <2>1. PICK i \in DOMAIN buf : buf[i] = "nl"
    BY <1>6 DEF HasLine
  <2>2. a < N /\ LineEnd(t, a + 1) <= s + i /\ s + i <= v /\ i \in 1..(v - s)
    BY <1>3, <1>4, <2>1
  <2> QED BY <2>2, <1>2
<1>7. \A i \in DOMAIN buf : buf[i] = "nl" => LineEnd(t, a + 1) <= s + i
  BY <1>3, <1>4
<1> HIDE DEF buf, N
<1> QED BY <1>5, <1>6, <1>7 DEF buf, N

\* Then the line that is cut off is the next line of the text.
LEMMA BufferedCut ==
    ASSUME NEW X, NEW t \in Seq(X), NEW a \in Nat, NEW v \in 0..Len(t),
           HasLine(Buffered(t, a, v))
    PROVE  LET buf == Buffered(t, a, v) IN
           /\ a + 1 \in 1..LineCount(t)
           /\ SubSeq(buf, 1, Cut(buf) - 1) = Lines(t)[a + 1]
           /\ SubSeq(buf, Cut(buf) + 1, Len(buf)) = Buffered(t, a + 1, v)
<1> DEFINE s == LineEnd(t, a)
           e == LineEnd(t, a + 1)
           buf == Buffered(t, a, v)
           n == v - s
           d == e - s
<1>1. a < Cardinality(Breaks(t)) /\ e <= v
  BY BufferedHasLine
<1>2. Cardinality(Breaks(t)) \in Nat /\ Len(t) \in Nat
  BY BreaksProperties
<1>3. s < e /\ e \in Breaks(t) /\ e \in Nat /\ s \in Nat
  BY <1>1, <1>2, LineEndProperties
<1>4. n \in Nat /\ d \in 1..n /\ s + n = v /\ s + d = e /\ s <= v
  BY <1>1, <1>3
<1>5. /\ buf = SubSeq(t, s + 1, s + n) /\ Len(buf) = n /\ DOMAIN buf = 1..n
      /\ buf \in Seq(X) /\ \A i \in 1..n : buf[i] = t[s + i]
  <2>1. LineEnd(t, a) <= v
    BY <1>4
  <2> QED BY <2>1, BufferedProperties
<1>6. Cut(buf) = d
  <2>1. buf[d] = "nl" /\ d \in DOMAIN buf
    BY <1>3, <1>4, <1>5 DEF Breaks
  <2>2. ASSUME NEW k \in DOMAIN buf, buf[k] = "nl" PROVE d <= k
    <3>1. k \in Nat
      BY <1>4, <1>5
    <3>2. e <= s + k
      BY <2>2, BufferedHasLine
    <3> QED BY <3>1, <3>2, <1>3
  <2>3. DOMAIN buf \subseteq Int
    BY <1>5
  <2> HIDE DEF buf, d
  <2>4. /\ Cut(buf) \in DOMAIN buf /\ buf[Cut(buf)] = "nl"
        /\ \A k \in DOMAIN buf : buf[k] = "nl" => Cut(buf) <= k
    BY <2>1, <2>2 DEF Cut
  <2>5. Cut(buf) <= d /\ d <= Cut(buf)
    BY <2>1, <2>2, <2>4
  <2> QED BY <2>1, <2>3, <2>4, <2>5
<1>7. a + 1 \in 1..LineCount(t)
  BY <1>1, <1>2, LineCountProperties
<1>8. SubSeq(buf, 0 + 1, 0 + (d - 1)) = Lines(t)[a + 1]
  <2>1. Lines(t)[a + 1] = SubSeq(t, s + 1, e - 1)
    <3>1. (a + 1) - 1 = a
      OBVIOUS
    <3> QED BY <3>1, <1>7 DEF Lines
  <2>2. 0 \in Nat /\ d - 1 \in Nat /\ 0 + (d - 1) <= n /\ s + n <= Len(t)
    BY <1>2, <1>4
  <2>3. SubSeq(SubSeq(t, s + 1, s + n), 0 + 1, 0 + (d - 1)) = SubSeq(t, s + 0 + 1, s + 0 + (d - 1))
    <3> HIDE DEF s, n, d
    <3> QED BY <2>2, <1>3, <1>4, PartOfPart
  <2>4. s + 0 + 1 = s + 1 /\ s + 0 + (d - 1) = e - 1
    BY <1>3, <1>4
  <2> QED BY <2>1, <2>3, <2>4, <1>5
<1>9. SubSeq(buf, d + 1, d + (n - d)) = Buffered(t, a + 1, v)
  <2>1. Buffered(t, a + 1, v) = SubSeq(t, e + 1, v)
    BY DEF Buffered
  <2>2. d \in Nat /\ n - d \in Nat /\ d + (n - d) <= n /\ s + n <= Len(t)
    BY <1>2, <1>4
  <2>3. SubSeq(SubSeq(t, s + 1, s + n), d + 1, d + (n - d)) = SubSeq(t, s + d + 1, s + d + (n - d))
    <3> HIDE DEF s, n, d
    <3> QED BY <2>2, <1>3, <1>4, PartOfPart
  <2>4. s + d + 1 = e + 1 /\ s + d + (n - d) = v
    BY <1>3, <1>4
  <2> QED BY <2>1, <2>3, <2>4, <1>5
<1>10. /\ 0 + 1 = 1 /\ 0 + (d - 1) = Cut(buf) - 1
       /\ d + 1 = Cut(buf) + 1 /\ d + (n - d) = Len(buf)
  <2> HIDE DEF buf, d
  <2> QED BY <1>4, <1>5, <1>6
<1> HIDE DEF buf, d, n
<1>11. /\ SubSeq(buf, 1, Cut(buf) - 1) = Lines(t)[a + 1]
       /\ SubSeq(buf, Cut(buf) + 1, Len(buf)) = Buffered(t, a + 1, v)
  BY <1>8, <1>9, <1>10
<1> QED BY <1>7, <1>11 DEF buf

\* At the end of the text, what is buffered is the last line, or there is none.
LEMMA BufferedRest ==
    ASSUME NEW X, NEW t \in Seq(X), NEW a \in Nat, ~HasLine(Buffered(t, a, Len(t)))
    PROVE  LET buf == Buffered(t, a, Len(t)) IN
           /\ buf = <<>> <=> a + 1 > LineCount(t)
           /\ buf # <<>> => a + 1 \in 1..LineCount(t) /\ buf = Lines(t)[a + 1]
           /\ Buffered(t, a + 1, Len(t)) = <<>>
<1> DEFINE s == LineEnd(t, a)
           N == Cardinality(Breaks(t))
           v == Len(t)
           buf == Buffered(t, a, v)
<1>1. N \in Nat /\ v \in Nat /\ v \in 0..Len(t)
  BY BreaksProperties
<1>2. a >= N
  <2>1. a < N => LineEnd(t, a + 1) \in 1..v
    BY LineEndProperties
  <2> QED BY <2>1, <1>1, BufferedHasLine
<1>3. LineEnd(t, a + 1) = v + 1
  <2>1. a + 1 \in Nat /\ a + 1 > N
    BY <1>1, <1>2
  <2> QED BY <2>1, LineEndProperties
<1>4. Buffered(t, a + 1, v) = <<>>
  <2>1. a + 1 \in Nat /\ LineEnd(t, a + 1) > v
    BY <1>1, <1>3
  <2> QED BY <2>1, <1>1, BufferedProperties
<1>5. LineCount(t) \in {N, N + 1} /\ (LineCount(t) = N <=> LineEnd(t, N) = v)
  BY LineCountProperties
<1>6. CASE a > N
  <2>1. s = v + 1
    BY <1>6, LineEndProperties
  <2>2. buf = <<>>
    <3>1. LineEnd(t, a) > v
      BY <2>1, <1>1
    <3> QED BY <3>1, <1>1, BufferedProperties
  <2>3. a + 1 > LineCount(t)
    BY <1>1, <1>5, <1>6
  <2> QED BY <2>2, <2>3, <1>4
<1>7. CASE a = N
  <2>1. s < LineEnd(t, a + 1) /\ s \in Nat
    BY <1>1, <1>7, LineEndProperties
  <2>2. s <= v
    BY <2>1, <1>1, <1>3
  <2>3. Len(buf) = v - s /\ buf \in Seq(X) /\ v - s \in Nat /\ buf = SubSeq(t, s + 1, v)
    BY <2>2, <1>1, BufferedProperties DEF Buffered
  <2>4. buf = <<>> <=> Len(buf) = 0
    <3> HIDE DEF buf
    <3> QED BY <2>3, EmptySeq
  <2>5. buf = <<>> <=> s = v
    BY <2>1, <2>3, <2>4, <1>1
  <2>6. LineCount(t) = N <=> s = v
    BY <1>5, <1>7
  <2>7. buf = <<>> <=> a + 1 > LineCount(t)
    BY <2>5, <2>6, <1>1, <1>5, <1>7
  <2>8. ASSUME buf # <<>> PROVE a + 1 \in 1..LineCount(t) /\ buf = Lines(t)[a + 1]
    <3>1. a + 1 = LineCount(t) /\ a + 1 \in 1..LineCount(t) /\ (a + 1) - 1 = a
      BY <2>5, <2>6, <2>8, <1>1, <1>5, <1>7
    <3>2. Lines(t)[a + 1] = SubSeq(t, s + 1, LineEnd(t, a + 1) - 1)
      BY <3>1 DEF Lines
    <3>3. LineEnd(t, a + 1) - 1 = v
      BY <1>1, <1>3
    <3> QED BY <3>1, <3>2, <3>3, <2>3
  <2> QED BY <2>7, <2>8, <1>4
<1> QED BY <1>1, <1>2, <1>6, <1>7

(***************************************************************************)
(* Windows                                                                 *)
(***************************************************************************)
\* Two parts that meet.
LEMMA PartsMeet ==
    ASSUME NEW X, NEW l \in Seq(X), NEW a \in Nat, NEW b \in Nat, NEW c \in Nat,
           a <= b, b <= c, c <= Len(l)
    PROVE  SubSeq(l, a + 1, b) \o SubSeq(l, b + 1, c) = SubSeq(l, a + 1, c)
<1>1. /\ a + 1 \in 1..(Len(l) + 1) /\ b \in ((a + 1) - 1)..Len(l) /\ c \in b..Len(l)
  BY LenProperties
<1> QED BY <1>1, ConcatAdjacentSubSeq

\* A window has the lines from + 2 to from + size + 1, those of them that exist.
LEMMA WindowProperties ==
    ASSUME NEW X, NEW l \in Seq(X), NEW from \in Nat, NEW size \in Nat
    PROVE  LET w == Window(l, from, size) IN
           /\ w \in Seq(X) /\ Len(w) \in Nat /\ Len(w) <= size /\ DOMAIN w = 1..Len(w)
           /\ from + 1 + Len(w) <= Len(l) \/ w = <<>>
           /\ \A i \in 1..Len(w) : w[i] = l[from + 1 + i]
           /\ \A k \in 1..Len(l) : from + 2 <= k /\ k <= from + size + 1 =>
                 k - (from + 1) \in 1..Len(w)
           /\ from + size + 1 >= Len(l) => w = SubSeq(l, from + 2, Len(l))
           /\ from + 1 <= Len(l) => 
                 Len(w) = Smaller(from + size + 1, Len(l)) - (from + 1)
<1> DEFINE e == Smaller(from + size + 1, Len(l))
           w == SubSeq(l, from + 2, e)
<1>0. Len(l) \in Nat
  BY LenProperties
<1>1. /\ e \in Nat /\ e <= Len(l) /\ e <= from + size + 1
      /\ e = Len(l) \/ e = from + size + 1
      /\ from + size + 1 >= Len(l) => e = Len(l)
  BY <1>0 DEF Smaller
<1> HIDE DEF e
<1>2. CASE e <= from + 1
  <2>1. w = <<>> 
    BY <1>1, <1>2, SubSeqEmpty
  <2>2. /\ <<>> \in Seq(X) /\ Len(<<>>) = 0 /\ DOMAIN <<>> = 1..0
    BY EmptySeq
  <2>3. \A k \in 1..Len(l) : ~(from + 2 <= k /\ k <= from + size + 1)
    BY <1>0, <1>1, <1>2
  <2>4. from + 1 <= Len(l) => e - (from + 1) = 0
    BY <1>0, <1>1, <1>2
  <2> HIDE DEF w
  <2> QED BY <2>1, <2>2, <2>3, <2>4, <1>1 DEF Window, w, e
<1>3. CASE e > from + 1
  <2> DEFINE m == e - (from + 1)
             p == from + 1
  <2>1. /\ m \in Nat /\ p \in Nat /\ p + m = e /\ p + m <= Len(l) /\ m <= size /\ p + 1 = from + 2
    BY <1>1, <1>3
  <2>2. /\ SubSeq(l, p + 1, p + m) \in Seq(X) /\ Len(SubSeq(l, p + 1, p + m)) = m
        /\ DOMAIN SubSeq(l, p + 1, p + m) = 1..m
        /\ \A i \in 1..m : SubSeq(l, p + 1, p + m)[i] = l[p + i]
    <3> HIDE DEF p, m
    <3> QED BY <2>1, PartProperties
  <2>3. SubSeq(l, p + 1, p + m) = w
    BY <2>1
  <2>4. /\ w \in Seq(X) /\ Len(w) = m /\ DOMAIN w = 1..m
        /\ \A i \in 1..m : w[i] = l[p + i]
    BY <2>2, <2>3
  <2>5. \A k \in 1..Len(l) : from + 2 <= k /\ k <= from + size + 1 => k - (from + 1) \in 1..m
    BY <1>0, <1>1
  <2> HIDE DEF w, m
  <2>6. /\ w \in Seq(X) /\ Len(w) \in Nat /\ Len(w) <= size /\ DOMAIN w = 1..Len(w)
        /\ from + 1 + Len(w) <= Len(l)
        /\ \A i \in 1..Len(w) : w[i] = l[from + 1 + i]
        /\ \A k \in 1..Len(l) : from + 2 <= k /\ k <= from + size + 1 =>
                 k - (from + 1) \in 1..Len(w)
    BY <2>1, <2>4, <2>5
  <2>7. from + size + 1 >= Len(l) => w = SubSeq(l, from + 2, Len(l))
    BY <1>1 DEF w
  <2>8. Len(w) = e - (from + 1)
    BY <2>4 DEF m
  <2>9. Window(l, from, size) = w
    BY DEF Window, w, e
  <2> QED BY <2>6, <2>7, <2>8, <2>9 DEF e
<1> QED BY <1>1, <1>2, <1>3

\* How a window grows: empty at first, by the next line, and no further than the lines.
LEMMA WindowGrows ==
    ASSUME NEW X, NEW l \in Seq(X), NEW from \in Nat, NEW size \in Nat
    PROVE  /\ Window(l, from, 0) = <<>>
           /\ from + size + 2 <= Len(l) =>
                 /\ Append(Window(l, from, size), l[from + size + 2]) = Window(l, from, size + 1)
                 /\ Len(Window(l, from, size)) = size
           /\ \A more \in Nat : from + size + 1 >= Len(l) /\ size <= more =>
                 Window(l, from, size) = Window(l, from, more)
           /\ from + 1 >= Len(l) => Window(l, from, size) = <<>>
<1>0. Len(l) \in Nat
  BY LenProperties
<1>1. Window(l, from, 0) = <<>>
  <2>1. 0 \in Nat
    OBVIOUS
  <2>2. Len(Window(l, from, 0)) <= 0 /\ Len(Window(l, from, 0)) \in Nat
        /\ Window(l, from, 0) \in Seq(X)
    BY <2>1, WindowProperties
  <2> QED BY <2>2, EmptySeq
<1>2. ASSUME from + size + 2 <= Len(l)
      PROVE  /\ Append(Window(l, from, size), l[from + size + 2]) = Window(l, from, size + 1)
             /\ Len(Window(l, from, size)) = size
  <2> DEFINE w == Window(l, from, size)
             z == Window(l, from, size + 1)
             x == l[from + size + 2]
  <2>1. size + 1 \in Nat /\ from + 1 <= Len(l)
    BY <1>0, <1>2
  <2>2. Smaller(from + size + 1, Len(l)) = from + size + 1
        /\ Smaller(from + (size + 1) + 1, Len(l)) = from + size + 2
    BY <1>0, <1>2 DEF Smaller
  <2>3. /\ w \in Seq(X) /\ \A i \in 1..Len(w) : w[i] = l[from + 1 + i]
        /\ Len(w) = Smaller(from + size + 1, Len(l)) - (from + 1)
    BY <2>1, WindowProperties
  <2>4. /\ z \in Seq(X) /\ \A i \in 1..Len(z) : z[i] = l[from + 1 + i]
        /\ Len(z) = Smaller(from + (size + 1) + 1, Len(l)) - (from + 1)
    BY <2>1, WindowProperties
  <2>5. Len(w) = size /\ Len(z) = size + 1
    BY <2>2, <2>3, <2>4
  <2>6. x \in X
    <3>1. from + size + 2 \in 1..Len(l)
      BY <1>0, <1>2
    <3> QED BY <3>1, ElementOfSeq
  <2> HIDE DEF w, z, x
  <2>7. /\ Append(w, x) \in Seq(X) /\ Len(Append(w, x)) = size + 1
        /\ \A i \in 1..size : Append(w, x)[i] = w[i]
        /\ Append(w, x)[size + 1] = x
    BY <2>3, <2>5, <2>6, AppendProperties
  <2>8. ASSUME NEW i \in 1..(size + 1) PROVE Append(w, x)[i] = z[i]
    <3>1. CASE i <= size
      BY <3>1, <2>3, <2>4, <2>5, <2>7
    <3>2. CASE i = size + 1
      <4>1. from + 1 + i = from + size + 2
        BY <3>2
      <4> QED BY <4>1, <3>2, <2>4, <2>5, <2>7 DEF x
    <3>3. i <= size \/ i = size + 1
      OBVIOUS
    <3> QED BY <3>1, <3>2, <3>3, Zenon
  <2>9. Append(w, x) = z
    BY <2>4, <2>5, <2>7, <2>8, SeqEqual
  <2> QED BY <2>5, <2>9 DEF w, z, x
<1>3. ASSUME NEW more \in Nat, from + size + 1 >= Len(l), size <= more
      PROVE  Window(l, from, size) = Window(l, from, more)
  <2>1. from + more + 1 >= Len(l)
    BY <1>0, <1>3
  <2> QED BY <2>1, <1>3, WindowProperties
<1>4. ASSUME from + 1 >= Len(l) PROVE Window(l, from, size) = <<>>
  <2>1. from + 0 + 1 >= Len(l) /\ 0 <= size /\ 0 \in Nat
    BY <1>4
  <2>2. from + size + 1 >= Len(l)
    BY <1>0, <1>4
  <2>3. /\ Window(l, from, size) = SubSeq(l, from + 2, Len(l))
        /\ Window(l, from, 0) = SubSeq(l, from + 2, Len(l))
    BY <2>1, <2>2, WindowProperties
  <2> QED BY <2>3, <1>1
<1> QED BY <1>1, <1>2, <1>3, <1>4

(***************************************************************************)
(* The inductive invariant                                                 *)
(***************************************************************************)
\* The text the reader sees, its lines, and how much of it has come in.
Seen  == TextOf(file, Cuts(chunk))
Total == LineCount(Seen)
Given == Count(Starts(file, Cuts(chunk)), pulled)

\* The types that do not follow from the other parts.
Typed ==
    /\ file \in Seq(Byte) /\ chunk \in ChunkSizes
    /\ offset \in Nat /\ limit \in 0..PageMaxRows /\ first \in Nat
    /\ pulled \in 0..Len(file)
    /\ phase \in {"header", "skip", "collect", "peek", "parse", "done", "failed"}
    /\ asks \in Nat /\ skipped \in 0..offset /\ hasMore \in BOOLEAN
    /\ rows \in Seq(Text)

\* The buffer begins behind the line that was asked for last.
Reading ==
    /\ pulled % chunk = 0 \/ Exhausted
    /\ buffer = Buffered(Seen, asks, Given)
    /\ LineEnd(Seen, asks) <= Given \/ Exhausted
    /\ PullsNoMoreThanNeeded

\* Where the reader is in each phase: how many lines it asked for, and what it
\* kept of them.  A line beyond the last one was asked for twice at most.
AtHeader == asks = 0 /\ skipped = 0 /\ header = <<>> /\ rows = <<>> /\ ~hasMore

AtSkip == asks = skipped + 1 /\ asks <= Total /\ rows = <<>>

AtCollect ==
    /\ rows = Window(Lines(Seen), offset, Len(rows))
    /\ Len(rows) <= limit
    /\ \/ asks = offset + 1 + Len(rows) /\ asks <= Total
       \/ asks = Total + 1 /\ Total <= offset + 1 /\ rows = <<>>

AtPeek ==
    /\ rows = Window(Lines(Seen), offset, limit)
    /\ \/ asks = offset + limit + 1 /\ asks <= Total
       \/ asks \in (Total + 1)..(Total + 2) /\ Total <= offset + limit + 1

AtEnd ==
    /\ rows = Window(Lines(Seen), offset, limit)
    /\ hasMore = (offset + limit + 1 < Total)
    /\ asks <= Total + 3

Paging ==
    /\ phase = "header" => AtHeader
    /\ phase = "skip" => AtSkip
    /\ phase = "collect" => AtCollect
    /\ phase = "peek" => AtPeek
    /\ phase \in {"parse", "done", "failed"} => AtEnd
    /\ phase # "header" /\ Total > 0 => header = Lines(Seen)[1]
    /\ phase # "header" /\ Total = 0 => phase = "done" /\ header = <<>>
    /\ phase = "done" => Parses
    /\ phase = "failed" => ~Parses

\* The pages before this one, and this one once it is complete.
Collected ==
    /\ first <= offset
    /\ offset = first \/ offset < Total
    /\ phase # "done" => got = SubSeq(Lines(Seen), first + 2, offset + 1)
    /\ phase = "done" =>
          got = SubSeq(Lines(Seen), first + 2, Smaller(offset + limit + 1, Total))

IInv == Typed /\ Reading /\ Paging /\ Collected

(***************************************************************************)
(* What the reader sees                                                    *)
(***************************************************************************)
LEMMA SeenProperties ==
    ASSUME Typed
    PROVE  /\ chunk \in Nat \ {0} /\ Text = Seq(Characters)
           /\ Len(file) \in Nat /\ Seen \in Text /\ Len(Seen) \in Nat
           /\ Total \in Nat /\ Lines(Seen) \in Seq(Text) /\ Len(Lines(Seen)) = Total
           /\ \A k \in 1..Total : Lines(Seen)[k] \in Text
           /\ Given \in 0..Len(Seen)
           /\ Exhausted => Given = Len(Seen)
           /\ None \notin Text
<1> USE DEF Typed
<1>1. chunk \in Nat \ {0} /\ None \notin Text
  BY ConstantsAssumption DEF Text
<1>2. Text = Seq(Characters)
  BY DEF Text, Characters
<1>3. /\ Len(file) \in Nat /\ Seen \in Seq(Characters)
      /\ IsPositions(Starts(file, Cuts(chunk)))
      /\ Len(Seen) = Cardinality(Starts(file, Cuts(chunk)))
      /\ Count(Starts(file, Cuts(chunk)), Len(file)) = Cardinality(Starts(file, Cuts(chunk)))
  BY TextProperties DEF Seen
<1>4. Given \in Nat /\ Given <= Len(Seen) /\ Len(Seen) \in Nat
  BY <1>3, PositionsFinite DEF Given
<1>5. Exhausted => Given = Len(Seen)
  BY <1>3 DEF Exhausted, Given
<1>6. Total \in Nat /\ Lines(Seen) \in Seq(Text) /\ Len(Lines(Seen)) = Total
      /\ \A k \in 1..Total : Lines(Seen)[k] \in Text
  BY <1>2, <1>3, LinesProperties, LineCountProperties DEF Total
<1> QED BY <1>1, <1>2, <1>3, <1>4, <1>5, <1>6

\* The text, its lines and how much of them is given depend on three variables only.
LEMMA SeenUnchanged ==
    ASSUME UNCHANGED <<file, chunk>>
    PROVE  /\ Seen' = Seen /\ Total' = Total /\ Lines(Seen)' = Lines(Seen)
           /\ pulled' = pulled => Given' = Given /\ Exhausted' = Exhausted
           /\ pulled' = pulled /\ UNCHANGED <<offset, limit>> =>
                 PullsNoMoreThanNeeded' = PullsNoMoreThanNeeded
<1>1. Seen' = Seen
  BY DEF Seen
<1>2. Total' = Total /\ Lines(Seen)' = Lines(Seen)
  BY <1>1 DEF Total
<1>3. pulled' = pulled => Given' = Given /\ Exhausted' = Exhausted
  BY DEF Given, Exhausted
<1>4. pulled' = pulled /\ UNCHANGED <<offset, limit>> =>
         PullsNoMoreThanNeeded' = PullsNoMoreThanNeeded
  BY DEF PullsNoMoreThanNeeded
<1> QED BY <1>1, <1>2, <1>3, <1>4

\* A line that is asked for is the next one; there is none only behind the last.
LEMMA NextLineStep ==
    ASSUME Typed, Reading, NextLine, UNCHANGED <<file, chunk, offset, limit>>
    PROVE  /\ asks + 1 <= Total => Line = Lines(Seen)[asks + 1] /\ Line # None
           /\ asks + 1 > Total => Line = None
           /\ Line # None => Line = Lines(Seen)[asks + 1] /\ asks + 1 <= Total
           /\ asks' = asks + 1 /\ pulled' = pulled
           /\ Reading'
<1>1. /\ Text = Seq(Characters) /\ Seen \in Seq(Characters) /\ Len(Seen) \in Nat
      /\ Total \in Nat /\ Given \in 0..Len(Seen)
      /\ Exhausted => Given = Len(Seen)
      /\ None \notin Text /\ \A k \in 1..Total : Lines(Seen)[k] \in Text
  BY SeenProperties
<1>2. asks \in Nat
  BY DEF Typed
<1>3. buffer = Buffered(Seen, asks, Given)
  BY DEF Reading
<1>4. asks' = asks + 1 /\ pulled' = pulled
  BY DEF NextLine
<1>5. /\ HasLine(buffer) \/ Exhausted
      /\ HasLine(buffer) => buffer' = SubSeq(buffer, Cut(buffer) + 1, Len(buffer))
      /\ ~HasLine(buffer) => buffer' = <<>>
  BY DEF NextLine
<1>6. ASSUME HasLine(buffer)
      PROVE  /\ asks + 1 \in 1..Total /\ Line = Lines(Seen)[asks + 1] /\ Line \in Text
             /\ buffer' = Buffered(Seen, asks + 1, Given)
             /\ LineEnd(Seen, asks + 1) <= Given
  <2>1. HasLine(Buffered(Seen, asks, Given))
    BY <1>3, <1>6
  <2>2. LineEnd(Seen, asks + 1) <= Given
    BY <2>1, <1>1, <1>2, BufferedHasLine
  <2>3. /\ asks + 1 \in 1..LineCount(Seen)
        /\ SubSeq(buffer, 1, Cut(buffer) - 1) = Lines(Seen)[asks + 1]
        /\ SubSeq(buffer, Cut(buffer) + 1, Len(buffer)) = Buffered(Seen, asks + 1, Given)
    BY <2>1, <1>1, <1>2, <1>3, BufferedCut
  <2>4. Line = SubSeq(buffer, 1, Cut(buffer) - 1)
    BY <1>6 DEF Line
  <2> QED BY <2>2, <2>3, <2>4, <1>1, <1>5, <1>6 DEF Total
<1>7. ASSUME ~HasLine(buffer)
      PROVE  /\ Exhausted
             /\ buffer' = Buffered(Seen, asks + 1, Given)
             /\ asks + 1 > Total => Line = None
             /\ asks + 1 <= Total => Line = Lines(Seen)[asks + 1] /\ Line \in Text
  <2>1. Exhausted /\ Given = Len(Seen) /\ buffer' = <<>>
    BY <1>1, <1>5, <1>7
  <2>2. ~HasLine(Buffered(Seen, asks, Len(Seen))) /\ buffer = Buffered(Seen, asks, Len(Seen))
    BY <2>1, <1>3, <1>7
  <2>3. /\ buffer = <<>> <=> asks + 1 > LineCount(Seen)
        /\ buffer # <<>> => asks + 1 \in 1..LineCount(Seen) /\ buffer = Lines(Seen)[asks + 1]
        /\ Buffered(Seen, asks + 1, Len(Seen)) = <<>>
    BY <2>2, <1>1, <1>2, BufferedRest
  <2>4. Line = IF buffer = <<>> THEN None ELSE buffer
    BY <1>7 DEF Line
  <2> QED BY <2>1, <2>3, <2>4, <1>1, <1>2 DEF Total
<1>8. /\ asks + 1 <= Total => Line = Lines(Seen)[asks + 1] /\ Line # None
      /\ asks + 1 > Total => Line = None
      /\ Line # None => Line = Lines(Seen)[asks + 1] /\ asks + 1 <= Total
  <2>1. CASE HasLine(buffer)
    BY <2>1, <1>1, <1>2, <1>6
  <2>2. CASE ~HasLine(buffer)
    BY <2>2, <1>1, <1>2, <1>7
  <2> QED BY <2>1, <2>2
<1>9. Reading'
  <2>1. /\ Seen' = Seen /\ Given' = Given /\ Exhausted' = Exhausted
        /\ PullsNoMoreThanNeeded'
    BY <1>4, SeenUnchanged DEF Reading
  <2>2. (pulled % chunk = 0 \/ Exhausted)'
    BY <2>1, <1>4 DEF Reading
  <2>3. (buffer = Buffered(Seen, asks, Given))'
    BY <2>1, <1>4, <1>6, <1>7
  <2>4. (LineEnd(Seen, asks) <= Given \/ Exhausted)'
    BY <2>1, <1>4, <1>6, <1>7
  <2> QED BY <2>1, <2>2, <2>3, <2>4 DEF Reading
<1> QED BY <1>4, <1>8, <1>9

(***************************************************************************)
(* Steps that leave a part of the invariant alone                          *)
(***************************************************************************)
LEMMA ReadingKept ==
    ASSUME Reading, UNCHANGED <<request, stream, asks>>
    PROVE  Reading'
<1>1. UNCHANGED <<file, chunk, offset, limit, pulled, buffer, asks>>
  BY DEF request, stream
<1>2. /\ Seen' = Seen /\ Given' = Given /\ Exhausted' = Exhausted
      /\ PullsNoMoreThanNeeded'
  BY <1>1, SeenUnchanged DEF Reading
<1> QED BY <1>1, <1>2 DEF Reading

\* The place on the page is kept while these variables are.
LEMMA PagingKept ==
    ASSUME Paging, UNCHANGED <<request, phase, asks, skipped, header, rows, hasMore>>
    PROVE  Paging'
<1>1. UNCHANGED <<file, chunk, offset, limit>>
  BY DEF request
<1>2. Total' = Total /\ Lines(Seen)' = Lines(Seen)
  BY <1>1, SeenUnchanged
<1>3. /\ AtHeader' = AtHeader /\ AtSkip' = AtSkip /\ AtCollect' = AtCollect
      /\ AtPeek' = AtPeek /\ AtEnd' = AtEnd /\ Parses' = Parses
  BY <1>1, <1>2 DEF AtHeader, AtSkip, AtCollect, AtPeek, AtEnd, Parses
<1> QED BY <1>2, <1>3 DEF Paging

\* The rows so far are kept by every step that ends no page.
LEMMA CollectedKept ==
    ASSUME Collected, UNCHANGED <<request, got>>, phase' = phase \/ "done" \notin {phase, phase'}
    PROVE  Collected'
<1>1. UNCHANGED <<file, chunk, offset, limit, first, got>>
  BY DEF request
<1>2. Total' = Total /\ Lines(Seen)' = Lines(Seen)
  BY <1>1, SeenUnchanged
<1> QED BY <1>1, <1>2 DEF Collected

(***************************************************************************)
(* A chunk                                                                 *)
(***************************************************************************)
\* As long as chunks come in, no line behind the last one was asked for, and only
\* lines that the page needs.
LEMMA AsksWithinPage ==
    ASSUME IInv, ~Exhausted, phase \in {"header", "skip", "collect", "peek"}
    PROVE  asks < offset + limit + 2 /\ LineEnd(Seen, asks) <= Given
<1>1. /\ Seen \in Seq(Characters) /\ Total \in Nat /\ Given \in 0..Len(Seen) /\ Len(Seen) \in Nat
  BY SeenProperties DEF IInv
<1>2. /\ asks \in Nat /\ offset \in Nat /\ limit \in Nat /\ skipped \in 0..offset
  BY ConstantsAssumption DEF IInv, Typed
<1>3. LineEnd(Seen, asks) <= Given
  BY DEF IInv, Reading
<1>4. asks <= Total
  <2>1. Total \in {Cardinality(Breaks(Seen)), Cardinality(Breaks(Seen)) + 1}
        /\ Cardinality(Breaks(Seen)) \in Nat
    BY <1>1, LineCountProperties, BreaksProperties DEF Total
  <2>2. asks > Cardinality(Breaks(Seen)) => LineEnd(Seen, asks) = Len(Seen) + 1
    BY <1>1, <1>2, LineEndProperties
  <2> QED BY <2>1, <2>2, <1>1, <1>2, <1>3
<1>5. CASE phase = "header"
  BY <1>2, <1>3, <1>5 DEF IInv, Paging, AtHeader
<1>6. CASE phase = "skip"
  BY <1>2, <1>3, <1>6 DEF IInv, Paging, AtSkip
<1>7. CASE phase = "collect"
  <2>1. AtCollect
    BY <1>7 DEF IInv, Paging
  <2>2. asks = offset + 1 + Len(rows) /\ Len(rows) <= limit /\ Len(rows) \in Nat
    <3>1. Len(rows) \in Nat
      BY LenProperties DEF IInv, Typed
    <3> QED BY <2>1, <1>1, <1>2, <1>4, <3>1 DEF AtCollect
  <2> QED BY <2>2, <1>2, <1>3
<1>8. CASE phase = "peek"
  <2>1. AtPeek
    BY <1>8 DEF IInv, Paging
  <2> QED BY <2>1, <1>1, <1>2, <1>3, <1>4 DEF AtPeek
<1> QED BY <1>5, <1>6, <1>7, <1>8

\* A chunk extends the buffer by what the text has next, and it was needed: the
\* newlines up to where it begins are lines that were asked for.
LEMMA PullKeepsReading ==
    ASSUME IInv, PullChunk
    PROVE  Reading' /\ pulled' \in 0..Len(file)
<1> DEFINE S == Starts(file, Cuts(chunk))
           t == Seen
           s == LineEnd(Seen, asks)
<1>1. Typed /\ Reading /\ Paging /\ Collected
  BY DEF IInv
<1>2. /\ chunk \in Nat \ {0} /\ t \in Seq(Characters) /\ Len(t) \in Nat /\ Len(file) \in Nat
      /\ Total \in Nat /\ Given \in 0..Len(t)
  BY <1>1, SeenProperties
<1>3. /\ asks \in Nat /\ offset \in Nat /\ limit \in Nat /\ file \in Seq(Byte)
      /\ pulled \in Nat /\ pulled < Len(file) /\ pulled % chunk = 0
      /\ ~Exhausted /\ ~HasLine(buffer) /\ phase \in {"header", "skip", "collect", "peek"}
  BY <1>1, <1>2, ConstantsAssumption DEF Typed, Reading, PullChunk, Exhausted
<1>4. /\ asks < offset + limit + 2 /\ s <= Given
  BY <1>3, AsksWithinPage
<1>5. /\ pulled' = Smaller(pulled + chunk, Len(file))
      /\ buffer' = buffer \o Decode(SubSeq(file, pulled + 1, pulled'))
      /\ UNCHANGED <<file, chunk, offset, limit, asks>>
  BY DEF PullChunk, request
<1>6. /\ pulled' \in (pulled + 1)..Len(file) /\ pulled' <= pulled + chunk
      /\ pulled' % chunk = 0 \/ pulled' = Len(file)
      /\ Decode(SubSeq(file, pulled + 1, pulled')) =
            SubSeq(TextOf(file, Cuts(chunk)), Count(S, pulled) + 1, Count(S, pulled'))
  BY <1>2, <1>3, <1>5, ChunkOfText
<1>7. /\ IsPositions(S) /\ Breaks(file) \subseteq S
      /\ Len(t) = Cardinality(S)
  BY <1>3, TextProperties DEF Seen
<1>8. /\ Given = Count(S, pulled) /\ Given' = Count(S, pulled') /\ Seen' = Seen
  BY <1>5 DEF Given, Seen
<1>9. /\ Given' \in Nat /\ Given <= Given' /\ Given' <= Len(t)
  <2>1. Count(S, pulled) <= Count(S, pulled')
    BY <1>3, <1>6, <1>7, CountMonotone
  <2>2. Count(S, pulled') \in Nat /\ Count(S, pulled') <= Cardinality(S)
    BY <1>7, PositionsFinite
  <2> QED BY <2>1, <2>2, <1>7, <1>8
<1>10. s \in Nat
  <2>1. s \in 0..(Len(t) + 1)
    BY <1>2, <1>3, LineEndProperties
  <2> QED BY <2>1, <1>2
<1>11. buffer' = Buffered(Seen, asks, Given')
  <2>1. buffer = SubSeq(t, s + 1, Given)
    BY <1>1 DEF Reading, Buffered
  <2>2. Decode(SubSeq(file, pulled + 1, pulled')) = SubSeq(t, Given + 1, Given')
    BY <1>6, <1>8 DEF Seen
  <2>3. SubSeq(t, s + 1, Given) \o SubSeq(t, Given + 1, Given') = SubSeq(t, s + 1, Given')
    <3>1. /\ s \in Nat /\ Given \in Nat /\ Given' \in Nat /\ t \in Seq(Characters)
          /\ s <= Given /\ Given <= Given' /\ Given' <= Len(t)
      BY <1>2, <1>4, <1>9, <1>10
    <3> HIDE DEF t, s
    <3> QED BY <3>1, PartsMeet
  <2> QED BY <2>1, <2>2, <2>3, <1>5 DEF Buffered
<1>12. Newlines(file, pulled) < offset + limit + 2
  <2>1. Breaks(t) = Ranks(Breaks(file), S)
    BY <1>3, BreaksOfText DEF Seen
  <2>2. Count(Ranks(Breaks(file), S), Count(S, pulled)) = Count(Breaks(file), pulled)
    BY <1>3, <1>7, CountRanks
  <2>3. Newlines(file, pulled) = Count(Breaks(t), Given)
    BY <2>1, <2>2, <1>8 DEF Newlines
  <2>4. /\ Cardinality(Breaks(t)) \in Nat /\ IsPositions(Breaks(t))
        /\ Count(Breaks(t), Given) \in Nat
        /\ Count(Breaks(t), Given) <= Cardinality(Breaks(t))
    BY <1>2, BreaksProperties, PositionsFinite
  <2>5. Count(Breaks(t), Given) <= asks
    <3>1. CASE asks >= Cardinality(Breaks(t))
      BY <3>1, <2>4, <1>3
    <3>2. CASE asks < Cardinality(Breaks(t))
      <4>1. ~HasLine(Buffered(t, asks, Given))
        BY <1>1, <1>3 DEF Reading
      <4>2. ~(LineEnd(t, asks + 1) <= Given)
        BY <4>1, <3>2, <1>2, <1>3, BufferedHasLine
      <4>3. /\ LineEnd(t, asks + 1) \in Breaks(t) /\ LineEnd(t, asks + 1) \in 1..Len(t)
            /\ Count(Breaks(t), LineEnd(t, asks + 1)) = asks + 1
        BY <3>2, <1>2, <1>3, LineEndProperties
      <4>4. Given < LineEnd(t, asks + 1) /\ Given \in Int
        BY <4>2, <4>3, <1>2
      <4>5. Count(Breaks(t), Given) < Count(Breaks(t), LineEnd(t, asks + 1))
        BY <4>3, <4>4, <2>4, CountMonotone
      <4> QED BY <4>3, <4>5, <2>4, <1>3
    <3> QED BY <3>1, <3>2, <2>4, <1>3
  <2> QED BY <2>3, <2>4, <2>5, <1>3, <1>4
<1>13. PullsNoMoreThanNeeded'
  <2>1. ((pulled' - 1) \div chunk) * chunk = pulled
    <3>1. pulled' \in (pulled + 1)..(pulled + chunk)
      BY <1>2, <1>3, <1>6
    <3> QED BY <3>1, <1>2, <1>3, ChunkStart
  <2> QED BY <2>1, <1>5, <1>12 DEF PullsNoMoreThanNeeded
<1>14. (pulled % chunk = 0 \/ Exhausted)'
  BY <1>5, <1>6 DEF Exhausted
<1>15. (LineEnd(Seen, asks) <= Given)'
  BY <1>2, <1>4, <1>5, <1>8, <1>9, <1>10
<1>16. (buffer = Buffered(Seen, asks, Given))'
  BY <1>5, <1>8, <1>11
<1>17. pulled' \in 0..Len(file)
  BY <1>3, <1>6
<1> QED BY <1>13, <1>14, <1>15, <1>16, <1>17 DEF Reading

\* Pulling a chunk changes the reader only.
LEMMA PullKeepsInv ==
    ASSUME IInv, PullChunk
    PROVE  IInv'
<1>1. Typed /\ Reading /\ Paging /\ Collected
  BY DEF IInv
<1>2. UNCHANGED <<request, phase, asks, skipped, header, rows, hasMore, got>>
  BY DEF PullChunk
<1>3. Paging' /\ Collected'
  BY <1>1, <1>2, PagingKept, CollectedKept
<1>4. Reading' /\ pulled' \in 0..Len(file)
  BY PullKeepsReading
<1>5. Typed'
  BY <1>1, <1>2, <1>4 DEF Typed, request
<1> QED BY <1>3, <1>4, <1>5 DEF IInv

(***************************************************************************)
(* The lines of a page                                                     *)
(***************************************************************************)
\* What every step that asks for a line does.
LEMMA AskKeeps ==
    ASSUME IInv, NextLine, UNCHANGED request
    PROVE  /\ Typed /\ Paging /\ Collected /\ Reading'
           /\ UNCHANGED <<file, chunk, offset, limit, first, pulled>>
           /\ Total' = Total /\ Lines(Seen)' = Lines(Seen)
           /\ asks \in Nat /\ asks' = asks + 1 /\ Total \in Nat
           /\ offset \in Nat /\ limit \in Nat /\ skipped \in 0..offset
           /\ asks + 1 <= Total => Line = Lines(Seen)[asks + 1] /\ Line # None
           /\ asks + 1 > Total => Line = None
           /\ Line # None => Line = Lines(Seen)[asks + 1] /\ asks + 1 <= Total
           /\ Lines(Seen) \in Seq(Text) /\ Len(Lines(Seen)) = Total
           /\ rows \in Seq(Text) /\ Len(rows) \in Nat
<1>1. Typed /\ Reading /\ Paging /\ Collected
  BY DEF IInv
<1>2. UNCHANGED <<file, chunk, offset, limit, first>>
  BY DEF request
<1>3. /\ asks + 1 <= Total => Line = Lines(Seen)[asks + 1] /\ Line # None
      /\ asks + 1 > Total => Line = None
      /\ Line # None => Line = Lines(Seen)[asks + 1] /\ asks + 1 <= Total
      /\ asks' = asks + 1 /\ pulled' = pulled /\ Reading'
  BY <1>1, <1>2, NextLineStep
<1>4. Total' = Total /\ Lines(Seen)' = Lines(Seen)
  BY <1>2, SeenUnchanged
<1>5. /\ asks \in Nat /\ offset \in Nat /\ limit \in Nat /\ skipped \in 0..offset
      /\ rows \in Seq(Text) /\ Len(rows) \in Nat
  BY <1>1, ConstantsAssumption, LenProperties DEF Typed
<1>6. Total \in Nat /\ Lines(Seen) \in Seq(Text) /\ Len(Lines(Seen)) = Total
  BY <1>1, SeenProperties
<1> QED BY <1>1, <1>2, <1>3, <1>4, <1>5, <1>6

\* The first line is the header; a file without one is an empty page.
LEMMA HeaderKeepsInv ==
    ASSUME IInv, ReadHeader
    PROVE  IInv'
<1>1. /\ NextLine /\ UNCHANGED request /\ phase = "header"
      /\ header' = (IF Line = None THEN header ELSE Line)
      /\ phase' = (IF Line = None THEN "done" ELSE "skip")
      /\ UNCHANGED <<skipped, rows, hasMore, got>>
  BY DEF ReadHeader
<1>2. /\ Typed /\ Paging /\ Collected /\ Reading'
      /\ UNCHANGED <<file, chunk, offset, limit, first, pulled>>
      /\ Total' = Total /\ Lines(Seen)' = Lines(Seen)
      /\ asks' = asks + 1 /\ Total \in Nat /\ offset \in Nat /\ limit \in Nat
      /\ asks + 1 > Total => Line = None
      /\ asks + 1 <= Total => Line # None
      /\ Line # None => Line = Lines(Seen)[asks + 1]
      /\ Lines(Seen) \in Seq(Text) /\ Len(Lines(Seen)) = Total /\ asks \in Nat
  BY <1>1, AskKeeps
<1>3. AtHeader
  BY <1>1, <1>2 DEF Paging
<1>4. asks = 0 /\ asks' = 1 /\ skipped = 0 /\ header = <<>> /\ rows = <<>>
  BY <1>2, <1>3 DEF AtHeader
<1>5. Typed'
  BY <1>1, <1>2 DEF Typed
<1>6. CASE Line # None
  <2>1. Total > 0 /\ Line = Lines(Seen)[1] /\ asks' <= Total
    BY <1>2, <1>4, <1>6
  <2>2. phase' = "skip" /\ header' = Line
    BY <1>1, <1>6
  <2>3. AtSkip'
    BY <2>1, <1>1, <1>2, <1>4 DEF AtSkip
  <2>4. Paging'
    BY <2>1, <2>2, <2>3, <1>2 DEF Paging
  <2>5. Collected'
    BY <2>2, <1>1, <1>2, CollectedKept
  <2> QED BY <2>4, <2>5, <1>2, <1>5 DEF IInv
<1>7. CASE Line = None
  <2>1. Total = 0
    BY <1>2, <1>4, <1>7
  <2>2. phase' = "done" /\ header' = <<>> /\ rows' = <<>>
    BY <1>1, <1>4, <1>7
  <2>3. Window(Lines(Seen), offset, limit) = <<>>
    <3>1. offset + 1 >= Len(Lines(Seen))
      BY <2>1, <1>2
    <3> QED BY <3>1, <1>2, WindowGrows
  <2>4. hasMore = FALSE
    BY <1>2, <1>3 DEF AtHeader, Typed
  <2>5. AtEnd'
    <3>1. /\ ~(offset + limit + 1 < Total)
          /\ asks' <= Total + 3
      BY <2>1, <1>2, <1>4
    <3>2. (hasMore = (offset + limit + 1 < Total))'
      <4>1. hasMore' = FALSE
        BY <2>4, <1>1
      <4>2. (offset' + limit' + 1 < Total') = FALSE
        BY <3>1, <1>2
      <4> QED BY <4>1, <4>2
    <3> QED BY <2>2, <2>3, <3>1, <3>2, <1>2 DEF AtEnd
  <2>6. Parses'
    BY <2>2 DEF Parses, Unparsable
  <2>7. Paging'
    BY <2>1, <2>2, <2>5, <2>6, <1>2 DEF Paging
  <2>8. first = offset /\ got = SubSeq(Lines(Seen), first + 2, offset + 1) /\ first \in Nat
    BY <2>1, <1>1, <1>2 DEF Collected, Typed
  <2>9. Smaller(offset + limit + 1, Total) = 0
    BY <2>1, <1>2 DEF Smaller
  <2>10. /\ SubSeq(Lines(Seen), first + 2, offset + 1) = <<>>
         /\ SubSeq(Lines(Seen), first + 2, 0) = <<>>
    BY <2>8, SubSeqEmpty
  <2>11. Collected'
    BY <2>1, <2>2, <2>8, <2>9, <2>10, <1>1, <1>2 DEF Collected
  <2> QED BY <2>7, <2>11, <1>2, <1>5 DEF IInv
<1> QED BY <1>6, <1>7

\* A skipped row is the next line; behind the last one there is nothing to collect.
LEMMA SkipKeepsInv ==
    ASSUME IInv, SkipRow
    PROVE  IInv'
<1>1. /\ NextLine /\ UNCHANGED request /\ phase = "skip" /\ skipped < offset
      /\ skipped' = (IF Line = None THEN skipped ELSE skipped + 1)
      /\ phase' = (IF Line = None THEN "collect" ELSE phase)
      /\ UNCHANGED <<header, rows, hasMore, got>>
  BY DEF SkipRow
<1>2. /\ Typed /\ Paging /\ Collected /\ Reading'
      /\ UNCHANGED <<file, chunk, offset, limit, first, pulled>>
      /\ Total' = Total /\ Lines(Seen)' = Lines(Seen)
      /\ asks \in Nat /\ asks' = asks + 1 /\ Total \in Nat
      /\ offset \in Nat /\ limit \in Nat /\ skipped \in 0..offset
      /\ asks + 1 <= Total => Line # None
      /\ asks + 1 > Total => Line = None
      /\ Lines(Seen) \in Seq(Text) /\ Len(Lines(Seen)) = Total
  BY <1>1, AskKeeps
<1>3. /\ AtSkip
      /\ Total > 0 => header = Lines(Seen)[1]
      /\ Total > 0
  BY <1>1, <1>2 DEF Paging
<1>4. Typed'
  BY <1>1, <1>2 DEF Typed
<1>5. Collected'
  BY <1>1, <1>2, CollectedKept
<1>6. Paging'
  <2>1. CASE Line # None
    <3>1. AtSkip'
      BY <2>1, <1>1, <1>2, <1>3 DEF AtSkip
    <3> QED BY <2>1, <3>1, <1>1, <1>2, <1>3 DEF Paging
  <2>2. CASE Line = None
    <3>1. asks' = Total + 1 /\ Total <= offset + 1 /\ rows' = <<>> /\ Len(<<>>) = 0
      BY <2>2, <1>1, <1>2, <1>3 DEF AtSkip
    <3>2. Window(Lines(Seen), offset, 0) = <<>>
      BY <1>2, WindowGrows
    <3>3. AtCollect'
      BY <3>1, <3>2, <1>2 DEF AtCollect
    <3> QED BY <2>2, <3>3, <1>1, <1>2, <1>3 DEF Paging
  <2> QED BY <2>1, <2>2
<1> QED BY <1>2, <1>4, <1>5, <1>6 DEF IInv

\* A collected row extends the window by its next line, or the window is complete.
LEMMA CollectKeepsInv ==
    ASSUME IInv, CollectRow
    PROVE  IInv'
<1>1. /\ NextLine /\ UNCHANGED request /\ phase = "collect" /\ Len(rows) < limit
      /\ rows' = (IF Line = None THEN rows ELSE Append(rows, Line))
      /\ phase' = (IF Line = None THEN "peek" ELSE phase)
      /\ UNCHANGED <<skipped, header, hasMore, got>>
  BY DEF CollectRow
<1>2. /\ Typed /\ Paging /\ Collected /\ Reading'
      /\ UNCHANGED <<file, chunk, offset, limit, first, pulled>>
      /\ Total' = Total /\ Lines(Seen)' = Lines(Seen)
      /\ asks \in Nat /\ asks' = asks + 1 /\ Total \in Nat
      /\ offset \in Nat /\ limit \in Nat
      /\ asks + 1 <= Total => Line # None
      /\ asks + 1 > Total => Line = None
      /\ Line # None => Line = Lines(Seen)[asks + 1] /\ asks + 1 <= Total
      /\ Lines(Seen) \in Seq(Text) /\ Len(Lines(Seen)) = Total
      /\ rows \in Seq(Text) /\ Len(rows) \in Nat
  BY <1>1, AskKeeps
<1>3. /\ AtCollect
      /\ Total > 0 => header = Lines(Seen)[1]
      /\ Total > 0
  BY <1>1, <1>2 DEF Paging
<1>4. ASSUME Line # None
      PROVE  /\ asks = offset + 1 + Len(rows) /\ Line \in Text
             /\ Line = Lines(Seen)[offset + Len(rows) + 2]
             /\ offset + Len(rows) + 2 <= Total
  <2>1. asks = offset + 1 + Len(rows)
    BY <1>2, <1>3, <1>4 DEF AtCollect
  <2>2. Line = Lines(Seen)[asks + 1] /\ asks + 1 \in 1..Len(Lines(Seen))
    BY <1>2, <1>4
  <2>3. asks + 1 = offset + Len(rows) + 2
    BY <2>1, <1>2
  <2>4. Line \in Text
    BY <2>2, <1>2, ElementOfSeq
  <2> QED BY <2>1, <2>2, <2>3, <2>4, <1>2
<1>5. rows' \in Seq(Text)
  BY <1>1, <1>2, <1>4, AppendProperties
<1>6. Typed'
  BY <1>1, <1>2, <1>5 DEF Typed
<1>7. Collected'
  BY <1>1, <1>2, CollectedKept
<1>8. Paging'
  <2>1. CASE Line # None
    <3>1. Append(rows, Line) = Window(Lines(Seen), offset, Len(rows) + 1)
      <4>1. rows = Window(Lines(Seen), offset, Len(rows))
        BY <1>3 DEF AtCollect
      <4>2. Append(Window(Lines(Seen), offset, Len(rows)), Lines(Seen)[offset + Len(rows) + 2]) =
            Window(Lines(Seen), offset, Len(rows) + 1)
        BY <2>1, <1>2, <1>4, WindowGrows
      <4> QED BY <2>1, <4>1, <4>2, <1>4
    <3>2. rows' = Append(rows, Line) /\ Len(rows') = Len(rows) + 1
      BY <2>1, <1>1, <1>2, <1>4, AppendProperties
    <3>3. AtCollect'
      <4>1. rows' = Window(Lines(Seen)', offset', Len(rows'))
        BY <3>1, <3>2, <1>2
      <4>2. Len(rows') <= limit'
        BY <3>2, <1>1, <1>2
      <4>3. asks' = offset' + 1 + Len(rows') /\ asks' <= Total'
        BY <3>2, <2>1, <1>2, <1>4
      <4> QED BY <4>1, <4>2, <4>3 DEF AtCollect
    <3> QED BY <2>1, <3>3, <1>1, <1>2, <1>3 DEF Paging
  <2>2. CASE Line = None
    <3>1. rows' = rows /\ phase' = "peek" /\ asks + 1 > Total
      BY <2>2, <1>1, <1>2
    <3>2. rows = Window(Lines(Seen), offset, limit) /\ Total <= offset + limit + 1
          /\ asks' \in (Total + 1)..(Total + 2)
      <4>1. offset + Len(rows) + 1 >= Total
        BY <3>1, <1>2, <1>3 DEF AtCollect
      <4>2. Window(Lines(Seen), offset, Len(rows)) = Window(Lines(Seen), offset, limit)
        BY <4>1, <1>1, <1>2, WindowGrows
      <4>3. asks' \in (Total + 1)..(Total + 2)
        BY <3>1, <1>2, <1>3 DEF AtCollect
      <4> QED BY <4>1, <4>2, <4>3, <1>1, <1>2, <1>3 DEF AtCollect
    <3>3. AtPeek'
      BY <3>1, <3>2, <1>2 DEF AtPeek
    <3> QED BY <3>1, <3>3, <1>2, <1>3, <1>1 DEF Paging
  <2> QED BY <2>1, <2>2
<1> QED BY <1>2, <1>6, <1>7, <1>8 DEF IInv

\* The line behind the window exists just if the text has more lines.
LEMMA PeekKeepsInv ==
    ASSUME IInv, Peek
    PROVE  IInv'
<1>1. /\ NextLine /\ UNCHANGED request /\ phase = "peek"
      /\ hasMore' = (Line # None) /\ phase' = "parse"
      /\ UNCHANGED <<skipped, header, rows, got>>
  BY DEF Peek
<1>2. /\ Typed /\ Paging /\ Collected /\ Reading'
      /\ UNCHANGED <<file, chunk, offset, limit, first, pulled>>
      /\ Total' = Total /\ Lines(Seen)' = Lines(Seen)
      /\ asks \in Nat /\ asks' = asks + 1 /\ Total \in Nat
      /\ offset \in Nat /\ limit \in Nat
      /\ asks + 1 <= Total => Line # None
      /\ asks + 1 > Total => Line = None
  BY <1>1, AskKeeps
<1>3. /\ AtPeek
      /\ Total > 0 => header = Lines(Seen)[1]
      /\ Total > 0
  BY <1>1, <1>2 DEF Paging
<1>4. Typed'
  BY <1>1, <1>2 DEF Typed
<1>5. Collected'
  BY <1>1, <1>2, CollectedKept
<1>6. (Line # None) = (offset + limit + 1 < Total) /\ asks' <= Total + 3
  BY <1>2, <1>3 DEF AtPeek
<1>7. AtEnd'
  BY <1>1, <1>2, <1>3, <1>6 DEF AtEnd, AtPeek
<1>8. Paging'
  BY <1>1, <1>2, <1>3, <1>7 DEF Paging
<1> QED BY <1>2, <1>4, <1>5, <1>8 DEF IInv

(***************************************************************************)
(* A new request                                                           *)
(***************************************************************************)
\* Nothing is pulled and nothing asked for: nothing is buffered.
LEMMA FreshReading ==
    Typed /\ pulled = 0 /\ buffer = <<>> /\ asks = 0 => Reading
<1> SUFFICES ASSUME Typed, pulled = 0, buffer = <<>>, asks = 0 PROVE Reading
  OBVIOUS
<1>1. chunk \in Nat \ {0} /\ Seen \in Seq(Characters) /\ Given \in 0..Len(Seen)
  BY SeenProperties
<1>2. pulled % chunk = 0
  BY <1>1
<1>3. Given = 0
  <2>1. IsPositions(Starts(file, Cuts(chunk)))
    BY TextProperties DEF Typed
  <2> QED BY <2>1, CountStep DEF Given
<1>4. LineEnd(Seen, asks) = 0
  BY DEF LineEnd
<1>5. Buffered(Seen, asks, Given) = <<>>
  BY <1>3, <1>4, SubSeqEmpty DEF Buffered
<1> QED BY <1>2, <1>3, <1>4, <1>5 DEF Reading, PullsNoMoreThanNeeded

(***************************************************************************)
(* Steps that ask for no line                                              *)
(***************************************************************************)
LEMMA EndSkipKeepsInv ==
    ASSUME IInv, EndSkip
    PROVE  IInv'
<1>1. /\ UNCHANGED <<request, stream, asks, skipped, header, rows, hasMore, got>>
      /\ phase = "skip" /\ skipped = offset /\ phase' = "collect"
  BY DEF EndSkip
<1>2. /\ Typed /\ Reading /\ Paging /\ Collected
      /\ UNCHANGED <<file, chunk, offset, limit, first, pulled>>
  BY <1>1 DEF IInv, request, stream
<1>3. /\ Total \in Nat /\ Lines(Seen) \in Seq(Text) /\ Len(Lines(Seen)) = Total
      /\ offset \in Nat /\ limit \in Nat
      /\ Total' = Total /\ Lines(Seen)' = Lines(Seen)
  BY <1>2, SeenProperties, SeenUnchanged, ConstantsAssumption DEF Typed
<1>4. /\ AtSkip
      /\ Total > 0 => header = Lines(Seen)[1]
      /\ Total > 0
  BY <1>1, <1>2, <1>3 DEF Paging
<1>5. Typed' /\ Reading' /\ Collected'
  <2>1. Typed'
    BY <1>1, <1>2 DEF Typed
  <2> QED BY <2>1, <1>1, <1>2, ReadingKept, CollectedKept
<1>6. AtCollect'
  <2>1. Window(Lines(Seen), offset, 0) = <<>>
    BY <1>3, WindowGrows
  <2>2. rows' = <<>> /\ Len(<<>>) = 0 /\ asks' = offset + 1 + 0 /\ asks' <= Total
    BY <1>1, <1>2, <1>3, <1>4 DEF AtSkip
  <2> QED BY <2>1, <2>2, <1>2, <1>3 DEF AtCollect
<1>7. Paging'
  BY <1>1, <1>3, <1>4, <1>6 DEF Paging
<1> QED BY <1>5, <1>7 DEF IInv

\* As many rows as were asked for are the window.
LEMMA EndCollectKeepsInv ==
    ASSUME IInv, EndCollect
    PROVE  IInv'
<1>1. /\ UNCHANGED <<request, stream, asks, skipped, header, rows, hasMore, got>>
      /\ phase = "collect" /\ Len(rows) = limit /\ phase' = "peek"
  BY DEF EndCollect
<1>2. /\ Typed /\ Reading /\ Paging /\ Collected
      /\ UNCHANGED <<file, chunk, offset, limit, first, pulled>>
  BY <1>1 DEF IInv, request, stream
<1>3. /\ Total \in Nat /\ offset \in Nat /\ limit \in Nat
      /\ Total' = Total /\ Lines(Seen)' = Lines(Seen)
  BY <1>2, SeenProperties, SeenUnchanged, ConstantsAssumption DEF Typed
<1>4. /\ AtCollect
      /\ Total > 0 => header = Lines(Seen)[1]
      /\ Total > 0
  BY <1>1, <1>2, <1>3 DEF Paging
<1>5. Typed' /\ Reading' /\ Collected'
  <2>1. Typed'
    BY <1>1, <1>2 DEF Typed
  <2> QED BY <2>1, <1>1, <1>2, ReadingKept, CollectedKept
<1>6. AtPeek'
  <2>1. rows = Window(Lines(Seen), offset, limit)
    BY <1>1, <1>4 DEF AtCollect
  <2>2. \/ asks = offset + limit + 1 /\ asks <= Total
        \/ asks \in (Total + 1)..(Total + 2) /\ Total <= offset + limit + 1
    BY <1>1, <1>3, <1>4 DEF AtCollect
  <2> QED BY <2>1, <2>2, <1>1, <1>2, <1>3 DEF AtPeek
<1>7. Paging'
  BY <1>1, <1>3, <1>4, <1>6 DEF Paging
<1> QED BY <1>5, <1>7 DEF IInv

\* The pages so far and this page are the lines up to its end.
LEMMA ParseKeepsInv ==
    ASSUME IInv, ParseRows
    PROVE  IInv'
<1>1. /\ UNCHANGED <<request, stream, asks, skipped, header, rows, hasMore>>
      /\ phase = "parse" /\ phase' = (IF Parses THEN "done" ELSE "failed")
      /\ got' = (IF Parses THEN got \o rows ELSE got)
  BY DEF ParseRows
<1>2. /\ Typed /\ Reading /\ Paging /\ Collected
      /\ UNCHANGED <<file, chunk, offset, limit, first, pulled>>
  BY <1>1 DEF IInv, request, stream
<1>3. /\ Total \in Nat /\ Lines(Seen) \in Seq(Text) /\ Len(Lines(Seen)) = Total
      /\ offset \in Nat /\ limit \in Nat /\ first \in Nat
      /\ Total' = Total /\ Lines(Seen)' = Lines(Seen)
  BY <1>2, SeenProperties, SeenUnchanged, ConstantsAssumption DEF Typed
<1>4. /\ AtEnd
      /\ Total > 0 => header = Lines(Seen)[1]
      /\ Total > 0
  BY <1>1, <1>2, <1>3 DEF Paging
<1>5. Parses' = Parses
  BY <1>1 DEF Parses
<1>6. Typed' /\ Reading'
  <2>1. Typed'
    BY <1>1, <1>2 DEF Typed
  <2> QED BY <2>1, <1>1, <1>2, ReadingKept
<1>7. AtEnd'
  BY <1>1, <1>2, <1>3, <1>4 DEF AtEnd
<1>8. Paging'
  <2>1. /\ phase' \in {"done", "failed"}
        /\ phase' = "done" => Parses
        /\ phase' = "failed" => ~Parses
    BY <1>1
  <2> QED BY <2>1, <1>1, <1>3, <1>4, <1>5, <1>7 DEF Paging
<1>9. Collected'
  <2> DEFINE L == Lines(Seen)
             e == Smaller(offset + limit + 1, Total)
  <2>1. /\ got = SubSeq(L, first + 2, offset + 1)
        /\ first <= offset /\ (offset = first \/ offset < Total)
    BY <1>1, <1>2 DEF Collected
  <2>2. CASE ~Parses
    <3>1. phase' # "done" /\ got' = got
      BY <2>2, <1>1
    <3> QED BY <2>1, <3>1, <1>2, <1>3 DEF Collected
  <2>3. CASE Parses
    <3>1. rows = SubSeq(L, offset + 2, e)
      BY <1>3, <1>4 DEF AtEnd, Window
    <3>2. got \o rows = SubSeq(L, first + 2, e)
      <4>1. e \in Nat /\ e <= Total /\ (e = Total \/ e = offset + limit + 1)
        BY <1>3 DEF Smaller
      <4> HIDE DEF e
      <4>2. CASE offset < Total
        <5>1. /\ first + 1 \in Nat /\ offset + 1 \in Nat /\ first + 1 <= offset + 1
              /\ offset + 1 <= e /\ e <= Len(L)
          BY <2>1, <4>1, <4>2, <1>3
        <5> HIDE DEF L
        <5>2. SubSeq(L, (first + 1) + 1, offset + 1) \o SubSeq(L, (offset + 1) + 1, e) =
              SubSeq(L, (first + 1) + 1, e)
          BY <5>1, <4>1, <1>3, PartsMeet DEF L
        <5>3. (first + 1) + 1 = first + 2 /\ (offset + 1) + 1 = offset + 2
          BY <1>3
        <5> QED BY <2>1, <3>1, <5>2, <5>3
      <4>3. CASE offset = first
        <5>1. SubSeq(L, first + 2, offset + 1) = <<>>
          BY <4>3, <1>3, SubSeqEmpty
        <5>2. rows \in Seq(Text)
          BY <1>2 DEF Typed
        <5>3. <<>> \o rows = rows
          BY <5>2, ConcatEmptySeq
        <5> HIDE DEF L
        <5> QED BY <2>1, <3>1, <4>3, <5>1, <5>3
      <4> QED BY <2>1, <4>2, <4>3
    <3>3. phase' = "done" /\ got' = got \o rows
      BY <2>3, <1>1
    <3> QED BY <2>1, <3>2, <3>3, <1>2, <1>3 DEF Collected
  <2> QED BY <2>2, <2>3
<1> QED BY <1>6, <1>8, <1>9 DEF IInv

\* A new request begins where the invariant does; its pages follow the last one.
LEMMA NextPageKeepsInv ==
    ASSUME IInv, NextPage
    PROVE  IInv'
<1>1. /\ phase = "done" /\ hasMore /\ limit > 0 /\ offset' = offset + limit
      /\ pulled' = 0 /\ buffer' = <<>> /\ phase' = "header" /\ asks' = 0 /\ skipped' = 0
      /\ header' = <<>> /\ rows' = <<>> /\ hasMore' = FALSE
      /\ UNCHANGED <<file, chunk, limit, first, got>>
  BY DEF NextPage
<1>2. Typed /\ Paging /\ Collected
  BY DEF IInv
<1>3. /\ Total \in Nat /\ offset \in Nat /\ limit \in Nat /\ first \in Nat
      /\ Seen \in Seq(Characters) /\ Len(file) \in Nat /\ chunk \in Nat \ {0}
      /\ Total' = Total /\ Lines(Seen)' = Lines(Seen) /\ Seen' = Seen
  BY <1>1, <1>2, SeenProperties, SeenUnchanged, ConstantsAssumption DEF Typed
<1>4. offset + limit + 1 < Total
  BY <1>1, <1>2 DEF Paging, AtEnd
<1>5. Typed'
  <2>1. <<>> \in Seq(Text)
    BY EmptySeq
  <2>2. offset' \in Nat /\ skipped' \in 0..offset'
    BY <1>1, <1>3
  <2>3. pulled' \in 0..Len(file)'
    BY <1>1, <1>3
  <2>4. phase' = "header" /\ asks' \in Nat /\ hasMore' \in BOOLEAN /\ rows' \in Seq(Text)
    BY <2>1, <1>1
  <2> QED BY <2>2, <2>3, <2>4, <1>1, <1>2 DEF Typed
<1>6. Reading'
  <2>1. (Typed /\ pulled = 0 /\ buffer = <<>> /\ asks = 0)'
    BY <1>1, <1>5
  <2> QED BY <2>1, FreshReading, PTL
<1>7. Paging'
  <2>1. AtHeader'
    BY <1>1 DEF AtHeader
  <2> QED BY <2>1, <1>1 DEF Paging
<1>8. Collected'
  <2>1. /\ got = SubSeq(Lines(Seen), first + 2, Smaller(offset + limit + 1, Total))
        /\ first <= offset
    BY <1>1, <1>2 DEF Collected
  <2>2. Smaller(offset + limit + 1, Total) = (offset + limit) + 1
    BY <1>3, <1>4 DEF Smaller
  <2>3. first <= offset + limit /\ offset + limit < Total
    BY <2>1, <1>3, <1>4
  <2> QED BY <2>1, <2>2, <2>3, <1>1, <1>3 DEF Collected
<1> QED BY <1>5, <1>6, <1>7, <1>8 DEF IInv

(***************************************************************************)
(* The invariant holds                                                     *)
(***************************************************************************)
LEMMA ClampProperties ==
    ASSUME NEW raw, raw # Garbage => raw \in Int, NEW default \in Nat, NEW maximum \in Nat
    PROVE  ClampInt(raw, default, 0, maximum) \in 0..maximum
BY DEF ClampInt, Smaller, Larger

\* The invariant holds of every file, chunk size and query.
LEMMA InvInit == Init => IInv
<1> SUFFICES ASSUME Init PROVE IInv
  OBVIOUS
<1>1. file \in Seq(Byte)
  <2>1. PICK n \in FileSizes : file \in [1..n -> Byte]
    BY DEF Init
  <2>2. n \in Nat
    BY ConstantsAssumption
  <2> QED BY <2>1, <2>2
<1>2. offset \in Nat
  <2>1. PICK raw \in RawOffsets : offset = ClampInt(raw, 0, 0, LargestOffset)
    BY DEF Init
  <2>2. (raw # Garbage => raw \in Int) /\ LargestOffset \in Nat
    BY ConstantsAssumption
  <2>3. offset \in 0..LargestOffset
    BY <2>1, <2>2, ClampProperties
  <2> QED BY <2>2, <2>3
<1>3. limit \in 0..PageMaxRows
  <2>1. PICK raw \in RawLimits : limit = ClampInt(raw, DefaultLimit, 0, PageMaxRows)
    BY DEF Init
  <2>2. (raw # Garbage => raw \in Int) /\ DefaultLimit \in Nat /\ PageMaxRows \in Nat
    BY ConstantsAssumption
  <2> QED BY <2>1, <2>2, ClampProperties
<1>4. Typed
  <2>1. Len(file) \in Nat /\ <<>> \in Seq(Text)
    BY <1>1, LenProperties, EmptySeq
  <2>2. /\ chunk \in ChunkSizes /\ first = offset /\ pulled = 0 /\ phase = "header"
        /\ asks = 0 /\ skipped = 0 /\ hasMore = FALSE /\ rows = <<>>
    BY DEF Init
  <2>3. pulled \in 0..Len(file) /\ asks \in Nat /\ skipped \in 0..offset
    BY <2>1, <2>2, <1>2
  <2>4. hasMore \in BOOLEAN
    BY <2>2, Zenon
  <2>5. rows \in Seq(Text)
    BY <2>1, <2>2
  <2>6. phase \in {"header", "skip", "collect", "peek", "parse", "done", "failed"}
    BY <2>2
  <2> QED BY <2>2, <2>3, <2>4, <2>5, <2>6, <1>1, <1>2, <1>3 DEF Typed
<1>5. Reading
  BY <1>4, FreshReading DEF Init
<1>6. Paging
  BY DEF Init, Paging, AtHeader
<1>7. Collected
  <2>1. SubSeq(Lines(Seen), first + 2, offset + 1) = <<>>
    BY <1>2, SubSeqEmpty DEF Init
  <2> QED BY <2>1, <1>2 DEF Init, Collected
<1> QED BY <1>4, <1>5, <1>6, <1>7 DEF IInv

\* Every step keeps the invariant.
LEMMA InvStep == IInv /\ [Next]_vars => IInv'
<1> SUFFICES ASSUME IInv, [Next]_vars PROVE IInv'
  OBVIOUS
<1>1. CASE PullChunk
  BY <1>1, PullKeepsInv
<1>2. CASE ReadHeader
  BY <1>2, HeaderKeepsInv
<1>3. CASE SkipRow
  BY <1>3, SkipKeepsInv
<1>4. CASE EndSkip
  BY <1>4, EndSkipKeepsInv
<1>5. CASE CollectRow
  BY <1>5, CollectKeepsInv
<1>6. CASE EndCollect
  BY <1>6, EndCollectKeepsInv
<1>7. CASE Peek
  BY <1>7, PeekKeepsInv
<1>8. CASE ParseRows
  BY <1>8, ParseKeepsInv
<1>9. CASE NextPage
  BY <1>9, NextPageKeepsInv
<1>10. CASE UNCHANGED vars
  <2>1. UNCHANGED <<request, stream, phase, asks, skipped, header, rows, hasMore, got>>
    BY <1>10 DEF vars
  <2>2. Reading' /\ Paging' /\ Collected'
    BY <2>1, ReadingKept, PagingKept, CollectedKept DEF IInv
  <2>3. Typed'
    BY <2>1 DEF IInv, Typed, request, stream
  <2> QED BY <2>2, <2>3 DEF IInv
<1> QED BY <1>1, <1>2, <1>3, <1>4, <1>5, <1>6, <1>7, <1>8, <1>9, <1>10 DEF Next

\* IInv holds in every state.
LEMMA InvAlways == Spec => []IInv
BY InvInit, InvStep, PTL DEF Spec

(***************************************************************************)
(* What the pages show of the file                                         *)
(***************************************************************************)
\* The text of the reader and that of the file have the same number of lines, and
\* line by line the same plain characters and the same fate in the parser.
LEMMA SeenAndFile ==
    ASSUME Typed
    PROVE  LET lines == Lines(Decode(file)) IN
           /\ lines \in Seq(Text) /\ Len(lines) = Total
           /\ Total = LineCount(file) /\ Total <= Len(file)
           /\ Total <= Newlines(file, Len(file)) + 1 /\ Newlines(file, Len(file)) \in Nat
           /\ \A k \in 1..Total : /\ Plain(Lines(Seen)[k]) = Plain(lines[k])
                                  /\ Unparsable(Lines(Seen)[k]) <=> Unparsable(lines[k])
           /\ ~Torn => Seen = Decode(file)
<1> DEFINE whole == TextOf(file, {})
<1>1. Decode(file) = whole
  BY DecodeInOnePiece, Zenon
<1>2. file \in Seq(Byte) /\ chunk \in Nat \ {0}
  BY SeenProperties DEF Typed
<1>3. /\ whole \in Seq(Characters) /\ LineCount(whole) = LineCount(file)
      /\ Total = LineCount(file)
  BY <1>2, TextProperties, LineEndOfText DEF Total, Seen
<1>4. Lines(whole) \in Seq(Text) /\ Len(Lines(whole)) = Total
  <2> HIDE DEF whole
  <2>1. Text = Seq(Characters)
    BY DEF Text, Characters
  <2> QED BY <2>1, <1>3, LinesProperties
<1>5. /\ Total <= Len(file) /\ Total <= Newlines(file, Len(file)) + 1
      /\ Newlines(file, Len(file)) \in Nat
  <2>1. /\ LineCount(file) <= Len(file)
        /\ LineCount(file) \in {Cardinality(Breaks(file)), Cardinality(Breaks(file)) + 1}
        /\ Cardinality(Breaks(file)) \in Nat
        /\ Newlines(file, Len(file)) = Cardinality(Breaks(file))
    BY <1>2, LineCountProperties, BreaksProperties DEF Newlines
  <2> QED BY <2>1, <1>3
<1>6. ASSUME NEW k \in 1..Total
      PROVE  /\ Plain(Lines(Seen)[k]) = Plain(Lines(whole)[k])
             /\ Unparsable(Lines(Seen)[k]) <=> Unparsable(Lines(whole)[k])
  <2>1. k \in 1..LineCount(file)
    BY <1>3
  <2>2. /\ Unparsable(Lines(Seen)[k]) <=> Unparsable(Lines(file)[k])
        /\ Unparsable(Lines(whole)[k]) <=> Unparsable(Lines(file)[k])
    BY <2>1, <1>2, UnparsableByBytes DEF Seen
  <2>3. Plain(Lines(Seen)[k]) = Plain(Lines(whole)[k])
    BY <2>1, <1>2, PlainByBytes DEF Seen
  <2> QED BY <2>2, <2>3
<1>7. ASSUME ~Torn PROVE Seen = whole
  <2> DEFINE C == Cuts(chunk)
  <2>1. DOMAIN file = 1..Len(file) /\ Len(file) \in Nat
    BY <1>2, LenProperties
  <2>2. ASSUME NEW i \in DOMAIN file, Completes(file, i) PROVE i - 1 \notin C
    <3>1. i - 1 \in 1..(Len(file) - 1) /\ (i - 1) + 1 = i
      BY <2>1, <2>2 DEF Completes
    <3>2. (i - 1) % chunk # 0
      BY <3>1, <2>2, <1>7 DEF Torn
    <3> QED BY <3>2 DEF Cuts
  <2>3. Starts(file, C) = Starts(file, {})
    BY <2>2 DEF Starts
  <2>4. ASSUME NEW i \in DOMAIN file PROVE CharAt(file, C, i) = CharAt(file, {}, i)
    <3>1. ASSUME Completed(file, i) PROVE i \notin C
      <4>1. i + 1 \in DOMAIN file /\ (i + 1) - 1 = i /\ i \in 1..Len(file)
        BY <2>1, <3>1 DEF Completed
      <4>2. Completes(file, i + 1)
        BY <4>1, <3>1 DEF Completed, Completes
      <4> QED BY <4>1, <4>2, <2>2
    <3> QED BY <3>1 DEF CharAt
  <2>5. Chars(file, C) = Chars(file, {})
    BY <2>4 DEF Chars
  <2> QED BY <2>3, <2>5 DEF Seen, TextOf
<1> HIDE DEF whole
<1> QED BY <1>1, <1>3, <1>4, <1>5, <1>6, <1>7

\* A part of a sequence has its type.
LEMMA PartType ==
    ASSUME NEW X, NEW l \in Seq(X), NEW a \in Nat \ {0}, NEW b \in Int, b <= Len(l)
    PROVE  SubSeq(l, a, b) \in Seq(X)
<1>1. \A i \in a..b : i \in 1..Len(l)
  BY LenProperties
<1>2. \A i \in a..b : l[i] \in X
  BY <1>1, ElementOfSeq
<1> QED BY <1>2, SubSeqProperties

\* The same window of two lists of lines that are alike is alike: no row is lost or
\* repeated because of what is inside the rows.
LEMMA WindowsOfAlike ==
    ASSUME NEW l \in Seq(Text), NEW m \in Seq(Text), Alike(l, m),
           NEW from \in Nat, NEW size \in Nat
    PROVE  Alike(Window(l, from, size), Window(m, from, size))
<1> DEFINE v == Window(l, from, size)
           w == Window(m, from, size)
<1>1. /\ Len(l) = Len(m) /\ Len(l) \in Nat /\ DOMAIN l = 1..Len(l)
      /\ \A k \in 1..Len(l) : Plain(l[k]) = Plain(m[k])
  BY LenProperties DEF Alike
<1>2. /\ DOMAIN v = 1..Len(v) /\ Len(v) \in Nat
      /\ from + 1 + Len(v) <= Len(l) \/ v = <<>>
      /\ \A i \in 1..Len(v) : v[i] = l[from + 1 + i]
      /\ from + 1 <= Len(l) => Len(v) = Smaller(from + size + 1, Len(l)) - (from + 1)
  BY WindowProperties
<1>3. /\ \A i \in 1..Len(w) : w[i] = m[from + 1 + i]
      /\ from + 1 <= Len(m) => Len(w) = Smaller(from + size + 1, Len(m)) - (from + 1)
  BY WindowProperties
<1>4. from + 1 >= Len(l) => v = <<>> /\ w = <<>>
  BY <1>1, WindowGrows
<1> HIDE DEF v, w
<1>5. Len(v) = Len(w)
  BY <1>1, <1>2, <1>3, <1>4
<1>6. ASSUME NEW i \in 1..Len(v) PROVE Plain(v[i]) = Plain(w[i])
  <2>1. v # <<>>
    BY <1>2, EmptySeq
  <2>2. from + 1 + i \in 1..Len(l)
    BY <2>1, <1>1, <1>2
  <2>3. v[i] = l[from + 1 + i] /\ w[i] = m[from + 1 + i]
    BY <1>2, <1>3, <1>5
  <2> QED BY <2>2, <2>3, <1>1
<1>7. Alike(v, w)
  BY <1>2, <1>5, <1>6 DEF Alike
<1> QED BY <1>7 DEF v, w

\* Any window of what is seen is like that window of the file.
LEMMA WindowsAlike ==
    ASSUME Typed, NEW from \in Nat, NEW size \in Nat
    PROVE  Alike(Window(Lines(Seen), from, size), Window(Lines(Decode(file)), from, size))
<1>1. /\ Lines(Decode(file)) \in Seq(Text) /\ Len(Lines(Decode(file))) = Total
      /\ \A k \in 1..Total : Plain(Lines(Seen)[k]) = Plain(Lines(Decode(file))[k])
  BY SeenAndFile
<1>2. Lines(Seen) \in Seq(Text) /\ Len(Lines(Seen)) = Total
  BY SeenProperties
<1>3. DOMAIN Lines(Seen) = 1..Total
  BY <1>2, LenProperties
<1>4. Alike(Lines(Seen), Lines(Decode(file)))
  BY <1>1, <1>2, <1>3 DEF Alike
<1> QED BY <1>1, <1>2, <1>4, WindowsOfAlike

\* What the page of a finished request is.
LEMMA PageProperties ==
    ASSUME IInv, phase \in {"done", "failed"}
    PROVE  /\ rows = Window(Lines(Seen), offset, limit)
           /\ hasMore = (offset + limit + 1 < Total)
           /\ rows \in Seq(Text) /\ Len(rows) \in Nat /\ Len(rows) <= limit
           /\ DOMAIN rows = 1..Len(rows)
           /\ \A i \in 1..Len(rows) : /\ offset + 1 + i \in 1..Total
                                      /\ rows[i] = Lines(Seen)[offset + 1 + i]
           /\ \A k \in 1..Total : offset + 2 <= k /\ k <= offset + limit + 1 =>
                 k - (offset + 1) \in 1..Len(rows)
           /\ Total > 0 => header = Lines(Seen)[1]
           /\ Total = 0 => phase = "done"
           /\ offset \in Nat /\ limit \in Nat /\ Total \in Nat
<1>1. Typed /\ Paging /\ AtEnd
  BY DEF IInv, Paging
<1>2. /\ Lines(Seen) \in Seq(Text) /\ Len(Lines(Seen)) = Total /\ Total \in Nat
      /\ offset \in Nat /\ limit \in Nat
  BY <1>1, SeenProperties, ConstantsAssumption DEF Typed
<1>3. rows = Window(Lines(Seen), offset, limit) /\ hasMore = (offset + limit + 1 < Total)
  BY <1>1 DEF AtEnd
<1>4. /\ rows \in Seq(Text) /\ Len(rows) \in Nat /\ Len(rows) <= limit
      /\ DOMAIN rows = 1..Len(rows)
      /\ offset + 1 + Len(rows) <= Total \/ rows = <<>>
      /\ \A i \in 1..Len(rows) : rows[i] = Lines(Seen)[offset + 1 + i]
      /\ \A k \in 1..Total : offset + 2 <= k /\ k <= offset + limit + 1 =>
            k - (offset + 1) \in 1..Len(rows)
  BY <1>2, <1>3, WindowProperties
<1>5. \A i \in 1..Len(rows) : offset + 1 + i \in 1..Total
  <2>1. rows = <<>> => Len(rows) = 0
    BY EmptySeq
  <2> QED BY <2>1, <1>2, <1>4
<1>6. /\ Total > 0 => header = Lines(Seen)[1]
      /\ Total = 0 => phase = "done"
  BY <1>1 DEF Paging
<1> QED BY <1>2, <1>3, <1>4, <1>5, <1>6

(***************************************************************************)
(* Theorems                                                                *)
(***************************************************************************)

\* Whatever the file, the chunks and the query, the reader's state keeps its types,
\* and a page has no more rows than it was asked for.
THEOREM PreviewTypeCorrect == Spec => []TypeOK
<1>1. ASSUME IInv PROVE TypeOK
  <2>1. Typed /\ Reading /\ Paging /\ Collected
    BY <1>1 DEF IInv
  <2>2. /\ Text = Seq(Characters) /\ Seen \in Seq(Characters) /\ Given \in 0..Len(Seen)
        /\ Total \in Nat /\ Lines(Seen) \in Seq(Text) /\ Len(Lines(Seen)) = Total
        /\ \A k \in 1..Total : Lines(Seen)[k] \in Text
        /\ asks \in Nat /\ offset \in Nat /\ limit \in Nat /\ first \in Nat
        /\ <<>> \in Text /\ Len(<<>>) = 0
    <3>1. Typed
      BY <2>1
    <3>2. <<>> \in Text
      BY EmptySeq DEF Text
    <3> QED BY <3>1, <3>2, SeenProperties, ConstantsAssumption, EmptySeq DEF Typed
  <2>3. buffer \in Text
    BY <2>1, <2>2, BufferedProperties DEF Reading
  <2>4. header \in Text
    <3>1. CASE phase = "header"
      BY <3>1, <2>1, <2>2 DEF Paging, AtHeader
    <3>2. CASE phase # "header" /\ Total = 0
      BY <3>2, <2>1, <2>2 DEF Paging
    <3>3. CASE phase # "header" /\ Total > 0
      BY <3>3, <2>1, <2>2 DEF Paging
    <3> QED BY <3>1, <3>2, <3>3, <2>2
  <2>5. Len(rows) <= limit
    <3>1. CASE phase \in {"header", "skip"}
      BY <3>1, <2>1, <2>2 DEF Paging, AtHeader, AtSkip
    <3>2. CASE phase = "collect"
      BY <3>2, <2>1 DEF Paging, AtCollect
    <3>3. CASE phase \in {"peek", "parse", "done", "failed"}
      <4>1. rows = Window(Lines(Seen), offset, limit)
        BY <3>3, <2>1 DEF Paging, AtPeek, AtEnd
      <4> QED BY <4>1, <2>2, WindowProperties
    <3> QED BY <3>1, <3>2, <3>3, <2>1 DEF Typed
  <2>6. got \in Seq(Text)
    <3>1. CASE phase = "done"
      <4>1. /\ Smaller(offset + limit + 1, Total) \in Int
            /\ Smaller(offset + limit + 1, Total) <= Len(Lines(Seen))
            /\ first + 2 \in Nat \ {0}
        BY <2>2 DEF Smaller
      <4>2. got = SubSeq(Lines(Seen), first + 2, Smaller(offset + limit + 1, Total))
        BY <3>1, <2>1 DEF Collected
      <4> QED BY <4>1, <4>2, <2>2, PartType
    <3>2. CASE phase # "done" /\ offset < Total
      <4>1. offset + 1 \in Int /\ offset + 1 <= Len(Lines(Seen)) /\ first + 2 \in Nat \ {0}
        BY <3>2, <2>2
      <4>2. got = SubSeq(Lines(Seen), first + 2, offset + 1)
        BY <3>2, <2>1 DEF Collected
      <4> QED BY <4>1, <4>2, <2>2, PartType
    <3>3. CASE phase # "done" /\ offset = first
      <4>1. SubSeq(Lines(Seen), first + 2, offset + 1) = <<>>
        BY <3>3, <2>2, SubSeqEmpty
      <4>2. <<>> \in Seq(Text)
        BY EmptySeq
      <4> QED BY <3>3, <4>1, <4>2, <2>1 DEF Collected
    <3> QED BY <3>1, <3>2, <3>3, <2>1 DEF Collected
  <2> QED BY <2>1, <2>3, <2>4, <2>5, <2>6 DEF Typed, TypeOK
<1> QED BY <1>1, InvAlways, PTL

\* A page is the window of the lines of the whole file, and has_more says whether a
\* line follows it, wherever the chunks end, unless they tear a character.
THEOREM PagesAreWindows == Spec => []PageIsWindow
<1>1. ASSUME IInv, phase = "done", ~Torn
      PROVE  /\ rows = Window(Lines(Decode(file)), offset, limit)
             /\ hasMore = (offset + limit + 1 < Len(Lines(Decode(file))))
  <2>1. Seen = Decode(file) /\ Len(Lines(Decode(file))) = Total
    BY <1>1, SeenAndFile DEF IInv
  <2>2. /\ rows = Window(Lines(Seen), offset, limit)
        /\ hasMore = (offset + limit + 1 < Total)
    BY <1>1, PageProperties
  <2> QED BY <2>1, <2>2
<1>2. IInv => PageIsWindow
  BY <1>1 DEF PageIsWindow
<1> QED BY <1>2, InvAlways, PTL

\* A torn character spoils itself only: the page has the rows of the window, each
\* with everything else it shows.
THEOREM TornCharactersStayLocal == Spec => []TearingKeepsRows
<1>1. ASSUME IInv, phase = "done"
      PROVE  Alike(rows, Window(Lines(Decode(file)), offset, limit))
  <2>1. rows = Window(Lines(Seen), offset, limit) /\ offset \in Nat /\ limit \in Nat
    BY <1>1, PageProperties
  <2> QED BY <2>1, <1>1, WindowsAlike DEF IInv
<1>2. IInv => TearingKeepsRows
  BY <1>1 DEF TearingKeepsRows
<1> QED BY <1>2, InvAlways, PTL

\* All chunks but the last one lack a line the page needs.
THEOREM ReaderPullsLittle == Spec => []PullsNoMoreThanNeeded
<1>1. IInv => PullsNoMoreThanNeeded
  BY DEF IInv, Reading
<1> QED BY <1>1, InvAlways, PTL

\* A request asks for a few more lines than the file has, however far its offset.
THEOREM WorkIsBounded == Spec => []WorkBoundedByFile
<1>1. ASSUME IInv PROVE asks <= Total + 3
  <2>1. Total \in Nat /\ Typed /\ Paging /\ asks \in Nat
    BY <1>1, SeenProperties DEF IInv, Typed
  <2> QED BY <2>1 DEF Typed, Paging, AtHeader, AtSkip, AtCollect, AtPeek, AtEnd
<1>2. ASSUME IInv PROVE WorkBoundedByFile
  <2>1. /\ Total <= Newlines(file, Len(file)) + 1 /\ Newlines(file, Len(file)) \in Nat
        /\ Total \in Nat /\ asks \in Nat
    BY <1>2, SeenAndFile, SeenProperties DEF IInv, Typed
  <2> QED BY <2>1, <1>1, <1>2 DEF WorkBoundedByFile
<1> QED BY <1>2, InvAlways, PTL

\* The pages of a client that follows has_more have every line of the file from its
\* first offset on, once, up to the characters its chunks tear.
THEOREM PagesTileFile == Spec => []PagesTile
<1>1. ASSUME IInv, phase = "done", ~hasMore
      PROVE  LET rest == Window(Lines(Decode(file)), first, Len(file)) IN
             Alike(got, rest) /\ (~Torn => got = rest)
  <2> DEFINE seen == Window(Lines(Seen), first, Len(file))
             rest == Window(Lines(Decode(file)), first, Len(file))
  <2>1. /\ Len(Lines(Seen)) = Total /\ Total <= Len(file) /\ Len(file) \in Nat
        /\ ~Torn => Seen = Decode(file)
    BY <1>1, SeenAndFile, SeenProperties DEF IInv
  <2>2. /\ hasMore = (offset + limit + 1 < Total)
        /\ offset \in Nat /\ limit \in Nat /\ Total \in Nat
    BY <1>1, PageProperties
  <2>3. got = SubSeq(Lines(Seen), first + 2, Smaller(offset + limit + 1, Total))
    BY <1>1 DEF IInv, Collected
  <2>4. Smaller(offset + limit + 1, Total) = Total
    BY <2>2, <1>1 DEF Smaller
  <2>5. first \in Nat /\ Smaller(first + Len(file) + 1, Total) = Total
    <3>1. first \in Nat
      BY <1>1 DEF IInv, Typed
    <3> QED BY <3>1, <2>1, <2>2 DEF Smaller
  <2>6. got = seen
    BY <2>1, <2>3, <2>4, <2>5 DEF Window
  <2>7. Alike(seen, rest)
    BY <2>1, <2>5, <1>1, WindowsAlike DEF IInv
  <2>8. ~Torn => seen = rest
    BY <2>1
  <2> QED BY <2>6, <2>7, <2>8
<1>2. IInv => PagesTile
  BY <1>1 DEF PagesTile
<1> QED BY <1>2, InvAlways, PTL

\* A request fails exactly if its header or a line of its window does not parse.
THEOREM FailureIsShown == Spec => []FailsOnlyOnShownLine
<1>1. ASSUME IInv PROVE FailsOnlyOnShownLine
  <2> DEFINE lines == Lines(Decode(file))
             shown == {1} \union (offset + 2)..(offset + limit + 1)
  <2>1. /\ lines \in Seq(Text) /\ Len(lines) = Total
        /\ \A k \in 1..Total : Unparsable(Lines(Seen)[k]) <=> Unparsable(lines[k])
    BY <1>1, SeenAndFile DEF IInv
  <2>2. DOMAIN lines = 1..Total
    <3> HIDE DEF lines
    <3> QED BY <2>1, LenProperties
  <2> HIDE DEF lines
  <2>3. ASSUME phase = "failed" PROVE \E k \in shown \intersect DOMAIN lines : Unparsable(lines[k])
    <3>1. /\ DOMAIN rows = 1..Len(rows) /\ Len(rows) \in Nat /\ Len(rows) <= limit
          /\ \A i \in 1..Len(rows) : /\ offset + 1 + i \in 1..Total
                                     /\ rows[i] = Lines(Seen)[offset + 1 + i]
          /\ Total > 0 => header = Lines(Seen)[1]
          /\ Total > 0
          /\ offset \in Nat /\ limit \in Nat /\ Total \in Nat
      BY <1>1, <2>3, PageProperties
    <3>2. ~Parses
      BY <1>1, <2>3 DEF IInv, Paging
    <3>3. CASE Unparsable(header)
      <4>1. 1 \in shown \intersect DOMAIN lines /\ Unparsable(lines[1])
        BY <3>1, <3>3, <2>1, <2>2
      <4> QED BY <4>1
    <3>4. ASSUME NEW i \in DOMAIN rows, Unparsable(rows[i])
          PROVE  \E k \in shown \intersect DOMAIN lines : Unparsable(lines[k])
      <4>1. /\ offset + 1 + i \in 1..Total /\ Unparsable(lines[offset + 1 + i])
            /\ offset + 1 + i \in (offset + 2)..(offset + limit + 1)
        BY <3>1, <3>4, <2>1
      <4> QED BY <4>1, <2>2
    <3> QED BY <3>2, <3>3, <3>4 DEF Parses
  <2>4. ASSUME phase = "done", NEW k \in shown \intersect DOMAIN lines
        PROVE  ~Unparsable(lines[k])
    <3>1. /\ DOMAIN rows = 1..Len(rows)
          /\ \A i \in 1..Len(rows) : rows[i] = Lines(Seen)[offset + 1 + i]
          /\ \A x \in 1..Total : offset + 2 <= x /\ x <= offset + limit + 1 =>
                x - (offset + 1) \in 1..Len(rows)
          /\ Total > 0 => header = Lines(Seen)[1]
          /\ offset \in Nat /\ limit \in Nat /\ Total \in Nat
      BY <1>1, <2>4, PageProperties
    <3>2. Parses
      BY <1>1, <2>4 DEF IInv, Paging
    <3>3. k \in 1..Total
      BY <2>2
    <3>4. CASE k = 1
      BY <3>1, <3>2, <3>3, <3>4, <2>1 DEF Parses
    <3>5. CASE k \in (offset + 2)..(offset + limit + 1)
      <4>1. /\ k - (offset + 1) \in DOMAIN rows
            /\ rows[k - (offset + 1)] = Lines(Seen)[offset + 1 + (k - (offset + 1))]
            /\ offset + 1 + (k - (offset + 1)) = k
        BY <3>1, <3>3, <3>5
      <4> QED BY <4>1, <3>2, <3>3, <2>1 DEF Parses
    <3> QED BY <3>4, <3>5
  <2> QED BY <2>3, <2>4 DEF FailsOnlyOnShownLine, lines
<1> QED BY <1>1, InvAlways, PTL

=============================================================================
