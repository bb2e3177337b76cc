--------------------------- MODULE IterLines_proofs ---------------------------
(***************************************************************************)
(* Theorems about iter_lines, for plaintexts of any length cut in any way. *)
(* Where an induction over the bytes is called for, the argument is from a *)
(* least position at which the claim fails.                                *)
(***************************************************************************)
EXTENDS IterLines, FiniteSetTheorems, SequenceTheorems, WellFoundedInduction, TLAPS

(* Counting the ends of lines *)

\* A set of natural numbers that is not empty has a least one.
LEMMA LeastNumber ==
  ASSUME NEW S, S \subseteq Nat, S # {}
  PROVE  \E x \in S : \A y \in S : x <= y
<1>1. PICK x \in S : \A y \in S : ~(<<y, x>> \in OpToRel(<, Nat))
  BY NatLessThanWellFounded, WFMin
<1>2. \A y \in S : ~(y < x)
  BY <1>1 DEF OpToRel
<1> QED
  BY <1>2

\* Lines end at positions of the text, the last one at its end.
LEMMA EndsAreIndices ==
  ASSUME NEW s \in Seq(Byte)
  PROVE  /\ LineEnds(s) \subseteq 1..Len(s)
         /\ Len(s) > 0 => Len(s) \in LineEnds(s)
BY DEF LineEnds

\* Finitely many lines end at a position.
LEMMA EndedFinite ==
  ASSUME NEW s \in Seq(Byte), NEW i \in Nat
  PROVE  IsFiniteSet({e \in LineEnds(s) : e <= i})
<1>1. {e \in LineEnds(s) : e <= i} \in SUBSET (1..Len(s))
  BY EndsAreIndices
<1>2. IsFiniteSet(1..Len(s))
  BY FS_Interval
<1> QED
  BY <1>1, <1>2, FS_Subset

\* The count is a number, and starts from none.
LEMMA EndedType ==
  ASSUME NEW s \in Seq(Byte)
  PROVE  Ended(s, 0) = 0 /\ \A i \in Nat : Ended(s, i) \in Nat
<1>1. ASSUME NEW i \in Nat PROVE Ended(s, i) \in Nat
  BY EndedFinite, FS_CardinalityType DEF Ended
<1>2. {e \in LineEnds(s) : e <= 0} = {}
  BY EndsAreIndices
<1>3. Ended(s, 0) = 0
  BY <1>2, FS_EmptySet DEF Ended
<1> QED
  BY <1>1, <1>3

\* Each end adds one to the count, no other position does.
LEMMA EndedStep ==
  ASSUME NEW s \in Seq(Byte), NEW i \in Nat
  PROVE  Ended(s, i + 1) = IF i + 1 \in LineEnds(s) THEN Ended(s, i) + 1 ELSE Ended(s, i)
<1> DEFINE E(n) == {e \in LineEnds(s) : e <= n}
<1>1. LineEnds(s) \subseteq Int
  BY EndsAreIndices
<1>2. CASE i + 1 \in LineEnds(s)
  <2>1. E(i + 1) = E(i) \cup {i + 1}
    BY <1>1, <1>2
  <2>2. IsFiniteSet(E(i))
    BY EndedFinite
  <2>3. i + 1 \notin E(i)
    OBVIOUS
  <2>4. Cardinality(E(i + 1)) = Cardinality(E(i)) + 1
    BY <2>1, <2>2, <2>3, FS_AddElement
  <2> QED
    BY <1>2, <2>4 DEF Ended
<1>3. CASE i + 1 \notin LineEnds(s)
  <2>1. E(i + 1) = E(i)
    BY <1>1, <1>3
  <2> QED
    BY <1>3, <2>1 DEF Ended
<1> QED
  BY <1>2, <1>3

\* The count grows with the position, strictly up to an end.
LEMMA EndedGrows ==
  ASSUME NEW s \in Seq(Byte), NEW i \in Nat, NEW j \in Nat, i <= j
  PROVE  /\ Ended(s, i) <= Ended(s, j)
         /\ i < j /\ j \in LineEnds(s) => Ended(s, i) < Ended(s, j)
<1>1. ASSUME NEW m \in Nat, NEW n \in Nat, m <= n
      PROVE  Ended(s, m) <= Ended(s, n)
  <2>1. IsFiniteSet({e \in LineEnds(s) : e <= n})
    BY EndedFinite
  <2>2. {e \in LineEnds(s) : e <= m} \in SUBSET {e \in LineEnds(s) : e <= n}
    BY <1>1, EndsAreIndices
  <2> QED
    BY <2>1, <2>2, FS_Subset DEF Ended
<1>2. ASSUME i < j, j \in LineEnds(s) PROVE Ended(s, i) < Ended(s, j)
  <2>1. j - 1 \in Nat /\ i <= j - 1 /\ (j - 1) + 1 = j
    BY <1>2
  <2>2. Ended(s, i) <= Ended(s, j - 1)
    BY <1>1, <2>1
  <2>3. Ended(s, j) = Ended(s, j - 1) + 1
    BY <1>2, <2>1, EndedStep
  <2> QED
    BY <2>1, <2>2, <2>3, EndedType
<1> QED
  BY <1>1, <1>2

-----------------------------------------------------------------------------
(* Where the jth line ends *)

\* Every number up to the count is the count at some end.
LEMMA LineEndExists ==
  ASSUME NEW s \in Seq(Byte), NEW j \in 1..Ended(s, Len(s))
  PROVE  \E e \in LineEnds(s) : Ended(s, e) = j
<1> DEFINE S == {i \in Nat : j <= Ended(s, i)}
<1>1. Len(s) \in S /\ S \subseteq Nat
  BY EndedType
<1>2. PICK i \in S : \A y \in S : i <= y
  <2> HIDE DEF S
  <2> QED
    BY <1>1, LeastNumber
<1>3. i \in Nat /\ j <= Ended(s, i) /\ i # 0
  BY EndedType
<1>4. i - 1 \in Nat /\ (i - 1) + 1 = i
  BY <1>3
<1>5. ~(j <= Ended(s, i - 1))
  BY <1>2, <1>4
<1>6. Ended(s, i) \in Nat /\ Ended(s, i - 1) \in Nat
  BY <1>3, <1>4, EndedType
<1>7. Ended(s, i) = IF i \in LineEnds(s) THEN Ended(s, i - 1) + 1 ELSE Ended(s, i - 1)
  BY <1>4, EndedStep
<1>8. i \in LineEnds(s) /\ Ended(s, i) = j
  BY <1>3, <1>5, <1>6, <1>7
<1> QED
  BY <1>8

\* So the jth line has an end, and the count there is j.
LEMMA LineEndFacts ==
  ASSUME NEW s \in Seq(Byte), NEW j \in 0..Ended(s, Len(s))
  PROVE  /\ LineEnd(s, j) \in 0..Len(s)
         /\ j > 0 => LineEnd(s, j) \in LineEnds(s)
         /\ Ended(s, LineEnd(s, j)) = j
<1>1. CASE j = 0
  BY <1>1, EndedType DEF LineEnd
<1>2. CASE j # 0
  <2>1. j \in 1..Ended(s, Len(s))
    BY <1>2
  <2>2. LineEnd(s, j) \in LineEnds(s) /\ Ended(s, LineEnd(s, j)) = j
    BY <1>2, <2>1, LineEndExists DEF LineEnd
  <2> QED
    BY <2>2, EndsAreIndices
<1> QED
  BY <1>1, <1>2

\* An end is where the line that it ends ends.
LEMMA EndOfItsLine ==
  ASSUME NEW s \in Seq(Byte), NEW e \in LineEnds(s)
  PROVE  Ended(s, e) \in 1..Ended(s, Len(s)) /\ LineEnd(s, Ended(s, e)) = e
<1>1. e \in 1..Len(s)
  BY EndsAreIndices
<1>2. Ended(s, 0) < Ended(s, e) /\ Ended(s, e) <= Ended(s, Len(s))
  BY <1>1, EndedGrows
<1>3. Ended(s, e) \in 1..Ended(s, Len(s))
  BY <1>1, <1>2, EndedType
<1> DEFINE f == LineEnd(s, Ended(s, e))
<1>4. f \in LineEnds(s) /\ f \in 0..Len(s) /\ Ended(s, f) = Ended(s, e)
  BY <1>3, EndedType, LineEndFacts
<1>5. f = e
  <2> HIDE DEF f
  <2>1. Ended(s, e) \in Nat
    BY <1>1, EndedType
  <2>2. ~(f < e)
    BY <1>1, <1>4, <2>1, EndedGrows
  <2>3. ~(e < f)
    BY <1>1, <1>4, <2>1, EndedGrows
  <2> QED
    BY <1>1, <1>4, <2>2, <2>3
<1> QED
  BY <1>3, <1>5

-----------------------------------------------------------------------------
(* Splitting a piece of a text *)

\* A piece of a text, byte by byte.
LEMMA Piece ==
  ASSUME NEW s \in Seq(Byte), NEW b \in Nat, NEW m \in Nat, b <= m, m <= Len(s)
  PROVE  /\ SubSeq(s, b + 1, m) \in Seq(Byte)
         /\ Len(SubSeq(s, b + 1, m)) = m - b
         /\ \A i \in 1..(m - b) : SubSeq(s, b + 1, m)[i] = s[b + i]
OBVIOUS

\* A piece of a piece is a piece.
LEMMA PieceOfPiece ==
  ASSUME NEW s \in Seq(Byte), NEW b \in Nat, NEW m \in Nat, b <= m, m <= Len(s),
         NEW c \in Nat, NEW d \in Nat, c <= d, d <= m - b
  PROVE  SubSeq(SubSeq(s, b + 1, m), c + 1, d) = SubSeq(s, (b + c) + 1, b + d)
<1> DEFINE p == SubSeq(s, b + 1, m)
           q == SubSeq(p, c + 1, d)
           u == SubSeq(s, (b + c) + 1, b + d)
<1>1. p \in Seq(Byte) /\ Len(p) = m - b /\ \A i \in 1..(m - b) : p[i] = s[b + i]
  BY Piece
<1>2. q \in Seq(Byte) /\ Len(q) = d - c /\ \A i \in 1..(d - c) : q[i] = p[c + i]
  <2> HIDE DEF p
  <2> QED
    BY <1>1, Piece
<1>3. u \in Seq(Byte) /\ Len(u) = d - c /\ \A i \in 1..(d - c) : u[i] = s[(b + c) + i]
  <2>1. b + c \in Nat /\ b + d \in Nat /\ b + c <= b + d /\ b + d <= Len(s)
    OBVIOUS
  <2>2. (b + d) - (b + c) = d - c
    OBVIOUS
  <2> QED
    BY <2>1, <2>2, Piece
<1>4. \A i \in 1..(d - c) : q[i] = u[i]
  <2> HIDE DEF p, q, u
  <2> SUFFICES ASSUME NEW i \in 1..(d - c) PROVE q[i] = u[i]
    OBVIOUS
  <2>1. c + i \in 1..(m - b) /\ b + (c + i) = (b + c) + i
    OBVIOUS
  <2> QED
    BY <1>1, <1>2, <1>3, <2>1
<1> HIDE DEF p, q, u
<1>5. q = u
  BY <1>2, <1>3, <1>4
<1> QED
  BY <1>5 DEF p, q, u

\* In a piece lines end where they end in the text, but at its last byte,
\* where a piece may cut a line or the CR LF at its end.
LEMMA EndsInPiece ==
  ASSUME NEW s \in Seq(Byte), NEW b \in Nat, NEW m \in Nat, b <= m, m <= Len(s),
         NEW i \in 1..(m - b - 1)
  PROVE  i \in LineEnds(SubSeq(s, b + 1, m)) <=> b + i \in LineEnds(s)
<1> DEFINE p == SubSeq(s, b + 1, m)
<1>1. Len(p) = m - b /\ p[i] = s[b + i] /\ p[i + 1] = s[(b + i) + 1]
  BY Piece
<1>2. i # m - b /\ b + i # Len(s) /\ i \in 1..(m - b) /\ b + i \in 1..Len(s)
  OBVIOUS
<1> HIDE DEF p
<1>3. i \in LineEnds(p) <=> b + i \in LineEnds(s)
  BY <1>1, <1>2 DEF LineEnds
<1> QED
  BY <1>3 DEF p

\* So the count in a piece and the count before it add up.
LEMMA CountInPiece ==
  ASSUME NEW s \in Seq(Byte), NEW b \in Nat, NEW m \in Nat, b <= m, m <= Len(s),
         NEW i \in 0..(m - b - 1)
  PROVE  Ended(s, b + i) = Ended(s, b) + Ended(SubSeq(s, b + 1, m), i)
<1> DEFINE p == SubSeq(s, b + 1, m)
           Fails == {n \in 0..(m - b - 1) : Ended(s, b + n) # Ended(s, b) + Ended(p, n)}
<1>1. p \in Seq(Byte)
  BY Piece
<1> SUFFICES ASSUME Fails # {} PROVE FALSE
  OBVIOUS
<1>2. PICK n \in Fails : \A k \in Fails : n <= k
  <2>1. Fails \subseteq Nat
    OBVIOUS
  <2> HIDE DEF Fails
  <2> QED
    BY <2>1, LeastNumber
<1>3. Ended(s, b) \in Nat /\ Ended(p, 0) = 0
  BY <1>1, EndedType
<1>4. n \in 0..(m - b - 1) /\ Ended(s, b + n) # Ended(s, b) + Ended(p, n)
  OBVIOUS
<1> HIDE DEF p
<1>5. n # 0
  BY <1>3, <1>4
<1> DEFINE k == n - 1
<1>6. k \in Nat /\ k \in 0..(m - b - 1) /\ n = k + 1 /\ b + n = (b + k) + 1 /\ b + k \in Nat
  BY <1>4, <1>5
<1>7. Ended(s, b + k) = Ended(s, b) + Ended(p, k)
  BY <1>2, <1>6
<1> HIDE DEF Fails, k
<1>8. n \in LineEnds(p) <=> b + n \in LineEnds(s)
  <2>1. n \in 1..(m - b - 1)
    BY <1>4, <1>5
  <2> QED
    BY <2>1, EndsInPiece DEF p
<1>9. Ended(p, n) = IF n \in LineEnds(p) THEN Ended(p, k) + 1 ELSE Ended(p, k)
  BY <1>1, <1>6, EndedStep
<1>10. Ended(s, b + n) = IF b + n \in LineEnds(s) THEN Ended(s, b + k) + 1 ELSE Ended(s, b + k)
  BY <1>6, EndedStep
<1>11. Ended(p, k) \in Nat
  BY <1>1, <1>6, EndedType
<1> QED
  BY <1>3, <1>4, <1>7, <1>8, <1>9, <1>10, <1>11
\* Lines end one after the other.
LEMMA EndsAscend ==
  ASSUME NEW s \in Seq(Byte), NEW i \in 0..Ended(s, Len(s)), NEW j \in 0..Ended(s, Len(s)),
         i < j
  PROVE  LineEnd(s, i) < LineEnd(s, j)
<1>1. /\ LineEnd(s, i) \in Nat /\ LineEnd(s, j) \in Nat
      /\ Ended(s, LineEnd(s, i)) = i /\ Ended(s, LineEnd(s, j)) = j
  BY LineEndFacts
<1>2. ~(LineEnd(s, j) <= LineEnd(s, i))
  BY <1>1, EndedGrows
<1> QED
  BY <1>1, <1>2

\* p is the piece of s from where its rth line ends, at b, to m, and n lines.
FromLine(s, r, b, m, p, n) ==
  /\ r <= Ended(s, Len(s)) /\ b = LineEnd(s, r) /\ b < m /\ m <= Len(s)
  /\ p = SubSeq(s, b + 1, m) /\ n = Ended(p, Len(p))

\* What follows from that at once.
LEMMA FromLineFacts ==
  ASSUME NEW s \in Seq(Byte), NEW r \in Nat, NEW b \in Nat, NEW m \in Nat,
         NEW p \in Seq(Byte), NEW n \in Nat, FromLine(s, r, b, m, p, n)
  PROVE  /\ Len(s) \in Nat /\ b < m /\ m <= Len(s) /\ Len(p) = m - b
         /\ Ended(s, b) = r /\ (r > 0 => b \in LineEnds(s))
         /\ Ended(s, Len(s)) \in Nat /\ r <= Ended(s, Len(s))
         /\ LineEnd(s, r) = b /\ Ended(p, m - b) = n
<1>1. Ended(s, Len(s)) \in Nat /\ Len(s) \in Nat
  BY EndedType
<1>2. r \in 0..Ended(s, Len(s)) /\ LineEnd(s, r) = b
  BY <1>1 DEF FromLine
<1>3. Ended(s, b) = r /\ (r > 0 => b \in LineEnds(s))
  BY <1>2, LineEndFacts
<1>4. b < m /\ m <= Len(s)
  BY DEF FromLine
<1>5. Len(p) = m - b
  BY <1>4, Piece DEF FromLine
<1> QED
  BY <1>1, <1>2, <1>3, <1>4, <1>5 DEF FromLine

\* A piece that starts where a line starts: its ends are those of the text
\* that follow, and its last line reaches to its end.
LEMMA EndsOfPiece ==
  ASSUME NEW s \in Seq(Byte), NEW r \in Nat, NEW b \in Nat, NEW m \in Nat,
         NEW p \in Seq(Byte), NEW n \in Nat, FromLine(s, r, b, m, p, n)
  PROVE  /\ n > 0 /\ r + n <= Ended(s, Len(s))
         /\ \A j \in 0..(n - 1) : LineEnd(s, r + j) = b + LineEnd(p, j)
         /\ LineEnd(p, n) = m - b
         /\ LineEnd(s, r + (n - 1)) < m
         /\ \A e \in LineEnds(s) : LineEnd(s, r + (n - 1)) < e => m <= e
<1>1. /\ Len(s) \in Nat /\ b < m /\ m <= Len(s) /\ Len(p) = m - b
      /\ Ended(s, b) = r /\ (r > 0 => b \in LineEnds(s))
      /\ Ended(s, Len(s)) \in Nat /\ r <= Ended(s, Len(s))
      /\ LineEnd(s, r) = b /\ Ended(p, m - b) = n
  BY FromLineFacts
<1>2. p = SubSeq(s, b + 1, m)
  BY DEF FromLine
<1>3. m - b \in LineEnds(p) /\ m - b \in Nat
  BY <1>1, EndsAreIndices
<1> DEFINE l == m - b - 1
<1>4. l \in Nat /\ l + 1 = m - b /\ l \in 0..(m - b - 1) /\ b + l = m - 1 /\ m - 1 \in Nat
  BY <1>1
<1> HIDE DEF l
<1>5. n = Ended(p, l) + 1 /\ Ended(p, l) \in Nat
  BY <1>1, <1>3, <1>4, EndedStep, EndedType
<1>6. \A i \in 0..(m - b - 1) : Ended(s, b + i) = r + Ended(p, i)
  BY <1>1, <1>2, CountInPiece
<1>7. Ended(s, m - 1) = r + (n - 1)
  <2>1. Ended(s, b + l) = r + Ended(p, l)
    BY <1>4, <1>6
  <2>2. Ended(p, l) = n - 1
    BY <1>5
  <2> QED
    BY <1>4, <2>1, <2>2
<1>8. r + n <= Ended(s, Len(s))
  <2>1. Len(s) \in LineEnds(s) /\ m - 1 < Len(s)
    BY <1>1, EndsAreIndices
  <2>2. Ended(s, m - 1) < Ended(s, Len(s))
    BY <1>1, <1>4, <2>1, EndedGrows
  <2> QED
    BY <1>1, <1>7, <2>2
<1>9. LineEnd(p, n) = m - b
  BY <1>1, <1>3, EndOfItsLine
<1>10. ASSUME NEW j \in 0..(n - 1) PROVE LineEnd(s, r + j) = b + LineEnd(p, j)
  <2>1. CASE j = 0
    <3>1. LineEnd(p, 0) = 0
      BY DEF LineEnd
    <3> QED
      BY <1>1, <2>1, <3>1
  <2>2. CASE j # 0
    <3> DEFINE e == LineEnd(p, j)
    <3>1. e \in LineEnds(p) /\ Ended(p, e) = j /\ e \in 0..Len(p)
      <4>1. Ended(p, Len(p)) = n
        BY <1>1
      <4>2. j \in 0..Ended(p, Len(p)) /\ j > 0
        BY <2>2, <4>1
      <4> QED
        BY <4>2, LineEndFacts
    <3> HIDE DEF e
    <3>2. e \in 1..(m - b)
      BY <1>1, <3>1, EndsAreIndices
    <3>3. e # m - b
      BY <1>1, <3>1
    <3>4. e \in 1..(m - b - 1) /\ e \in 0..(m - b - 1)
      BY <1>1, <3>2, <3>3
    <3>5. b + e \in LineEnds(s)
      BY <1>1, <1>2, <3>1, <3>4, EndsInPiece
    <3>6. Ended(s, b + e) = r + j
      BY <1>6, <3>1, <3>4
    <3>7. LineEnd(s, r + j) = b + e
      BY <3>5, <3>6, EndOfItsLine
    <3> QED
      BY <3>7 DEF e
  <2> QED
    BY <2>1, <2>2
<1>11. ASSUME NEW e \in LineEnds(s), LineEnd(s, r + (n - 1)) < e PROVE m <= e
  <2> SUFFICES ASSUME ~(m <= e) PROVE FALSE
    OBVIOUS
  <2>1. e \in Nat /\ e <= m - 1
    BY <1>1, EndsAreIndices
  <2>2. r + (n - 1) \in 0..Ended(s, Len(s))
    BY <1>1, <1>5, <1>8
  <2> DEFINE f == LineEnd(s, r + (n - 1))
  <2>3. f \in Nat /\ Ended(s, f) = r + (n - 1) /\ f < e
    BY <1>1, <1>11, <2>2, LineEndFacts
  <2> HIDE DEF f
  <2>4. Ended(s, f) < Ended(s, e)
    BY <2>1, <2>3, EndedGrows
  <2>5. Ended(s, e) <= Ended(s, m - 1)
    BY <1>4, <2>1, EndedGrows
  <2>6. Ended(s, e) \in Nat
    BY <2>1, EndedType
  <2> QED
    BY <1>5, <1>7, <2>3, <2>4, <2>5, <2>6
<1>12. n > 0
  BY <1>5
<1>13. LineEnd(s, r + (n - 1)) < m
  <2>1. n - 1 \in 0..Ended(p, Len(p)) /\ n \in 0..Ended(p, Len(p)) /\ n - 1 \in 0..(n - 1)
    BY <1>1, <1>12
  <2>2. LineEnd(p, n - 1) < m - b /\ LineEnd(p, n - 1) \in Nat
    BY <1>9, <2>1, EndsAscend, LineEndFacts
  <2>3. LineEnd(s, r + (n - 1)) = b + LineEnd(p, n - 1)
    BY <1>10, <2>1
  <2> QED
    BY <2>2, <2>3
<1> QED
  BY <1>8, <1>9, <1>10, <1>11, <1>12, <1>13

\* Split, it gives the lines of the text that follow, and the rest.
LEMMA LinesOfPiece ==
  ASSUME NEW s \in Seq(Byte), NEW r \in Nat, NEW b \in Nat, NEW m \in Nat,
         NEW p \in Seq(Byte), NEW n \in Nat, FromLine(s, r, b, m, p, n)
  PROVE  /\ DOMAIN SplitLines(p) = 1..n
         /\ \A j \in 1..(n - 1) : SplitLines(p)[j] = SplitLines(s)[r + j]
         /\ SplitLines(p)[n] = SubSeq(s, LineEnd(s, r + (n - 1)) + 1, m)
<1>1. /\ n > 0 /\ r + n <= Ended(s, Len(s))
      /\ \A j \in 0..(n - 1) : LineEnd(s, r + j) = b + LineEnd(p, j)
      /\ LineEnd(p, n) = m - b
  BY EndsOfPiece
<1>2. /\ Len(s) \in Nat /\ b < m /\ m <= Len(s) /\ Len(p) = m - b
      /\ Ended(s, Len(s)) \in Nat /\ Ended(p, Len(p)) = n
  BY FromLineFacts
<1>3. \A c, d \in Nat : c <= d /\ d <= m - b =>
        SubSeq(p, c + 1, d) = SubSeq(s, (b + c) + 1, b + d)
  <2>1. p = SubSeq(s, b + 1, m)
    BY DEF FromLine
  <2> QED
    BY <1>2, <2>1, PieceOfPiece
<1>4. ASSUME NEW j \in 0..n PROVE LineEnd(p, j) \in Nat /\ LineEnd(p, j) <= m - b
  <2>1. j \in 0..Ended(p, Len(p))
    BY <1>2
  <2>2. LineEnd(p, j) \in 0..Len(p)
    BY <2>1, LineEndFacts
  <2> QED
    BY <1>2, <2>2
<1>5. \A j \in 1..n : SplitLines(p)[j] = SubSeq(p, LineEnd(p, j - 1) + 1, LineEnd(p, j))
  BY <1>2 DEF SplitLines
<1>6. \A j \in 1..n : SplitLines(p)[j] = SubSeq(s, (b + LineEnd(p, j - 1)) + 1, b + LineEnd(p, j))
  <2> SUFFICES ASSUME NEW j \in 1..n
               PROVE  SplitLines(p)[j]
                        = SubSeq(s, (b + LineEnd(p, j - 1)) + 1, b + LineEnd(p, j))
    OBVIOUS
  <2>1. j - 1 \in 0..n /\ j \in 0..n /\ j - 1 < j
    BY <1>1
  <2>2. LineEnd(p, j - 1) < LineEnd(p, j)
    BY <1>2, <2>1, EndsAscend
  <2>3. LineEnd(p, j - 1) \in Nat /\ LineEnd(p, j) \in Nat /\ LineEnd(p, j) <= m - b
    BY <1>4, <2>1
  <2>4. SubSeq(p, LineEnd(p, j - 1) + 1, LineEnd(p, j))
          = SubSeq(s, (b + LineEnd(p, j - 1)) + 1, b + LineEnd(p, j))
    <3>1. PICK c, d \in Nat : c = LineEnd(p, j - 1) /\ d = LineEnd(p, j)
      BY <2>3
    <3>2. c <= d /\ d <= m - b
      BY <2>2, <2>3, <3>1
    <3>3. SubSeq(p, c + 1, d) = SubSeq(s, (b + c) + 1, b + d)
      BY <1>3, <3>2, Zenon
    <3> QED
      BY <3>1, <3>3
  <2> QED
    BY <1>5, <2>4
<1>7. ASSUME NEW j \in 1..(n - 1) PROVE SplitLines(p)[j] = SplitLines(s)[r + j]
  <2>1. j \in 1..n /\ j - 1 \in 0..(n - 1) /\ j \in 0..(n - 1) /\ r + (j - 1) = (r + j) - 1
    BY <1>1
  <2>2. r + j \in 1..Ended(s, Len(s))
    BY <1>1, <1>2, <2>1
  <2>3. SplitLines(s)[r + j] = SubSeq(s, LineEnd(s, (r + j) - 1) + 1, LineEnd(s, r + j))
    BY <2>2 DEF SplitLines
  <2>4. /\ LineEnd(s, (r + j) - 1) = b + LineEnd(p, j - 1)
        /\ LineEnd(s, r + j) = b + LineEnd(p, j)
    BY <1>1, <2>1
  <2> QED
    BY <1>6, <2>1, <2>3, <2>4
<1>8. SplitLines(p)[n] = SubSeq(s, LineEnd(s, r + (n - 1)) + 1, m)
  <2>1. n \in 1..n /\ n - 1 \in 0..(n - 1)
    BY <1>1
  <2>2. b + LineEnd(p, n - 1) = LineEnd(s, r + (n - 1)) /\ b + LineEnd(p, n) = m
    BY <1>1, <1>2, <2>1
  <2> QED
    BY <1>6, <2>1, <2>2
<1>9. DOMAIN SplitLines(p) = 1..n
  BY <1>2 DEF SplitLines
<1> QED
  BY <1>7, <1>8, <1>9
-----------------------------------------------------------------------------
(* Sequences of lines *)

\* Two pieces that meet are one.
LEMMA JoinPieces ==
  ASSUME NEW s \in Seq(Byte), NEW b \in Nat, NEW m \in Nat, NEW q \in Nat,
         b <= m, m <= q, q <= Len(s)
  PROVE  SubSeq(s, b + 1, m) \o SubSeq(s, m + 1, q) = SubSeq(s, b + 1, q)
<1>1. b + 1 \in 1..Len(s) + 1 /\ m \in (b + 1) - 1..Len(s) /\ q \in m..Len(s)
  OBVIOUS
<1> QED
  BY <1>1, ConcatAdjacentSubSeq

\* The first k of a list.
LEMMA FirstOfList ==
  ASSUME NEW S, NEW L \in Seq(S), NEW k \in Nat, k <= Len(L)
  PROVE  SubSeq(L, 1, k) \in Seq(S) /\ Len(SubSeq(L, 1, k)) = k
OBVIOUS

\* The first k of a list, and the n that follow, are the first k + n.
LEMMA ExtendList ==
  ASSUME NEW S, NEW L \in Seq(S), NEW k \in Nat, NEW n \in Nat, k + n <= Len(L),
         NEW M \in Seq(S), Len(M) = n, \A j \in 1..n : M[j] = L[k + j]
  PROVE  SubSeq(L, 1, k) \o M = SubSeq(L, 1, k + n)
<1>1. PICK N : N = SubSeq(L, k + 1, k + n)
  OBVIOUS
<1>2. N \in Seq(S) /\ Len(N) = n /\ \A j \in 1..n : N[j] = L[k + j]
  BY <1>1
<1>3. M = N
  BY <1>2, SeqEqual
<1>4. SubSeq(L, 1, k) \o SubSeq(L, k + 1, k + n) = SubSeq(L, 1, k + n)
  <2>1. 1 \in 1..Len(L) + 1 /\ k \in 1 - 1..Len(L) /\ k + n \in k..Len(L)
    OBVIOUS
  <2> QED
    BY <2>1, ConcatAdjacentSubSeq
<1> QED
  BY <1>1, <1>3, <1>4

\* Splitting gives a list of as many pieces as there are ends.
LEMMA SplitType ==
  ASSUME NEW s \in Seq(Byte)
  PROVE  SplitLines(s) \in Seq(Seq(Byte)) /\ Len(SplitLines(s)) = Ended(s, Len(s))
<1> DEFINE n == Ended(s, Len(s))
<1>1. n \in Nat
  BY EndedType
<1>2. ASSUME NEW j \in 1..n
      PROVE  SubSeq(s, LineEnd(s, j - 1) + 1, LineEnd(s, j)) \in Seq(Byte)
  <2>1. j - 1 \in 0..n /\ j \in 0..n /\ j - 1 < j
    BY <1>1
  <2>2. LineEnd(s, j - 1) \in 0..Len(s) /\ LineEnd(s, j) \in 0..Len(s)
    BY <2>1, LineEndFacts
  <2>3. LineEnd(s, j - 1) < LineEnd(s, j)
    BY <2>1, EndsAscend
  <2> QED
    BY <2>2, <2>3, Piece
<1>3. SplitLines(s) \in [1..n -> Seq(Byte)]
  BY <1>2 DEF SplitLines
<1> HIDE DEF n
<1>4. SplitLines(s) \in Seq(Seq(Byte)) /\ Len(SplitLines(s)) = n
  BY <1>1, <1>3
<1> QED
  BY <1>4 DEF n

\* Lines with or without their ends are as many.
LEMMA LinesType ==
  ASSUME NEW ls \in Seq(Seq(Byte))
  PROVE  /\ Lines(ls) \in Seq({Line(l) : l \in Seq(Byte)})
         /\ Len(Lines(ls)) = Len(ls)
         /\ \A j \in 1..Len(ls) : Lines(ls)[j] = Line(ls[j])
<1> DEFINE S == {Line(l) : l \in Seq(Byte)}
<1>1. \A j \in 1..Len(ls) : Line(ls[j]) \in S
  OBVIOUS
<1> HIDE DEF S
<1>2. Lines(ls) \in [1..Len(ls) -> S] /\ \A j \in 1..Len(ls) : Lines(ls)[j] = Line(ls[j])
  BY <1>1 DEF Lines
<1>3. Lines(ls) \in Seq(S) /\ Len(Lines(ls)) = Len(ls)
  <2>1. PICK n \in Nat : n = Len(ls)
    BY LenProperties
  <2>2. PICK f \in [1..n -> S] : f = Lines(ls)
    BY <1>2, <2>1
  <2>3. f \in Seq(S) /\ Len(f) = n
    OBVIOUS
  <2> QED
    BY <2>1, <2>2, <2>3
<1> QED
  BY <1>2, <1>3 DEF S
-----------------------------------------------------------------------------
(* The steps *)

\* The plaintext and its lines stay what they are.
LEMMA TextKept ==
  ASSUME UNCHANGED <<text, keepends>>
  PROVE  /\ Lines(SplitLines(text))' = Lines(SplitLines(text))
         /\ Ended(text, Len(text))' = Ended(text, Len(text))
BY DEF Lines, Line

\* The lines of the plaintext are a list of as many as have ended.
LEMMA LinesOfText ==
  ASSUME TypeOK
  PROVE  /\ Lines(SplitLines(text)) \in Seq({Line(l) : l \in Seq(Byte)})
         /\ Len(Lines(SplitLines(text))) = Ended(text, Len(text))
         /\ Ended(text, Len(text)) \in Nat
         /\ \A j \in 1..Ended(text, Len(text)) : Lines(SplitLines(text))[j] = Line(SplitLines(text)[j])
<1>1. text \in Seq(Byte) /\ Len(text) \in Nat
  BY DEF TypeOK
<1>2. SplitLines(text) \in Seq(Seq(Byte)) /\ Len(SplitLines(text)) = Ended(text, Len(text))
  BY <1>1, SplitType
<1> QED
  BY <1>1, <1>2, LinesType, EndedType

\* At first nothing is read, pending or yielded.
LEMMA Initially == ASSUME Init PROVE IInv
<1>1. text \in Seq(Byte)
  BY DEF Init, BoundedSeq, SeqOf
<1>2. TypeOK
  BY <1>1 DEF Init, TypeOK
<1>3. YieldedInv
  <2>1. SubSeq(Lines(SplitLines(text)), 1, 0) = << >>
    BY SubSeqEmpty
  <2>2. 0 \in 0..Ended(text, Len(text))
    BY <1>2, LinesOfText
  <2> QED
    BY <2>1, <2>2 DEF YieldedInv, Init
<1>4. PendingInv
  <2>1. Len(yielded) = 0 /\ LineEnd(text, 0) = 0
    BY DEF Init, LineEnd
  <2>2. SubSeq(text, 0 + 1, 0) = << >>
    BY SubSeqEmpty
  <2>3. \A e \in LineEnds(text) : 0 <= e
    BY <1>1, EndsAreIndices
  <2> QED
    BY <2>1, <2>2, <2>3 DEF PendingInv, Init
<1>5. YieldsAllLines
  BY DEF YieldsAllLines, Init
<1> QED
  BY <1>2, <1>3, <1>4, <1>5 DEF IInv

\* How many lines have been yielded.
LEMMA YieldedCount ==
  ASSUME TypeOK, YieldedInv
  PROVE  /\ Len(yielded) \in 0..Ended(text, Len(text))
         /\ yielded = SubSeq(Lines(SplitLines(text)), 1, Len(yielded))
         /\ LineEnd(text, Len(yielded)) \in 0..Len(text)
<1>1. PICK k \in 0..Ended(text, Len(text)) : yielded = SubSeq(Lines(SplitLines(text)), 1, k)
  BY DEF YieldedInv
<1>2. k \in Nat /\ k <= Len(Lines(SplitLines(text)))
  BY LinesOfText
<1>3. Len(yielded) = k
  BY <1>1, <1>2, LinesOfText, FirstOfList
<1>4. LineEnd(text, k) \in 0..Len(text)
  <2>1. text \in Seq(Byte)
    BY DEF TypeOK
  <2> QED
    BY <2>1, LineEndFacts
<1> QED
  BY <1>1, <1>3, <1>4
\* The pending bytes and a chunk are the piece of the plaintext from the end of
\* the last line yielded to the end of the chunk.
LEMMA ChunkIsPiece ==
  ASSUME TypeOK, YieldedInv, PendingInv, outcome = "none",
         NEW k \in Nat, k > 0, pos + k <= Len(text)
  PROVE  \E r, b, n \in Nat, p \in Seq(Byte) :
           /\ FromLine(text, r, b, pos + k, p, n)
           /\ p = pending \o SubSeq(text, pos + 1, pos + k)
           /\ yielded = SubSeq(Lines(SplitLines(text)), 1, r)
<1>1. /\ text \in Seq(Byte) /\ pos \in Nat /\ Len(text) \in Nat
      /\ pos <= Len(text) /\ pos + k \in Nat /\ pos <= pos + k /\ pos < pos + k
  BY DEF TypeOK
<1>2. Ended(text, Len(text)) \in Nat
  BY LinesOfText
<1>3. PICK r \in Nat : r = Len(yielded) /\ r <= Ended(text, Len(text))
  <2>1. Len(yielded) \in 0..Ended(text, Len(text))
    BY YieldedCount
  <2>2. Len(yielded) \in Nat /\ Len(yielded) <= Ended(text, Len(text))
    BY <1>2, <2>1
  <2> QED
    BY <2>2
<1>4. yielded = SubSeq(Lines(SplitLines(text)), 1, r)
  BY <1>3, YieldedCount
<1>5. PICK b \in Nat : b = LineEnd(text, r)
  BY <1>1, <1>3, YieldedCount
<1>6. b <= pos /\ pending = SubSeq(text, b + 1, pos)
  BY <1>3, <1>5 DEF PendingInv
<1>7. PICK p \in Seq(Byte) : p = SubSeq(text, b + 1, pos + k)
  <2>1. b <= pos + k
    BY <1>1, <1>6
  <2> QED
    BY <1>1, <2>1, Piece
<1>8. p = pending \o SubSeq(text, pos + 1, pos + k)
  <2>1. SubSeq(text, b + 1, pos) \o SubSeq(text, pos + 1, pos + k) = SubSeq(text, b + 1, pos + k)
    BY <1>1, <1>6, JoinPieces
  <2> QED
    BY <1>6, <1>7, <2>1
<1>9. PICK n \in Nat : n = Ended(p, Len(p))
  BY EndedType, LenProperties
<1>10. FromLine(text, r, b, pos + k, p, n)
  <2>1. b < pos + k
    BY <1>1, <1>6
  <2> QED
    BY <1>3, <1>5, <1>7, <1>9, <2>1 DEF FromLine
<1> QED
  BY <1>4, <1>8, <1>10

\* At position m the first k lines, ys, have been yielded and ps is pending.
Reached(m, k, ys, ps) ==
  /\ k <= Ended(text, Len(text))
  /\ ys = SubSeq(Lines(SplitLines(text)), 1, k)
  /\ ps = SubSeq(text, LineEnd(text, k) + 1, m)
  /\ LineEnd(text, k) < m
  /\ \A e \in LineEnds(text) : LineEnd(text, k) < e => m <= e

\* Split, they give the lines that follow, to be yielded, and the rest.
LEMMA ChunkSplits ==
  ASSUME TypeOK, NEW r \in Nat, NEW b \in Nat, NEW m \in Nat, NEW n \in Nat,
         NEW p \in Seq(Byte), FromLine(text, r, b, m, p, n),
         yielded = SubSeq(Lines(SplitLines(text)), 1, r)
  PROVE  \E k \in Nat :
           Reached(m, k, yielded \o Lines(Front(SplitLines(p))), Last(SplitLines(p)))
<1> DEFINE S == {Line(l) : l \in Seq(Byte)}
           L == Lines(SplitLines(text))
<1>1. text \in Seq(Byte)
  BY DEF TypeOK
<1>2. Ended(text, Len(text)) \in Nat
  BY LinesOfText
<1>3. yielded = SubSeq(L, 1, r)
  OBVIOUS
<1>4. n = Ended(p, Len(p))
  BY DEF FromLine
<1>5. /\ n > 0 /\ r + n <= Ended(text, Len(text))
      /\ LineEnd(text, r + (n - 1)) < m
      /\ \A e \in LineEnds(text) : LineEnd(text, r + (n - 1)) < e => m <= e
  BY <1>1, EndsOfPiece
<1>6. /\ \A j \in 1..(n - 1) : SplitLines(p)[j] = SplitLines(text)[r + j]
      /\ SplitLines(p)[n] = SubSeq(text, LineEnd(text, r + (n - 1)) + 1, m)
  BY <1>1, LinesOfPiece
<1>7. SplitLines(p) \in Seq(Seq(Byte)) /\ Len(SplitLines(p)) = n
  BY <1>4, SplitType
<1>8. PICK c \in Nat : c = n - 1
  BY <1>5
<1>9. /\ Front(SplitLines(p)) \in Seq(Seq(Byte)) /\ Len(Front(SplitLines(p))) = c
       /\ \A j \in 1..c : Front(SplitLines(p))[j] = SplitLines(p)[j]
  <2>1. PICK q \in Seq(Seq(Byte)) : q = SplitLines(p)
    BY <1>7
  <2>2. SubSeq(q, 1, c) \in Seq(Seq(Byte)) /\ Len(SubSeq(q, 1, c)) = c
        /\ \A j \in 1..c : SubSeq(q, 1, c)[j] = q[j]
    BY <1>7, <1>8, <2>1
  <2>3. Front(SplitLines(p)) = SubSeq(q, 1, c)
    BY <1>7, <1>8, <2>1 DEF Front
  <2> QED
    BY <2>1, <2>2, <2>3
<1>10. PICK M \in Seq(S) : M = Lines(Front(SplitLines(p)))
  BY <1>9, LinesType
<1>11. Len(M) = c /\ \A j \in 1..c : M[j] = L[r + j]
  <2>1. Len(M) = c /\ \A j \in 1..c : M[j] = Line(Front(SplitLines(p))[j])
    BY <1>9, <1>10, LinesType
  <2> SUFFICES ASSUME NEW j \in 1..c PROVE M[j] = L[r + j]
    BY <2>1
  <2>2. M[j] = Line(SplitLines(text)[r + j])
    BY <1>6, <1>8, <1>9, <2>1
  <2>3. r + j \in 1..Ended(text, Len(text))
    BY <1>2, <1>5, <1>8
  <2> QED
    BY <2>2, <2>3, LinesOfText
<1>12. yielded \o M = SubSeq(L, 1, r + c)
  <2>1. L \in Seq(S) /\ r + c <= Len(L)
    BY <1>2, <1>5, <1>8, LinesOfText
  <2> HIDE DEF L, S
  <2>2. SubSeq(L, 1, r) \o M = SubSeq(L, 1, r + c)
    BY <1>11, <2>1, ExtendList
  <2> QED
    BY <1>3, <2>2
<1>13. Last(SplitLines(p)) = SplitLines(p)[n]
  BY <1>7 DEF Last
<1>14. r + c \in Nat /\ r + c <= Ended(text, Len(text)) /\ r + (n - 1) = r + c
  BY <1>2, <1>5, <1>8
<1>15. Reached(m, r + c, yielded \o Lines(Front(SplitLines(p))), Last(SplitLines(p)))
  BY <1>5, <1>6, <1>10, <1>12, <1>13, <1>14 DEF Reached
<1> QED
  BY <1>14, <1>15

\* A chunk yields the lines it completes.
LEMMA ChunkStep ==
  ASSUME IInv, NEW k \in 1..MaxLen, Chunk(k)
  PROVE  IInv'
<1>1. TypeOK /\ YieldedInv /\ PendingInv
  BY DEF IInv
<1>2. /\ outcome = "none" /\ outcome' = "none" /\ pos + k <= Len(text) /\ pos' = pos + k
      /\ text' = text /\ keepends' = keepends
  BY DEF Chunk
<1>3. k \in Nat /\ k > 0
  BY MaxLenAssumption
<1>4. PICK r, b, n \in Nat, p \in Seq(Byte) :
        /\ FromLine(text, r, b, pos + k, p, n)
        /\ p = pending \o SubSeq(text, pos + 1, pos + k)
        /\ yielded = SubSeq(Lines(SplitLines(text)), 1, r)
  BY <1>1, <1>2, <1>3, ChunkIsPiece
<1>5. pos + k \in Nat /\ pos + k \in 0..Len(text)
  BY <1>1, <1>2, <1>3 DEF TypeOK
<1>6. PICK c \in Nat :
        Reached(pos + k, c, yielded \o Lines(Front(SplitLines(p))), Last(SplitLines(p)))
  BY <1>1, <1>4, <1>5, ChunkSplits
<1>7. Reached(pos + k, c, yielded', pending')
  BY <1>4, <1>6 DEF Chunk
<1>8. /\ c <= Ended(text, Len(text))
      /\ yielded' = SubSeq(Lines(SplitLines(text)), 1, c)
      /\ pending' = SubSeq(text, LineEnd(text, c) + 1, pos + k)
      /\ LineEnd(text, c) < pos + k
      /\ \A e \in LineEnds(text) : LineEnd(text, c) < e => pos + k <= e
  BY <1>7 DEF Reached
<1>9. TypeOK'
  BY <1>1, <1>2, <1>5 DEF TypeOK
<1>10. c \in 0..Ended(text, Len(text)) /\ Len(yielded') = c /\ LineEnd(text, c) \in Nat
  <2>1. c <= Len(Lines(SplitLines(text))) /\ c \in 0..Ended(text, Len(text))
    BY <1>1, <1>8, LinesOfText
  <2>2. Len(yielded') = c
    BY <1>1, <1>8, <2>1, LinesOfText, FirstOfList
  <2>3. text \in Seq(Byte)
    BY <1>1 DEF TypeOK
  <2> QED
    BY <2>1, <2>2, <2>3, LineEndFacts
<1>11. YieldedInv'
  <2>1. yielded' = SubSeq(Lines(SplitLines(text))', 1, c) /\ c \in 0..Ended(text, Len(text))'
    BY <1>2, <1>8, <1>10, TextKept
  <2> QED
    BY <2>1 DEF YieldedInv
<1>12. PendingInv'
  <2>1. LineEnd(text, Len(yielded))' = LineEnd(text, c) /\ LineEnds(text)' = LineEnds(text)
    BY <1>2, <1>10
  <2>2. LineEnd(text, c) <= pos + k
    BY <1>5, <1>8, <1>10
  <2> QED
    BY <1>2, <1>8, <2>1, <2>2 DEF PendingInv
<1>13. YieldsAllLines'
  BY <1>2 DEF YieldsAllLines
<1> QED
  BY <1>9, <1>11, <1>12, <1>13 DEF IInv

\* When all is read, what is pending is the last line.
LEMMA EndStep ==
  ASSUME IInv, EndOfStream
  PROVE  IInv'
<1>1. TypeOK /\ YieldedInv /\ PendingInv
  BY DEF IInv
<1>2. /\ outcome = "none" /\ outcome' = "ended" /\ pos = Len(text)
      /\ text' = text /\ keepends' = keepends /\ pos' = pos
  BY DEF EndOfStream
<1>3. text \in Seq(Byte) /\ pos \in Nat /\ Ended(text, Len(text)) \in Nat
  BY <1>1, LinesOfText DEF TypeOK
<1> DEFINE L == Lines(SplitLines(text))
           S == {Line(l) : l \in Seq(Byte)}
<1>4. L \in Seq(S) /\ Len(L) = Ended(text, Len(text))
  BY <1>1, LinesOfText
<1>5. PICK r \in Nat : r = Len(yielded) /\ r <= Ended(text, Len(text)) /\ yielded = SubSeq(L, 1, r)
  <2>1. Len(yielded) \in 0..Ended(text, Len(text)) /\ yielded = SubSeq(L, 1, Len(yielded))
    BY <1>1, YieldedCount
  <2>2. Len(yielded) \in Nat /\ Len(yielded) <= Ended(text, Len(text))
    BY <1>3, <2>1
  <2> QED
    BY <2>1, <2>2
<1>6. PICK b \in Nat : b = LineEnd(text, r) /\ Ended(text, b) = r
  <2>1. r \in 0..Ended(text, Len(text))
    BY <1>3, <1>5
  <2>2. LineEnd(text, r) \in 0..Len(text) /\ Ended(text, LineEnd(text, r)) = r
    BY <1>3, <2>1, LineEndFacts
  <2>3. LineEnd(text, r) \in Nat
    BY <2>2
  <2> QED
    BY <2>2, <2>3
<1>7. /\ pending = SubSeq(text, b + 1, pos) /\ b <= pos /\ (pos > 0 => b < pos)
      /\ \A e \in LineEnds(text) : b < e => pos <= e
  BY <1>1, <1>2, <1>5, <1>6 DEF PendingInv
<1>8. yielded' = L
  <2>1. CASE pos = 0
    <3>1. pending = << >>
      BY <1>7, <2>1, SubSeqEmpty
    <3>2. yielded' = yielded
      BY <3>1 DEF EndOfStream
    <3>3. Ended(text, Len(text)) = 0
      BY <1>2, <1>3, <2>1, EndedType
    <3>4. r = Len(L)
      BY <1>4, <1>5, <3>3
    <3>5. SubSeq(L, 1, Len(L)) = L
      BY <1>4, SubSeqFull
    <3> QED
      BY <1>5, <3>2, <3>4, <3>5
  <2>2. CASE pos > 0
    <3>1. b < pos /\ Len(pending) = pos - b /\ pos \in LineEnds(text)
      BY <1>2, <1>3, <1>7, <2>2, Piece, EndsAreIndices
    <3>2. yielded' = Append(yielded, Line(pending))
      <4>1. pending # << >>
        BY <1>3, <3>1
      <4> QED
        BY <4>1 DEF EndOfStream
    <3>3. Ended(text, pos) = r + 1
      <4>1. PICK i \in Nat : i = pos - 1
        BY <1>3, <2>2
      <4>2. i + 1 = pos /\ b <= i
        BY <1>3, <3>1, <4>1
      <4>3. Ended(text, i) = r
        <5>1. {e \in LineEnds(text) : e <= i} = {e \in LineEnds(text) : e <= b}
          <6>1. LineEnds(text) \subseteq Int
            BY <1>3, EndsAreIndices
          <6> QED
            BY <1>3, <1>7, <4>2, <6>1
        <5> QED
          BY <1>6, <5>1 DEF Ended
      <4> QED
        BY <1>3, <3>1, <4>2, <4>3, EndedStep
    <3>4. Ended(text, Len(text)) = r + 1
      BY <1>2, <3>3
    <3>5. LineEnd(text, r + 1) = pos
      BY <1>3, <3>1, <3>3, EndOfItsLine
    <3>6. L[r + 1] = Line(pending)
      <4>1. r + 1 \in 1..Ended(text, Len(text)) /\ (r + 1) - 1 = r
        BY <3>4
      <4>2. SplitLines(text)[r + 1] = SubSeq(text, LineEnd(text, (r + 1) - 1) + 1, LineEnd(text, r + 1))
        BY <4>1 DEF SplitLines
      <4>3. SplitLines(text)[r + 1] = pending
        BY <1>6, <1>7, <3>5, <4>1, <4>2
      <4> QED
        BY <1>1, <4>1, <4>3, LinesOfText
    <3>7. Append(SubSeq(L, 1, r), L[r + 1]) = L
      <4>1. Len(L) = r + 1
        BY <1>4, <3>4
      <4> HIDE DEF L, S
      <4> QED
        BY <1>4, <4>1
    <3> QED
      BY <1>5, <3>2, <3>6, <3>7
  <2> QED
    BY <1>3, <2>1, <2>2
<1>9. L' = L
  BY <1>2, TextKept
<1>10. YieldsAllLines'
  BY <1>8, <1>9 DEF YieldsAllLines
<1>11. TypeOK'
  BY <1>1, <1>2 DEF TypeOK
<1>12. YieldedInv'
  <2>1. SubSeq(L, 1, Ended(text, Len(text))) = L
    BY <1>4, SubSeqFull
  <2>2. Ended(text, Len(text))' = Ended(text, Len(text))
    BY <1>2
  <2>3. Ended(text, Len(text)) \in 0..Ended(text, Len(text))
    BY <1>3
  <2> QED
    BY <1>8, <1>9, <2>1, <2>2, <2>3 DEF YieldedInv
<1>13. PendingInv'
  BY <1>2 DEF PendingInv
<1> QED
  BY <1>10, <1>11, <1>12, <1>13 DEF IInv
\* When a read raises, nothing more is yielded.
LEMMA RaiseStep ==
  ASSUME IInv, ReadRaises
  PROVE  IInv'
<1>1. /\ outcome' = "raised" /\ text' = text /\ keepends' = keepends /\ pos' = pos
      /\ yielded' = yielded
  BY DEF ReadRaises
<1>2. TypeOK' /\ PendingInv' /\ YieldsAllLines'
  BY <1>1 DEF IInv, TypeOK, PendingInv, YieldsAllLines
<1>3. YieldedInv'
  BY <1>1, TextKept DEF IInv, YieldedInv
<1> QED
  BY <1>2, <1>3 DEF IInv

\* Every step keeps the invariant.
LEMMA NextStep == IInv /\ [Next]_vars => IInv'
<1> SUFFICES ASSUME IInv, [Next]_vars PROVE IInv'
  OBVIOUS
<1>1. CASE Next
  BY <1>1, ChunkStep, EndStep, RaiseStep DEF Next
<1>2. CASE UNCHANGED vars
  <2>1. Lines(SplitLines(text))' = Lines(SplitLines(text))
    BY <1>2, TextKept DEF vars
  <2> QED
    BY <1>2, <2>1 DEF vars, IInv, TypeOK, YieldedInv, YieldsAllLines, PendingInv
<1> QED
  BY <1>1, <1>2

-----------------------------------------------------------------------------
(* Theorems *)

\* iter_lines' pending bytes are at every chunk what follows the last line
\* yielded, with no complete line in them.
THEOREM Invariance == Spec => []IInv
<1>1. Init => IInv
  BY Initially
<1>2. IInv /\ [Next]_vars => IInv'
  BY NextStep
<1> QED
  BY <1>1, <1>2, PTL DEF Spec

\* However the stream cuts the plaintext, iter_lines yields lines of it, in
\* order, and no part of one: not of a CR LF cut in two, nor after an exception.
THEOREM OnlyLines == Spec => []YieldsLinesOnly
<1>1. IInv => YieldsLinesOnly
  <2> SUFFICES ASSUME IInv PROVE YieldsLinesOnly
    OBVIOUS
  <2> DEFINE L == Lines(SplitLines(text))
             S == {Line(l) : l \in Seq(Byte)}
  <2>1. TypeOK /\ YieldedInv
    BY DEF IInv
  <2>2. L \in Seq(S)
    BY <2>1, LinesOfText
  <2>3. PICK k \in Nat : k <= Len(L) /\ yielded = SubSeq(L, 1, k)
    <3>1. Ended(text, Len(text)) \in Nat /\ Len(L) = Ended(text, Len(text))
      BY <2>1, LinesOfText
    <3> QED
      BY <2>1, <3>1 DEF YieldedInv
  <2> HIDE DEF L, S
  <2>4. yielded \in Seq(S) /\ Len(yielded) = k
    BY <2>2, <2>3, FirstOfList
  <2>5. SubSeq(yielded, 1, Len(yielded)) = yielded
    BY <2>4, SubSeqFull
  <2>6. IsPrefix(yielded, L)
    BY <2>3, <2>4, <2>5 DEF IsPrefix
  <2> QED
    BY <2>6 DEF YieldsLinesOnly, L
<1> QED
  BY <1>1, Invariance, PTL

\* An iter_lines that ends without an exception has yielded every line, the
\* last one too where no end of line ends it.
THEOREM AllLines == Spec => []YieldsAllLines
<1>1. IInv => YieldsAllLines
  BY DEF IInv
<1> QED
  BY <1>1, Invariance, PTL
=============================================================================
