-------------------------- MODULE UtilsStringProofs --------------------------
(***************************************************************************)
(* UtilsString for texts of any length, any texts looked for and any sets  *)
(* of delimiters: each helper does what its definition from outside says.  *)
(***************************************************************************)
EXTENDS UtilsString, SequenceTheorems, FiniteSetTheorems, WellFoundedInduction,
        TLAPS

-----------------------------------------------------------------------------
\* Least and greatest elements.

Less == {p \in Nat \X Nat : p[1] < p[2]}

LEMMA LeastExists ==
    ASSUME NEW S \in SUBSET Nat, S # {}
    PROVE  \E x \in S : \A y \in S : x <= y
<1>1. IsWellFoundedOn(Less, Nat)
    BY NatLessThanWellFounded, Zenon DEF OpToRel, Less
<1>2. PICK x \in S : \A y \in S : ~(<<y, x>> \in Less)
    BY <1>1, WFMin
<1>3. \A y \in S : y \in Nat
    OBVIOUS
<1>4. \A y \in S : ~(y < x)
    BY <1>2, <1>3 DEF Less
<1> QED
    BY <1>3, <1>4

LEMMA MinOf ==
    ASSUME NEW S \in SUBSET Nat, S # {}
    PROVE  Min(S) \in S /\ \A y \in S : Min(S) <= y
BY LeastExists DEF Min

\* The greatest element is the one whose distance to n is the least.
LEMMA MaxOf ==
    ASSUME NEW n \in Nat, NEW S \in SUBSET (0 .. n), S # {}
    PROVE  Max(S) \in S /\ \A y \in S : y <= Max(S)
<1> DEFINE D == {n - x : x \in S}
<1>0. \A x \in S : n - x \in Nat
    OBVIOUS
<1>1. D \in SUBSET Nat /\ D # {}
    BY <1>0
<1>2. PICK d \in D : \A y \in D : d <= y
    BY <1>1, LeastExists
<1>3. PICK x \in S : d = n - x
    BY <1>2
<1>4. \A y \in S : n - y \in D
    OBVIOUS
<1>5. \A y \in S : n - x <= n - y
    BY <1>2, <1>3, <1>4
<1>6. \A y \in S : y <= x
    BY <1>5
<1> QED
    BY <1>6 DEF Max

-----------------------------------------------------------------------------
\* The place of a number in a finite set of numbers.

LEMMA RankIsNatural ==
    ASSUME NEW S, IsFiniteSet(S), NEW i \in Nat
    PROVE  Rank(S, i) \in Nat \ {0}
<1>1. IsFiniteSet({k \in S : k < i})
    BY FS_Subset
<1> QED
    BY <1>1, FS_CardinalityType DEF Rank

\* Nothing of the set is passed over: the place stays.
LEMMA RankStays ==
    ASSUME NEW S \in SUBSET Nat, NEW a \in Nat, NEW b \in Nat, a <= b,
           \A k \in S : ~(a <= k /\ k < b)
    PROVE  Rank(S, a) = Rank(S, b)
<1>1. \A k \in S : k < a <=> k < b
    OBVIOUS
<1>2. {k \in S : k < a} = {k \in S : k < b}
    BY <1>1, Zenon
<1> QED
    BY <1>2, Zenon DEF Rank

\* One number of the set is passed over: the place is the next one.
LEMMA RankNext ==
    ASSUME NEW S \in SUBSET Nat, IsFiniteSet(S), NEW a \in S, NEW b \in Nat,
           a < b, \A k \in S : ~(a < k /\ k < b)
    PROVE  Rank(S, b) = Rank(S, a) + 1
<1> DEFINE T == {k \in S : k < a}
<1>0. \A k \in S : k < b <=> k < a \/ k = a
    OBVIOUS
<1>1. {k \in S : k < b} = T \cup {a}
    BY <1>0
<1>2. IsFiniteSet(T) /\ a \notin T
    BY FS_Subset
<1>3. Cardinality(T \cup {a}) = Cardinality(T) + 1
    BY <1>2, FS_AddElement
<1>4. Rank(S, b) = Cardinality(T \cup {a}) + 1
    BY <1>1, Zenon DEF Rank
<1>5. Rank(S, a) = Cardinality(T) + 1
    BY DEF Rank
<1> QED
    BY <1>3, <1>4, <1>5

\* The numbers of the set have places of their own.
LEMMA RankGrows ==
    ASSUME NEW S \in SUBSET Nat, IsFiniteSet(S), NEW a \in S, NEW b \in Nat, a < b
    PROVE  Rank(S, a) < Rank(S, b)
<1>1. Rank(S, a + 1) = Rank(S, a) + 1
    BY RankNext
<1> DEFINE T == {k \in S : k < a + 1}
           U == {k \in S : k < b}
<1>0. \A k \in S : k < a + 1 => k < b
    OBVIOUS
<1>2. T \subseteq U
    BY <1>0
<1>3. IsFiniteSet(T) /\ IsFiniteSet(U)
    BY FS_Subset
<1>4. Cardinality(T) \in Nat /\ Cardinality(U) \in Nat /\ Cardinality(T) <= Cardinality(U)
    BY <1>2, <1>3, FS_CardinalityType, FS_Subset
<1>5. Rank(S, a + 1) = Cardinality(T) + 1 /\ Rank(S, b) = Cardinality(U) + 1
    BY DEF Rank
<1>6. Rank(S, a) \in Nat
    BY RankIsNatural
<1> HIDE DEF T, U
<1> QED
    BY <1>1, <1>4, <1>5, <1>6

\* Behind all of the set.
LEMMA RankOfEnd ==
    ASSUME NEW S \in SUBSET Nat, NEW b \in Nat, \A k \in S : k < b
    PROVE  Rank(S, b) = Cardinality(S) + 1
<1>1. {k \in S : k < b} = S
    OBVIOUS
<1> QED
    BY <1>1, Zenon DEF Rank

\* Before all of the set.
LEMMA RankOfBeginning ==
    ASSUME NEW S \in SUBSET Nat, NEW b \in Nat, \A k \in S : b <= k
    PROVE  Rank(S, b) = 1
<1>0. \A k \in S : ~(k < b)
    OBVIOUS
<1>1. {k \in S : k < b} = {}
    BY <1>0
<1>2. Cardinality({k \in S : k < b}) = Cardinality({})
    BY <1>1, Zenon
<1> QED
    BY <1>2, FS_EmptySet DEF Rank

-----------------------------------------------------------------------------
\* Parts of texts.

LEMMA PartOfText ==
    ASSUME NEW S, NEW str \in Seq(S), NEW m \in 1 .. Len(str) + 1,
           NEW n \in 0 .. Len(str)
    PROVE  /\ SubSeq(str, m, n) \in Seq(S)
           /\ Len(SubSeq(str, m, n)) = IF m <= n THEN n - m + 1 ELSE 0
           /\ DOMAIN SubSeq(str, m, n) = 1 .. n - m + 1
           /\ \A i \in 1 .. n - m + 1 : SubSeq(str, m, n)[i] = str[m + i - 1]
<1>1. Len(str) \in Nat
    BY LenProperties
<1>2. m \in Int /\ n \in Int
    BY <1>1
<1>3. \A i \in m .. n : str[i] \in S
    BY <1>1, ElementOfSeq
<1>4. /\ SubSeq(str, m, n) \in Seq(S)
      /\ Len(SubSeq(str, m, n)) = IF m <= n THEN n - m + 1 ELSE 0
      /\ \A i \in 1 .. n - m + 1 : SubSeq(str, m, n)[i] = str[m + i - 1]
    BY <1>2, <1>3, SubSeqProperties
<1>5. DOMAIN SubSeq(str, m, n) = 1 .. Len(SubSeq(str, m, n))
    BY <1>4, LenProperties
<1> QED
    BY <1>2, <1>4, <1>5

\* ltrim cuts before the first byte that is not a space.
LEMMA LtrimCuts ==
    ASSUME NEW S, NEW str \in Seq(S)
    PROVE  \E m \in 1 .. Len(str) + 1 :
              /\ ltrim(str) = SubSeq(str, m, Len(str))
              /\ \A k \in 1 .. m - 1 : IsSpace(str[k])
              /\ m <= Len(str) => ~IsSpace(str[m])
<1> DEFINE cuts == Solid(str) \cup {Len(str) + 1}
           m == Min(cuts)
<1>1. Len(str) \in Nat /\ DOMAIN str = 1 .. Len(str)
    BY LenProperties
<1>2. \A k \in cuts : k \in 1 .. Len(str) + 1
    BY <1>1 DEF Solid
<1>3. cuts \in SUBSET Nat /\ cuts # {}
    BY <1>1, <1>2
<1>4. m \in cuts /\ \A k \in cuts : m <= k
    BY <1>3, MinOf
<1>5. m \in 1 .. Len(str) + 1
    BY <1>2, <1>4
<1>6. \A k \in 1 .. m - 1 : k \in DOMAIN str /\ k \notin cuts
  <2> HIDE DEF cuts, m
  <2>1. ASSUME NEW k \in 1 .. m - 1 PROVE k \in DOMAIN str /\ ~(m <= k)
      BY <1>1, <1>5
  <2> QED
      BY <1>4, <2>1
<1>7. \A k \in 1 .. m - 1 : IsSpace(str[k])
    BY <1>6 DEF Solid
<1>8. m <= Len(str) => ~IsSpace(str[m])
    BY <1>1, <1>4 DEF Solid
<1>9. ltrim(str) = SubSeq(str, m, Len(str))
    BY DEF ltrim
<1> QED
    BY <1>5, <1>7, <1>8, <1>9

\* rtrim cuts behind the last one.
LEMMA RtrimCuts ==
    ASSUME NEW S, NEW str \in Seq(S)
    PROVE  \E m \in 0 .. Len(str) :
              /\ rtrim(str) = SubSeq(str, 1, m)
              /\ \A k \in m + 1 .. Len(str) : IsSpace(str[k])
              /\ m > 0 => ~IsSpace(str[m])
<1> DEFINE cuts == Solid(str) \cup {0}
           m == Max(cuts)
<1>1. Len(str) \in Nat /\ DOMAIN str = 1 .. Len(str)
    BY LenProperties
<1>2. \A k \in cuts : k \in 0 .. Len(str)
    BY <1>1 DEF Solid
<1>3. cuts \in SUBSET (0 .. Len(str)) /\ cuts # {}
    BY <1>2
<1>4. m \in cuts /\ \A k \in cuts : k <= m
    BY <1>1, <1>3, MaxOf
<1>5. m \in 0 .. Len(str)
    BY <1>2, <1>4
<1>6. \A k \in m + 1 .. Len(str) : k \in DOMAIN str /\ k \notin cuts
  <2> HIDE DEF cuts, m
  <2>1. ASSUME NEW k \in m + 1 .. Len(str) PROVE k \in DOMAIN str /\ ~(k <= m)
      BY <1>1, <1>5
  <2> QED
      BY <1>4, <2>1
<1>7. \A k \in m + 1 .. Len(str) : IsSpace(str[k])
    BY <1>6 DEF Solid
<1>8. m > 0 => ~IsSpace(str[m])
    BY <1>1, <1>4 DEF Solid
<1>9. rtrim(str) = SubSeq(str, 1, m)
    BY DEF rtrim
<1> QED
    BY <1>5, <1>7, <1>8, <1>9

\* What is left by trim is one part of the text, with spaces only around it and
\* none at its ends.
LEMMA TrimCuts ==
    ASSUME NEW S, NEW str \in Seq(S)
    PROVE  \E i \in 0 .. Len(str), n \in 0 .. Len(str) :
              /\ i + n <= Len(str)
              /\ trim(str) = SubSeq(str, i + 1, i + n)
              /\ \A k \in 1 .. Len(str) : k <= i \/ i + n < k => IsSpace(str[k])
              /\ n > 0 => ~IsSpace(str[i + 1]) /\ ~IsSpace(str[i + n])
<1>1. Len(str) \in Nat
    BY LenProperties
<1>2. PICK m \in 1 .. Len(str) + 1 :
         /\ ltrim(str) = SubSeq(str, m, Len(str))
         /\ \A k \in 1 .. m - 1 : IsSpace(str[k])
         /\ m <= Len(str) => ~IsSpace(str[m])
    BY LtrimCuts
<1> DEFINE left == ltrim(str)
<1>3. /\ left \in Seq(S)
      /\ Len(left) = Len(str) - m + 1
      /\ \A k \in 1 .. Len(str) - m + 1 : left[k] = str[m + k - 1]
    BY <1>1, <1>2, PartOfText
<1>4. PICK n \in 0 .. Len(left) :
         /\ rtrim(left) = SubSeq(left, 1, n)
         /\ \A k \in n + 1 .. Len(left) : IsSpace(left[k])
         /\ n > 0 => ~IsSpace(left[n])
    BY <1>3, RtrimCuts
<1> HIDE DEF left
<1>5. /\ SubSeq(left, 1, n) \in Seq(S)
      /\ Len(SubSeq(left, 1, n)) = n
      /\ \A k \in 1 .. n : SubSeq(left, 1, n)[k] = left[k]
    BY <1>1, <1>3, <1>4, PartOfText
<1>6. /\ SubSeq(str, m, m - 1 + n) \in Seq(S)
      /\ Len(SubSeq(str, m, m - 1 + n)) = n
      /\ \A k \in 1 .. n : SubSeq(str, m, m - 1 + n)[k] = str[m + k - 1]
    BY <1>1, <1>3, <1>4, PartOfText
<1>7. \A k \in 1 .. n : SubSeq(left, 1, n)[k] = SubSeq(str, m, m - 1 + n)[k]
  <2> SUFFICES ASSUME NEW k \in 1 .. n
               PROVE  SubSeq(left, 1, n)[k] = SubSeq(str, m, m - 1 + n)[k]
      OBVIOUS
  <2>1. k \in 1 .. Len(str) - m + 1
      BY <1>1, <1>3, <1>4
  <2> QED
      BY <1>3, <1>5, <1>6, <2>1
<1>8. SubSeq(left, 1, n) = SubSeq(str, m, m - 1 + n)
    BY <1>5, <1>6, <1>7, SeqEqual
<1>9. trim(str) = SubSeq(str, m, m - 1 + n)
    BY <1>4, <1>8 DEF trim, left
<1>10. \A k \in 1 .. Len(str) : k <= m - 1 \/ m - 1 + n < k => IsSpace(str[k])
  <2> SUFFICES ASSUME NEW k \in 1 .. Len(str), k <= m - 1 \/ m - 1 + n < k
               PROVE  IsSpace(str[k])
      OBVIOUS
  <2>1. CASE k <= m - 1
      BY <1>2, <2>1
  <2>2. CASE m - 1 + n < k
    <3>1. k - m + 1 \in n + 1 .. Len(left) /\ m + (k - m + 1) - 1 = k
        BY <1>1, <1>3, <2>2
    <3>2. left[k - m + 1] = str[k]
        BY <1>1, <1>3, <3>1
    <3> QED
        BY <1>4, <3>1, <3>2
  <2> QED
      BY <2>1, <2>2
<1>11. n > 0 => ~IsSpace(str[m]) /\ ~IsSpace(str[m - 1 + n])
  <2> SUFFICES ASSUME n > 0
               PROVE  ~IsSpace(str[m]) /\ ~IsSpace(str[m - 1 + n])
      OBVIOUS
  <2>1. m <= Len(str)
      BY <1>1, <1>3, <1>4
  <2>2. left[n] = str[m + n - 1] /\ m + n - 1 = m - 1 + n
      BY <1>1, <1>3, <1>4
  <2> QED
      BY <1>2, <1>4, <2>1, <2>2
<1> WITNESS m - 1 \in 0 .. Len(str), n \in 0 .. Len(str)
<1> QED
    BY <1>1, <1>3, <1>4, <1>9, <1>10, <1>11

-----------------------------------------------------------------------------
\* Looking for a text, whatever the case of its letters.

LEMMA SameInterval ==
    ASSUME NEW m \in Nat, NEW n \in Nat, 1 .. m = 1 .. n
    PROVE  m = n
<1>1. CASE m < n
  <2>1. n \in 1 .. m
      BY <1>1
  <2> QED
      BY <1>1, <2>1
<1>2. CASE n < m
  <2>1. m \in 1 .. n
      BY <1>2
  <2> QED
      BY <1>2, <2>1
<1> QED
    BY <1>1, <1>2

LEMMA SameLength ==
    ASSUME NEW S, NEW a \in Seq(S), NEW b \in Seq(S), toUpper(a) = toUpper(b)
    PROVE  Len(a) = Len(b)
<1>1. DOMAIN a = DOMAIN b
    BY Zenon DEF toUpper
<1>2. /\ DOMAIN a = 1 .. Len(a) /\ DOMAIN b = 1 .. Len(b)
      /\ Len(a) \in Nat /\ Len(b) \in Nat
    BY LenProperties
<1>3. 1 .. Len(a) = 1 .. Len(b)
    BY <1>1, <1>2, Zenon
<1> QED
    BY <1>2, <1>3, SameInterval

LEMMA SearchFinds ==
    ASSUME NEW S, NEW str \in Seq(S), NEW sub \in Seq(S)
    PROVE  /\ Search(str, sub) \in 0 .. Len(str)
           /\ Search(str, sub) # Len(str) =>
                 /\ Search(str, sub) <= Len(str) - Len(sub)
                 /\ toUpper(SubSeq(str, Search(str, sub) + 1,
                                   Search(str, sub) + Len(sub))) = toUpper(sub)
           /\ \A q \in 0 .. Len(str) - Len(sub) :
                 toUpper(SubSeq(str, q + 1, q + Len(sub))) = toUpper(sub) =>
                    Search(str, sub) <= q
<1> DEFINE found(q) == toUpper(SubSeq(str, q + 1, q + Len(sub))) = toUpper(sub)
           matches == {q \in 0 .. Len(str) - Len(sub) : found(q)}
           p == Search(str, sub)
<1>1. Len(str) \in Nat /\ Len(sub) \in Nat
    BY LenProperties
<1>2. p = Min({Len(str)} \cup matches)
    BY DEF Search
<1>3. \A q \in matches : q \in 0 .. Len(str) - Len(sub) /\ found(q)
    OBVIOUS
<1>4. \A q \in 0 .. Len(str) - Len(sub) : found(q) => q \in matches
    OBVIOUS
<1> HIDE DEF matches, found, p
<1>5. {Len(str)} \cup matches \in SUBSET Nat
    BY <1>1, <1>3
<1>6. p \in {Len(str)} \cup matches /\ \A q \in {Len(str)} \cup matches : p <= q
    BY <1>2, <1>5, MinOf
<1>7. p \in 0 .. Len(str)
    BY <1>1, <1>3, <1>6
<1>8. p # Len(str) => p <= Len(str) - Len(sub) /\ found(p)
    BY <1>1, <1>3, <1>6
<1>9. \A q \in 0 .. Len(str) - Len(sub) : found(q) => p <= q
    BY <1>4, <1>6
<1> QED
    BY <1>7, <1>8, <1>9 DEF p, found

\* A part of a text that is equal is found, and nothing else is; but at the end()
\* of the text, where an empty one is empty, a match counts as none.
LEMMA ContainsExact ==
    ASSUME NEW S, NEW str \in Seq(S), NEW sub \in Seq(S)
    PROVE  contains(str, sub) <=>
              str # <<>> /\ \E i \in 1 .. Len(str) + 1, j \in 0 .. Len(str) :
                                toUpper(SubSeq(str, i, j)) = toUpper(sub)
<1> DEFINE p == Search(str, sub)
<1>1. Len(str) \in Nat /\ Len(sub) \in Nat
    BY LenProperties
<1>2. p \in 0 .. Len(str)
    BY SearchFinds
<1>3. contains(str, sub) <=> p # Len(str)
    BY <1>1, <1>2 DEF contains, find_substr_ci
<1>4. p # Len(str) =>
         /\ p <= Len(str) - Len(sub)
         /\ toUpper(SubSeq(str, p + 1, p + Len(sub))) = toUpper(sub)
    BY SearchFinds
<1>5. \A q \in 0 .. Len(str) - Len(sub) :
         toUpper(SubSeq(str, q + 1, q + Len(sub))) = toUpper(sub) => p <= q
    BY SearchFinds
<1> HIDE DEF p
<1>6. ASSUME p # Len(str)
      PROVE  str # <<>> /\ \E i \in 1 .. Len(str) + 1, j \in 0 .. Len(str) :
                               toUpper(SubSeq(str, i, j)) = toUpper(sub)
  <2>1. p + 1 \in 1 .. Len(str) + 1 /\ p + Len(sub) \in 0 .. Len(str)
      BY <1>1, <1>2, <1>4, <1>6
  <2>2. Len(str) # 0
      BY <1>1, <1>2, <1>6
  <2>3. str # <<>>
      BY <2>2, EmptySeq
  <2> QED
      BY <1>4, <1>6, <2>1, <2>3
<1>7. ASSUME str # <<>>, NEW i \in 1 .. Len(str) + 1, NEW j \in 0 .. Len(str),
             toUpper(SubSeq(str, i, j)) = toUpper(sub)
      PROVE  p # Len(str)
  <2>1. /\ SubSeq(str, i, j) \in Seq(S)
        /\ Len(SubSeq(str, i, j)) = IF i <= j THEN j - i + 1 ELSE 0
      BY PartOfText
  <2>2. Len(sub) = IF i <= j THEN j - i + 1 ELSE 0
      BY <1>7, <2>1, SameLength
  <2>3. Len(str) > 0
      BY <1>1, <1>7, EmptySeq
  <2>4. CASE i <= j
    <3>1. i - 1 \in 0 .. Len(str) - Len(sub) /\ i - 1 + 1 = i /\ i - 1 + Len(sub) = j
        BY <1>1, <2>2, <2>4
    <3>2. toUpper(SubSeq(str, i - 1 + 1, i - 1 + Len(sub))) = toUpper(sub)
        BY <1>7, <3>1
    <3>3. p <= i - 1
        BY <1>5, <3>1, <3>2
    <3> QED
        BY <1>1, <1>2, <2>4, <3>3
  <2>5. CASE ~(i <= j)
    <3>1. Len(sub) = 0 /\ Len(SubSeq(str, i, j)) = 0
        BY <2>1, <2>2, <2>5
    <3>2. SubSeq(str, i, j) = <<>>
        BY <2>1, <3>1, EmptySeq
    <3>3. 0 + 1 \in 1 .. Len(str) + 1 /\ 0 + Len(sub) \in 0 .. Len(str)
        BY <1>1, <3>1
    <3>4. /\ SubSeq(str, 0 + 1, 0 + Len(sub)) \in Seq(S)
          /\ Len(SubSeq(str, 0 + 1, 0 + Len(sub))) = 0
        BY <3>1, <3>3, PartOfText
    <3>5. SubSeq(str, 0 + 1, 0 + Len(sub)) = <<>>
        BY <3>4, EmptySeq
    <3>6. toUpper(SubSeq(str, 0 + 1, 0 + Len(sub))) = toUpper(sub)
        BY <1>7, <3>2, <3>5
    <3>7. 0 \in 0 .. Len(str) - Len(sub)
        BY <1>1, <3>1
    <3>8. p <= 0
        BY <1>5, <3>6, <3>7
    <3> QED
        BY <1>2, <2>3, <3>8
  <2> QED
      BY <2>4, <2>5
<1> QED
    BY <1>3, <1>6, <1>7

LEMMA EqualExact ==
    ASSUME NEW S, NEW str \in Seq(S), NEW sub \in Seq(S)
    PROVE  equal(str, sub) <=> str # <<>> /\ toUpper(str) = toUpper(sub)
<1> DEFINE p == Search(str, sub)
<1>1. Len(str) \in Nat /\ Len(sub) \in Nat
    BY LenProperties
<1>2. p \in 0 .. Len(str)
    BY SearchFinds
<1>3. find_substr_ci(str, sub) = 0 <=> p = 0 /\ Len(str) # 0
    BY <1>1, <1>2 DEF find_substr_ci
<1>4. str # <<>> <=> Len(str) # 0
    BY EmptySeq
<1>5. /\ p # Len(str) => toUpper(SubSeq(str, p + 1, p + Len(sub))) = toUpper(sub)
      /\ \A q \in 0 .. Len(str) - Len(sub) :
            toUpper(SubSeq(str, q + 1, q + Len(sub))) = toUpper(sub) => p <= q
    BY SearchFinds
<1> HIDE DEF p
<1>6. SubSeq(str, 0 + 1, 0 + Len(str)) = str
    BY <1>1, SubSeqFull
<1>7. ASSUME p = 0, Len(str) # 0, Len(str) = Len(sub)
      PROVE  toUpper(str) = toUpper(sub)
    BY <1>5, <1>6, <1>7
<1>8. ASSUME toUpper(str) = toUpper(sub)
      PROVE  Len(str) = Len(sub) /\ p = 0
  <2>1. Len(str) = Len(sub)
      BY <1>8, SameLength
  <2>2. 0 \in 0 .. Len(str) - Len(sub)
      BY <1>1, <2>1
  <2>3. toUpper(SubSeq(str, 0 + 1, 0 + Len(sub))) = toUpper(sub)
      BY <1>6, <1>8, <2>1
  <2>4. p <= 0
      BY <1>5, <2>2, <2>3
  <2> QED
      BY <1>2, <2>1, <2>4
<1> QED
    BY <1>3, <1>4, <1>7, <1>8 DEF equal

-----------------------------------------------------------------------------
\* The inductive invariant: what each loop has done at every turn.

TypeInv ==
    /\ s \in Seq(Bytes)
    /\ call \in {"none", "split", "removeExtraWhitespaces", "imageEncoder"}
    /\ returned \in BOOLEAN
    /\ current \in 0 .. Len(s)
    /\ fields \in Seq(Seq(Bytes))
    /\ out \in Seq(Bytes)
    /\ call = "none" =>
          /\ returned = FALSE
          /\ current = 0 /\ fields = <<>> /\ out = <<>> /\ state = 0

\* The fields are in place that end at the positions in E.
FieldsOf(E) ==
    \A i \in Marks \cup {0}, j \in E :
        Adjacent(Marks, i, j) => fields[Rank(Marks, j)] = SubSeq(s, i + 1, j - 1)

SplitInv ==
    /\ In("split") =>
          /\ current \in Marks \cup {0}
          /\ Len(fields) + 1 = Rank(Marks, current + 1)
          /\ FieldsOf({k \in Marks : k <= current})
    /\ SplitJoins

SplitFacts == TypeInv /\ SplitInv

LEMMA MarksAreNumbers ==
    ASSUME TypeInv
    PROVE  /\ Marks \in SUBSET Nat /\ IsFiniteSet(Marks)
           /\ \A k \in Marks : k \in 1 .. Len(s) /\ s[k] \in delimiters
           /\ \A k \in 1 .. Len(s) : s[k] \in delimiters => k \in Marks
           /\ Len(s) \in Nat
<1>1. Len(s) \in Nat /\ DOMAIN s = 1 .. Len(s)
    BY LenProperties DEF TypeInv
<1>2. \A k \in Marks : k \in 1 .. Len(s) /\ s[k] \in delimiters
    BY <1>1 DEF Marks
<1>3. \A k \in 1 .. Len(s) : s[k] \in delimiters => k \in Marks
    BY <1>1 DEF Marks
<1>4. Marks \in SUBSET (1 .. Len(s))
    BY <1>2
<1>5. IsFiniteSet(1 .. Len(s))
    BY <1>1, FS_Interval
<1>6. IsFiniteSet(Marks)
    BY <1>4, <1>5, FS_Subset
<1> QED
    BY <1>1, <1>2, <1>3, <1>4, <1>6

\* A turn of split, and its end: the field behind the last delimiter that was
\* passed, up to `next`, goes to the end of the list, and that is its place.
LEMMA OneMoreField ==
    ASSUME SplitFacts, In("split"), NEW next \in current .. Len(s),
           \A k \in Marks : ~(current < k /\ k < next + 1),
           UNCHANGED frame, fields' = Append(fields, SubSeq(s, current + 1, next))
    PROVE  /\ fields' \in Seq(Seq(Bytes))
           /\ Len(fields') = Rank(Marks, next + 1)
           /\ \A i \in Marks \cup {0}, j \in {k \in Marks : k <= current} \cup {next + 1} :
                 Adjacent(Marks, i, j) =>
                    fields'[Rank(Marks, j)] = SubSeq(s, i + 1, j - 1)
<1> DEFINE field == SubSeq(s, current + 1, next)
<1>1. /\ Marks \in SUBSET Nat /\ IsFiniteSet(Marks)
      /\ \A k \in Marks : k \in 1 .. Len(s)
      /\ Len(s) \in Nat
    BY MarksAreNumbers DEF SplitFacts
<1>2. /\ s \in Seq(Bytes) /\ fields \in Seq(Seq(Bytes))
      /\ current \in 0 .. Len(s) /\ current \in Marks \cup {0}
      /\ Len(fields) + 1 = Rank(Marks, current + 1)
      /\ FieldsOf({k \in Marks : k <= current})
    BY DEF SplitFacts, TypeInv, SplitInv
<1>3. field \in Seq(Bytes)
    BY <1>1, <1>2, PartOfText
<1> HIDE DEF field
<1>4. fields' = Append(fields, field)
    BY DEF field
<1>5. /\ fields' \in Seq(Seq(Bytes))
      /\ Len(fields') = Len(fields) + 1
      /\ \A k \in 1 .. Len(fields) : fields'[k] = fields[k]
      /\ fields'[Len(fields) + 1] = field
    BY <1>2, <1>3, <1>4, AppendProperties
<1>6. current + 1 \in Nat /\ next + 1 \in Nat /\ current + 1 <= next + 1
      /\ \A k \in Marks : ~(current + 1 <= k /\ k < next + 1)
    BY <1>1, <1>2
<1>7. Rank(Marks, next + 1) = Len(fields) + 1
    BY <1>1, <1>2, <1>6, RankStays
<1>8. ASSUME NEW i \in Marks \cup {0},
             NEW j \in {k \in Marks : k <= current} \cup {next + 1},
             Adjacent(Marks, i, j)
      PROVE  fields'[Rank(Marks, j)] = SubSeq(s, i + 1, j - 1)
  <2>1. CASE j = next + 1
    <3>1. i \in Nat /\ i < next + 1 /\ \A k \in Marks : ~(i < k /\ k < next + 1)
        BY <1>1, <1>8, <2>1 DEF Adjacent
    <3>2. ~(current < i)
        BY <1>1, <1>2, <3>1
    <3>3. ~(i < current)
        BY <1>1, <1>2, <3>1
    <3>4. i = current
        BY <1>2, <3>1, <3>2, <3>3
    <3>5. j - 1 = next
        BY <1>1, <1>2, <2>1
    <3> QED
        BY <1>5, <1>7, <2>1, <3>4, <3>5 DEF field
  <2>2. CASE j # next + 1
    <3>1. j \in Marks /\ j <= current /\ j < current + 1
        BY <1>1, <1>2, <1>8, <2>2
    <3>2. fields[Rank(Marks, j)] = SubSeq(s, i + 1, j - 1)
        BY <1>2, <1>8, <3>1 DEF FieldsOf
    <3>3. Rank(Marks, j) \in Nat \ {0} /\ Rank(Marks, j) < Rank(Marks, current + 1)
        BY <1>1, <1>6, <3>1, RankGrows, RankIsNatural
    <3>4. Len(fields) \in Nat
        BY <1>2, LenProperties
    <3>5. Rank(Marks, j) \in 1 .. Len(fields)
        BY <1>2, <3>3, <3>4
    <3> QED
        BY <1>5, <3>2, <3>5
  <2> QED
      BY <2>1, <2>2
<1> QED
    BY <1>5, <1>7, <1>8

LEMMA MarksStay == ASSUME UNCHANGED frame PROVE Marks' = Marks /\ s' = s
BY DEF frame, Marks

LEMMA SplitTurnInv == ASSUME SplitFacts, SplitTurn PROVE SplitFacts'
<1>1. PICK next \in FieldEnds :
         /\ \A p \in FieldEnds : next <= p
         /\ fields' = Append(fields, SubSeq(s, current + 1, next))
         /\ current' = next + 1
    BY DEF SplitTurn
<1>2. /\ In("split") /\ UNCHANGED frame
      /\ returned' = returned /\ out' = out /\ state' = state
    BY DEF SplitTurn
<1>3. s' = s /\ Marks' = Marks /\ call' = call
    BY <1>2, MarksStay DEF frame
<1>4. /\ Marks \in SUBSET Nat /\ IsFiniteSet(Marks)
      /\ \A k \in Marks : k \in 1 .. Len(s) /\ s[k] \in delimiters
      /\ \A k \in 1 .. Len(s) : s[k] \in delimiters => k \in Marks
      /\ Len(s) \in Nat
    BY MarksAreNumbers DEF SplitFacts
<1>5. current \in 0 .. Len(s)
    BY DEF SplitFacts, TypeInv
<1>6. next \in current .. Len(s) - 1 /\ s[next + 1] \in delimiters
    BY DEF FieldEnds
<1>7. next + 1 \in Marks
    BY <1>4, <1>5, <1>6
<1>8. \A k \in Marks : ~(current < k /\ k < next + 1)
  <2> SUFFICES ASSUME NEW k \in Marks, current < k, k < next + 1 PROVE FALSE
      OBVIOUS
  <2>1. k - 1 \in current .. Len(s) - 1 /\ s[k - 1 + 1] \in delimiters
      BY <1>4, <1>5
  <2>2. k - 1 \in FieldEnds
      BY <2>1 DEF FieldEnds
  <2>3. next <= k - 1
      BY <1>1, <2>2
  <2> QED
      BY <1>4, <1>5, <1>6, <2>3
<1>9. next \in current .. Len(s)
    BY <1>4, <1>5, <1>6
<1>10. /\ fields' \in Seq(Seq(Bytes))
       /\ Len(fields') = Rank(Marks, next + 1)
       /\ \A i \in Marks \cup {0}, j \in {k \in Marks : k <= current} \cup {next + 1} :
             Adjacent(Marks, i, j) =>
                fields'[Rank(Marks, j)] = SubSeq(s, i + 1, j - 1)
    BY <1>1, <1>2, <1>8, <1>9, OneMoreField
<1>11. Rank(Marks, next + 1 + 1) = Rank(Marks, next + 1) + 1
  <2>1. next + 1 + 1 \in Nat /\ next + 1 < next + 1 + 1
        /\ \A k \in Marks : ~(next + 1 < k /\ k < next + 1 + 1)
      BY <1>4, <1>5, <1>6
  <2> QED
      BY <1>4, <1>7, <2>1, RankNext
<1>12. \A j \in Marks : j <= next + 1 => j <= current \/ j = next + 1
    BY <1>4, <1>5, <1>6, <1>8
<1>13. FieldsOf({k \in Marks : k <= current})'
    BY <1>1, <1>3, <1>10, <1>12 DEF FieldsOf
<1>14. In("split")' /\ call = "split" /\ returned = FALSE
    BY <1>2, <1>3 DEF In, SplitFacts, TypeInv
<1>15. TypeInv'
    BY <1>1, <1>2, <1>3, <1>4, <1>5, <1>6, <1>10, <1>14 DEF SplitFacts, TypeInv
<1>16. SplitInv'
  <2>1. current' \in (Marks \cup {0})'
      BY <1>1, <1>3, <1>7
  <2>2. Len(fields') + 1 = Rank(Marks', current' + 1)
      BY <1>1, <1>3, <1>10, <1>11
  <2>3. SplitJoins'
      BY <1>2, <1>14 DEF SplitJoins, Result
  <2> QED
      BY <1>13, <2>1, <2>2, <2>3 DEF SplitInv
<1> QED
    BY <1>15, <1>16 DEF SplitFacts

LEMMA SplitEndInv == ASSUME SplitFacts, SplitEnd PROVE SplitFacts'
<1>1. /\ In("split") /\ FieldEnds = {} /\ UNCHANGED frame
      /\ fields' = Append(fields, SubSeq(s, current + 1, Len(s)))
      /\ returned' = TRUE /\ current' = current /\ out' = out /\ state' = state
    BY DEF SplitEnd, Return
<1>2. s' = s /\ Marks' = Marks /\ call' = call
    BY <1>1, MarksStay DEF frame
<1>3. /\ Marks \in SUBSET Nat
      /\ \A k \in Marks : k \in 1 .. Len(s) /\ s[k] \in delimiters
      /\ Len(s) \in Nat
    BY MarksAreNumbers DEF SplitFacts
<1>4. current \in 0 .. Len(s)
    BY DEF SplitFacts, TypeInv
<1>5. \A k \in Marks : k <= current
  <2> SUFFICES ASSUME NEW k \in Marks, ~(k <= current) PROVE FALSE
      OBVIOUS
  <2>1. k - 1 \in current .. Len(s) - 1 /\ s[k - 1 + 1] \in delimiters
      BY <1>3, <1>4
  <2>2. k - 1 \in FieldEnds
      BY <2>1 DEF FieldEnds
  <2> QED
      BY <1>1, <2>2
<1>6. Len(s) \in current .. Len(s)
      /\ \A k \in Marks : ~(current < k /\ k < Len(s) + 1)
    BY <1>3, <1>4, <1>5
<1>7. /\ fields' \in Seq(Seq(Bytes))
      /\ Len(fields') = Rank(Marks, Len(s) + 1)
      /\ \A i \in Marks \cup {0},
            j \in {k \in Marks : k <= current} \cup {Len(s) + 1} :
            Adjacent(Marks, i, j) =>
               fields'[Rank(Marks, j)] = SubSeq(s, i + 1, j - 1)
    BY <1>1, <1>6, OneMoreField
<1>8. Rank(Marks, Len(s) + 1) = Cardinality(Marks) + 1
  <2>1. Len(s) + 1 \in Nat /\ \A k \in Marks : k < Len(s) + 1
      BY <1>3
  <2> QED
      BY <1>3, <2>1, RankOfEnd
<1>9. call = "split"
    BY <1>1 DEF In
<1>10. TypeInv'
    BY <1>1, <1>2, <1>7, <1>9 DEF SplitFacts, TypeInv
<1>11. SplitJoins'
  <2>1. Len(fields') = Cardinality(Marks') + 1
      BY <1>2, <1>7, <1>8, Zenon
  <2>2. \A i \in Marks \cup {0}, j \in Marks \cup {Len(s) + 1} :
           Adjacent(Marks, i, j) =>
              fields'[Rank(Marks, j)] = SubSeq(s, i + 1, j - 1)
      BY <1>5, <1>7
  <2> QED
      BY <1>2, <2>1, <2>2 DEF SplitJoins
<1>12. ~In("split")'
    BY <1>1 DEF In
<1> QED
    BY <1>10, <1>11, <1>12 DEF SplitFacts, SplitInv

-----------------------------------------------------------------------------
\* removeExtraWhitespaces: out is what is kept of the text up to the index, and a
\* blank at the index is the first of its run.

\* The positions of the bytes that are kept: up to the first NUL, and of each run
\* of blanks the first.
Kept ==
    {i \in DOMAIN s :
        /\ \A k \in 1 .. i : s[k] # 0
        /\ s[i] = 32 /\ i > 1 => s[i - 1] # 32}

KeptUpTo(n) == \A i \in Kept : i <= n => out[Rank(Kept, i)] = s[i]

SpacesInv ==
    /\ In("removeExtraWhitespaces") =>
          /\ \A k \in 1 .. current : s[k] # 0
          /\ current + 1 \in DOMAIN s /\ s[current + 1] = 32 /\ current > 0 =>
                s[current] # 32
          /\ Len(out) + 1 = Rank(Kept, current + 1)
          /\ KeptUpTo(current)
    /\ Result("removeExtraWhitespaces") =>
          Len(out) = Cardinality(Kept) /\ KeptUpTo(Len(s))

SpacesFacts == TypeInv /\ SpacesInv

LEMMA KeptAreNumbers ==
    ASSUME TypeInv
    PROVE  /\ Kept \in SUBSET Nat /\ IsFiniteSet(Kept)
           /\ \A i \in Kept : /\ i \in 1 .. Len(s)
                              /\ \A k \in 1 .. i : s[k] # 0
                              /\ s[i] = 32 /\ i > 1 => s[i - 1] # 32
           /\ \A i \in 1 .. Len(s) :
                 (\A k \in 1 .. i : s[k] # 0) /\ (s[i] = 32 /\ i > 1 => s[i - 1] # 32)
                    => i \in Kept
           /\ DOMAIN s = 1 .. Len(s) /\ Len(s) \in Nat
<1>1. Len(s) \in Nat /\ DOMAIN s = 1 .. Len(s)
    BY LenProperties DEF TypeInv
<1>2. \A i \in Kept : /\ i \in 1 .. Len(s)
                      /\ \A k \in 1 .. i : s[k] # 0
                      /\ s[i] = 32 /\ i > 1 => s[i - 1] # 32
    BY <1>1 DEF Kept
<1>3. /\ Kept \in SUBSET (1 .. Len(s))
      /\ \A i \in 1 .. Len(s) :
            (\A k \in 1 .. i : s[k] # 0) /\ (s[i] = 32 /\ i > 1 => s[i - 1] # 32)
               => i \in Kept
    BY <1>1, <1>2 DEF Kept
<1>4. IsFiniteSet(1 .. Len(s))
    BY <1>1, FS_Interval
<1>5. IsFiniteSet(Kept)
    BY <1>3, <1>4, FS_Subset
<1> QED
    BY <1>1, <1>2, <1>3, <1>5

LEMMA KeptStay == ASSUME UNCHANGED frame PROVE Kept' = Kept /\ s' = s
BY DEF frame, Kept

LEMMA SpacesTurnInv == ASSUME SpacesFacts, SpacesTurn PROVE SpacesFacts'
<1>1. /\ In("removeExtraWhitespaces") /\ Goes /\ UNCHANGED frame
      /\ out' = Append(out, s[current + 1])
      /\ returned' = returned /\ fields' = fields /\ state' = state
    BY DEF SpacesTurn
<1>2. s' = s /\ Kept' = Kept /\ call' = call
    BY <1>1, KeptStay DEF frame
<1>3. /\ call = "removeExtraWhitespaces" /\ returned = FALSE
      /\ In("removeExtraWhitespaces")'
    BY <1>1, <1>2 DEF In, SpacesFacts, TypeInv
<1>4. /\ Kept \in SUBSET Nat /\ IsFiniteSet(Kept)
      /\ \A i \in Kept : /\ i \in 1 .. Len(s)
                         /\ \A k \in 1 .. i : s[k] # 0
                         /\ s[i] = 32 /\ i > 1 => s[i - 1] # 32
      /\ \A i \in 1 .. Len(s) :
            (\A k \in 1 .. i : s[k] # 0) /\ (s[i] = 32 /\ i > 1 => s[i - 1] # 32)
               => i \in Kept
      /\ DOMAIN s = 1 .. Len(s) /\ Len(s) \in Nat
    BY KeptAreNumbers DEF SpacesFacts
<1>5. /\ s \in Seq(Bytes) /\ out \in Seq(Bytes) /\ current \in 0 .. Len(s)
      /\ \A k \in 1 .. current : s[k] # 0
      /\ current + 1 \in DOMAIN s /\ s[current + 1] = 32 /\ current > 0 =>
            s[current] # 32
      /\ Len(out) + 1 = Rank(Kept, current + 1)
      /\ KeptUpTo(current)
    BY <1>1 DEF SpacesFacts, SpacesInv, TypeInv
<1>6. current + 1 \in 1 .. Len(s) /\ s[current + 1] # 0
    BY <1>4 DEF SpacesTurn, Goes
<1>7. current + 1 \in Kept
  <2> DEFINE i == current + 1
  <2>1. i \in 1 .. Len(s) /\ i - 1 = current
      BY <1>4, <1>5, <1>6
  <2>2. \A k \in 1 .. i : s[k] # 0
      BY <1>4, <1>5, <1>6
  <2>3. s[i] = 32 /\ i > 1 => s[i - 1] # 32
      BY <1>4, <1>5, <1>6, <2>1
  <2> HIDE DEF i
  <2>4. i \in Kept
      BY <1>4, <2>1, <2>2, <2>3
  <2> QED
      BY <2>4 DEF i
<1>8. PICK next \in current + 1 .. Len(s) :
         /\ current' = next
         /\ \A i \in current + 2 .. next : s[i] = 32 /\ s[i - 1] = 32
         /\ next < Len(s) /\ s[next + 1] = 32 => s[next] # 32
  <2>1. CASE s[current + 1] = 32
    <3>1. PICK idx \in current + 1 .. Len(s) :
             /\ \A i \in current + 2 .. idx : s[i] = 32
             /\ idx < Len(s) => s[idx + 1] # 32
             /\ current' = idx
        BY <2>1 DEF SpacesTurn
    <3>2. \A i \in current + 2 .. idx : s[i - 1] = 32
      <4> SUFFICES ASSUME NEW i \in current + 2 .. idx PROVE s[i - 1] = 32
          OBVIOUS
      <4>1. CASE i = current + 2
        <5>1. i - 1 = current + 1
            BY <1>4, <1>5, <4>1
        <5> QED
            BY <2>1, <5>1
      <4>2. CASE i # current + 2
        <5>1. i - 1 \in current + 2 .. idx
            BY <1>4, <1>5, <4>2
        <5> QED
            BY <3>1, <5>1
      <4> QED
          BY <4>1, <4>2
    <3> QED
        BY <3>1, <3>2
  <2>2. CASE s[current + 1] # 32
    <3>1. current' = current + 1
        BY <2>2 DEF SpacesTurn
    <3> QED
        BY <1>4, <1>5, <1>6, <2>2, <3>1
  <2> QED
      BY <2>1, <2>2
<1>9. current \in Nat /\ next \in Nat /\ next >= current + 1
      /\ next <= Len(s)
    BY <1>4, <1>5, <1>8
<1>10. \A i \in Kept : ~(current + 1 < i /\ i < next + 1)
  <2> SUFFICES ASSUME NEW i \in Kept, current + 1 < i, i < next + 1
               PROVE  FALSE
      OBVIOUS
  <2>1. i \in current + 2 .. next /\ i > 1
      BY <1>4, <1>9
  <2> QED
      BY <1>4, <1>8, <2>1
<1>11. Rank(Kept, next + 1) = Rank(Kept, current + 1) + 1
  <2>1. next + 1 \in Nat /\ current + 1 < next + 1
      BY <1>9
  <2> QED
      BY <1>4, <1>7, <1>10, <2>1, RankNext
<1>12. s[current + 1] \in Bytes
    BY <1>5, <1>6, ElementOfSeq
<1>13. /\ out' \in Seq(Bytes)
       /\ Len(out') = Len(out) + 1
       /\ \A k \in 1 .. Len(out) : out'[k] = out[k]
       /\ out'[Len(out) + 1] = s[current + 1]
    BY <1>1, <1>5, <1>12, AppendProperties
<1>14. ASSUME NEW i \in Kept, i <= next
       PROVE  out'[Rank(Kept, i)] = s[i]
  <2>1. CASE i = current + 1
      BY <1>5, <1>13, <2>1
  <2>2. CASE i # current + 1
    <3>1. i <= current /\ i < current + 1
        BY <1>4, <1>9, <1>10, <1>14, <2>2
    <3>2. out[Rank(Kept, i)] = s[i]
        BY <1>5, <3>1 DEF KeptUpTo
    <3>3. current + 1 \in Nat /\ i \in Nat
        BY <1>4, <1>9
    <3>4. Rank(Kept, i) < Rank(Kept, current + 1)
        BY <1>4, <3>1, <3>3, RankGrows
    <3>5. Rank(Kept, i) \in Nat \ {0}
        BY <1>4, <3>3, RankIsNatural
    <3>6. Len(out) \in Nat
        BY <1>5, LenProperties
    <3>7. Rank(Kept, i) \in 1 .. Len(out)
        BY <1>5, <3>6, <3>4, <3>5
    <3> QED
        BY <1>13, <3>2, <3>7
  <2> QED
      BY <2>1, <2>2
<1>15. KeptUpTo(current)'
    BY <1>2, <1>8, <1>14 DEF KeptUpTo
<1>16. \A k \in 1 .. next : s[k] # 0
  <2> SUFFICES ASSUME NEW k \in 1 .. next PROVE s[k] # 0
      OBVIOUS
  <2>1. k \in 1 .. current \/ k = current + 1 \/ k \in current + 2 .. next
      BY <1>9
  <2> QED
      BY <1>5, <1>6, <1>8, <2>1
<1>17. SpacesInv'
  <2>1. \A k \in 1 .. current' : s'[k] # 0
      BY <1>2, <1>8, <1>16
  <2>2. current' + 1 \in DOMAIN s' /\ s'[current' + 1] = 32 /\ current' > 0 =>
           s'[current'] # 32
      BY <1>2, <1>4, <1>8, <1>9
  <2>3. Len(out') + 1 = Rank(Kept', current' + 1)
      BY <1>2, <1>5, <1>8, <1>11, <1>13
  <2>4. ~Result("removeExtraWhitespaces")'
      BY <1>1, <1>3 DEF Result
  <2> QED
      BY <1>15, <2>1, <2>2, <2>3, <2>4 DEF SpacesInv
<1>18. TypeInv'
    BY <1>1, <1>2, <1>3, <1>4, <1>8, <1>9, <1>13 DEF SpacesFacts, TypeInv
<1> QED
    BY <1>17, <1>18 DEF SpacesFacts

LEMMA SpacesEndInv == ASSUME SpacesFacts, SpacesEnd PROVE SpacesFacts'
<1>1. /\ In("removeExtraWhitespaces") /\ ~Goes /\ UNCHANGED frame
      /\ returned' = TRUE /\ current' = current /\ out' = out
      /\ fields' = fields /\ state' = state
    BY DEF SpacesEnd, Return
<1>2. s' = s /\ Kept' = Kept /\ call' = call
    BY <1>1, KeptStay DEF frame
<1>3. call = "removeExtraWhitespaces"
    BY <1>1 DEF In
<1>4. /\ Kept \in SUBSET Nat
      /\ \A i \in Kept : i \in 1 .. Len(s) /\ \A k \in 1 .. i : s[k] # 0
      /\ DOMAIN s = 1 .. Len(s) /\ Len(s) \in Nat
    BY KeptAreNumbers DEF SpacesFacts
<1>5. /\ current \in 0 .. Len(s)
      /\ Len(out) + 1 = Rank(Kept, current + 1)
      /\ KeptUpTo(current)
      /\ out \in Seq(Bytes)
    BY <1>1 DEF SpacesFacts, SpacesInv, TypeInv
<1>6. \A i \in Kept : i <= current
  <2> SUFFICES ASSUME NEW i \in Kept, ~(i <= current) PROVE FALSE
      OBVIOUS
  <2>1. current + 1 \in 1 .. i /\ current + 1 \in 1 .. Len(s)
      BY <1>4, <1>5
  <2>2. s[current + 1] # 0
      BY <1>4, <2>1
  <2> QED
      BY <1>1, <1>4, <2>1, <2>2 DEF Goes
<1>7. Rank(Kept, current + 1) = Cardinality(Kept) + 1
  <2>1. current + 1 \in Nat /\ \A i \in Kept : i < current + 1
      BY <1>4, <1>5, <1>6
  <2> QED
      BY <1>4, <2>1, RankOfEnd
<1>8. Len(out) = Cardinality(Kept)
  <2>1. Cardinality(Kept) \in Nat
      BY KeptAreNumbers, FS_CardinalityType DEF SpacesFacts
  <2>2. Len(out) \in Nat
      BY <1>5, LenProperties
  <2> QED
      BY <1>5, <1>7, <2>1, <2>2
<1>9. KeptUpTo(Len(s))'
    BY <1>1, <1>2, <1>5, <1>6 DEF KeptUpTo
<1>10. Len(out') = Cardinality(Kept')
    BY <1>1, <1>2, <1>8, Zenon
<1>11. ~In("removeExtraWhitespaces")'
    BY <1>1 DEF In
<1>12. SpacesInv'
    BY <1>9, <1>10, <1>11 DEF SpacesInv
<1>13. TypeInv'
    BY <1>1, <1>2, <1>3 DEF SpacesFacts, TypeInv
<1> QED
    BY <1>12, <1>13 DEF SpacesFacts

-----------------------------------------------------------------------------
\* imageEncoder: the symbols are the bits of the text, six by six.

Octet(str, k) == IF k \in DOMAIN str THEN str[k] ELSE 0

\* The bits that the i-th symbol is for, with zeros behind the text.
Sextet(str, i) ==
    LET g == 3 * ((i - 1) \div 4)
        r == (i - 1) % 4
    IN  CASE r = 0 -> Octet(str, g + 1) \div 4
          [] r = 1 -> (Octet(str, g + 1) % 4) * 16 + Octet(str, g + 2) \div 16
          [] r = 2 -> (Octet(str, g + 2) % 16) * 4 + Octet(str, g + 3) \div 64
          [] r = 3 -> Octet(str, g + 3) % 64

Sextets(n) == \A i \in 1 .. n : out[i] = Base64(Sextet(s, i))

ImageInv ==
    /\ In("imageEncoder") =>
          /\ state \in 0 .. 2
          /\ \E g \in Nat : current = 3 * g + state /\ Len(out) = 4 * g + state
          /\ state = 1 => lastStuff = (s[current] % 4) * 16
          /\ state = 2 => lastStuff = (s[current] % 16) * 4
          /\ Sextets(Len(out))
    /\ ImageDecodes

ImageFacts == TypeInv /\ ImageInv

LEMMA SymbolOfGroup ==
    ASSUME NEW str, NEW g \in Nat
    PROVE  /\ Sextet(str, 4 * g + 1) = Octet(str, 3 * g + 1) \div 4
           /\ Sextet(str, 4 * g + 2) =
                 (Octet(str, 3 * g + 1) % 4) * 16 + Octet(str, 3 * g + 2) \div 16
           /\ Sextet(str, 4 * g + 3) =
                 (Octet(str, 3 * g + 2) % 16) * 4 + Octet(str, 3 * g + 3) \div 64
           /\ Sextet(str, 4 * g + 4) = Octet(str, 3 * g + 3) % 64
<1>1. (4 * g + 1 - 1) \div 4 = g /\ (4 * g + 1 - 1) % 4 = 0
    OBVIOUS
<1>2. (4 * g + 2 - 1) \div 4 = g /\ (4 * g + 2 - 1) % 4 = 1
    OBVIOUS
<1>3. (4 * g + 3 - 1) \div 4 = g /\ (4 * g + 3 - 1) % 4 = 2
    OBVIOUS
<1>4. (4 * g + 4 - 1) \div 4 = g /\ (4 * g + 4 - 1) % 4 = 3
    OBVIOUS
<1>5. Sextet(str, 4 * g + 1) = Octet(str, 3 * g + 1) \div 4
    BY <1>1 DEF Sextet
<1>6. Sextet(str, 4 * g + 2) =
         (Octet(str, 3 * g + 1) % 4) * 16 + Octet(str, 3 * g + 2) \div 16
    BY <1>2 DEF Sextet
<1>7. Sextet(str, 4 * g + 3) =
         (Octet(str, 3 * g + 2) % 16) * 4 + Octet(str, 3 * g + 3) \div 64
    BY <1>3 DEF Sextet
<1>8. Sextet(str, 4 * g + 4) = Octet(str, 3 * g + 3) % 64
    BY <1>4 DEF Sextet
<1> QED
    BY <1>5, <1>6, <1>7, <1>8

LEMMA OctetIsByte ==
    ASSUME NEW str \in Seq(Bytes), NEW k
    PROVE  Octet(str, k) \in Bytes /\ Octet(str, k) \in 0 .. 255
<1>1. DOMAIN str = 1 .. Len(str)
    BY LenProperties
<1>2. k \in DOMAIN str => str[k] \in Bytes
    BY <1>1, ElementOfSeq
<1> QED
    BY <1>2 DEF Octet, Bytes

\* Two symbols are for different bits, and none is '='.
LEMMA SymbolsDiffer ==
    ASSUME NEW v \in 0 .. 63
    PROVE  /\ Base64(v) \in Bytes
           /\ Base64(v) # 61
           /\ \A w \in 0 .. 63 : Base64(w) = Base64(v) => w = v
BY DEF Base64, Bytes

LEMMA SextetIsSmall ==
    ASSUME NEW str \in Seq(Bytes), NEW i \in Nat \ {0}
    PROVE  Sextet(str, i) \in 0 .. 63
<1> DEFINE g == (i - 1) \div 4
           a == Octet(str, 3 * g + 1)
           b == Octet(str, 3 * g + 2)
           c == Octet(str, 3 * g + 3)
<1>1. a \in 0 .. 255 /\ b \in 0 .. 255 /\ c \in 0 .. 255
    BY OctetIsByte
<1>2. g \in Nat
    OBVIOUS
<1>3. /\ Sextet(str, 4 * g + 1) = a \div 4
      /\ Sextet(str, 4 * g + 2) = (a % 4) * 16 + b \div 16
      /\ Sextet(str, 4 * g + 3) = (b % 16) * 4 + c \div 64
      /\ Sextet(str, 4 * g + 4) = c % 64
    BY <1>2, SymbolOfGroup
<1>4. i \in {4 * g + 1, 4 * g + 2, 4 * g + 3, 4 * g + 4}
    OBVIOUS
<1> HIDE DEF g, a, b, c
<1>5. /\ a \div 4 \in 0 .. 63
      /\ (a % 4) * 16 + b \div 16 \in 0 .. 63
      /\ (b % 16) * 4 + c \div 64 \in 0 .. 63
      /\ c % 64 \in 0 .. 63
    BY <1>1
<1> QED
    BY <1>3, <1>4, <1>5

\* How many symbols n bytes take.  An image decodes to the text if that many are
\* the text's and the rest is padding.
SymbolsOf(n) == 4 * (n \div 3) + (IF n % 3 = 0 THEN 0 ELSE (n % 3) + 1)

LEMMA SymbolsOfGroups ==
    ASSUME NEW g \in Nat, NEW r \in 0 .. 2
    PROVE  SymbolsOf(3 * g + r) = 4 * g + (IF r = 0 THEN 0 ELSE r + 1)
<1>1. (3 * g + r) \div 3 = g /\ (3 * g + r) % 3 = r
    OBVIOUS
<1> QED
    BY <1>1 DEF SymbolsOf

LEMMA DecodesTo ==
    ASSUME NEW str \in Seq(Bytes), NEW img \in Seq(Bytes),
           SymbolsOf(Len(str)) <= Len(img),
           \A i \in 1 .. SymbolsOf(Len(str)) : img[i] = Base64(Sextet(str, i)),
           \A i \in SymbolsOf(Len(str)) + 1 .. Len(img) : img[i] = 61
    PROVE  Decoded(img) = str
<1>a. PICK g \in Nat, r \in 0 .. 2 : Len(str) = 3 * g + r
  <2>1. Len(str) \in Nat
      BY LenProperties
  <2>2. /\ Len(str) \div 3 \in Nat /\ Len(str) % 3 \in 0 .. 2
        /\ Len(str) = 3 * (Len(str) \div 3) + (Len(str) % 3)
      BY <2>1
  <2> QED
      BY <2>2
<1>b. PICK n \in Nat :
         /\ n = SymbolsOf(Len(str))
         /\ n = 4 * g + (IF r = 0 THEN 0 ELSE r + 1)
  <2>1. SymbolsOf(3 * g + r) = 4 * g + (IF r = 0 THEN 0 ELSE r + 1)
      BY SymbolsOfGroups
  <2>2. 4 * g + (IF r = 0 THEN 0 ELSE r + 1) \in Nat
      OBVIOUS
  <2>3. SymbolsOf(Len(str)) = SymbolsOf(3 * g + r)
      BY <1>a
  <2> QED
      BY ONLY <2>1, <2>2, <2>3
<1>c. /\ n <= Len(img)
      /\ \A i \in 1 .. n : img[i] = Base64(Sextet(str, i))
      /\ \A i \in n + 1 .. Len(img) : img[i] = 61
    BY <1>b
<1> USE <1>a, <1>b, <1>c
<1> DEFINE symbols == {i \in DOMAIN img : img[i] # 61}
           value(i) == CHOOSE v \in 0 .. 63 : Base64(v) = img[i]
           byte(i, q) ==
               CASE q = 0 -> value(i + 1) * 4 + value(i + 2) \div 16
                 [] q = 1 -> (value(i + 2) % 16) * 16 + value(i + 3) \div 4
                 [] q = 2 -> (value(i + 3) % 4) * 64 + value(i + 4)
<1>1. Decoded(img) = [k \in 1 .. (6 * Cardinality(symbols)) \div 8 |->
                         byte(4 * ((k - 1) \div 3), (k - 1) % 3)]
    BY DEF Decoded
<1>2. Len(img) \in Nat /\ DOMAIN img = 1 .. Len(img)
    BY LenProperties
<1>3. \A i \in 1 .. n : Sextet(str, i) \in 0 .. 63
  <2>1. ASSUME NEW i \in 1 .. n PROVE i \in Nat \ {0}
      OBVIOUS
  <2> QED
      BY <2>1, SextetIsSmall
<1>4. \A i \in 1 .. n : value(i) = Sextet(str, i)
  <2> SUFFICES ASSUME NEW i \in 1 .. n PROVE value(i) = Sextet(str, i)
      OBVIOUS
  <2> DEFINE v == Sextet(str, i)
  <2>1. v \in 0 .. 63 /\ Base64(v) = img[i]
      BY <1>3
  <2> HIDE DEF v, symbols, value, byte
  <2>2. \A w \in 0 .. 63 : Base64(w) = Base64(v) => w = v
      BY <2>1, SymbolsDiffer
  <2>3. \A w \in 0 .. 63 : Base64(w) = img[i] => w = v
      BY <2>1, <2>2
  <2>4. value(i) = v
      BY <2>1, <2>3 DEF value
  <2> QED
      BY <2>4 DEF v
<1>5. ASSUME NEW i \in 1 .. n PROVE img[i] # 61
  <2> HIDE DEF symbols, value, byte
  <2>1. Base64(Sextet(str, i)) # 61
      BY <1>3, SymbolsDiffer
  <2> QED
      BY <2>1
<1>6. symbols = 1 .. n
    BY <1>2, <1>5
<1>7. Cardinality(symbols) = n
  <2>1. Cardinality(1 .. n) = n
      BY FS_Interval
  <2> HIDE DEF symbols
  <2> QED
      BY <1>6, <2>1, Zenon
<1> HIDE DEF symbols, value
<1>8. (6 * n) \div 8 = Len(str)
  <2>1. CASE r = 0
      BY ONLY <1>a, <1>b, <2>1, g \in Nat
  <2>2. CASE r = 1
      BY ONLY <1>a, <1>b, <2>2, g \in Nat
  <2>3. CASE r = 2
      BY ONLY <1>a, <1>b, <2>3, g \in Nat
  <2> QED
      BY <2>1, <2>2, <2>3
<1>9. ASSUME NEW k \in 1 .. Len(str)
      PROVE  byte(4 * ((k - 1) \div 3), (k - 1) % 3) = str[k]
  <2> DEFINE h == (k - 1) \div 3
  <2>1. PICK a \in 0 .. 255, b \in 0 .. 255, c \in 0 .. 255 :
           /\ a = Octet(str, 3 * h + 1)
           /\ b = Octet(str, 3 * h + 2)
           /\ c = Octet(str, 3 * h + 3)
      BY OctetIsByte
  <2>2. h \in Nat
      OBVIOUS
  <2>3. /\ Sextet(str, 4 * h + 1) = a \div 4
        /\ Sextet(str, 4 * h + 2) = (a % 4) * 16 + b \div 16
        /\ Sextet(str, 4 * h + 3) = (b % 16) * 4 + c \div 64
        /\ Sextet(str, 4 * h + 4) = c % 64
      BY <2>1, <2>2, SymbolOfGroup
  <2>4. k \in DOMAIN str
      BY LenProperties
  <2>5. CASE (k - 1) % 3 = 0
    <3>1. k = 3 * h + 1
        BY ONLY <2>5, k \in Nat
    <3>2. 4 * h + 1 \in 1 .. n /\ 4 * h + 2 \in 1 .. n
      <4> HIDE DEF h
      <4>1. CASE h < g
          BY <2>2, <3>1, <4>1
      <4>2. CASE ~(h < g)
          BY <2>2, <3>1, <4>2
      <4> QED
          BY <4>1, <4>2
    <3>3. str[k] = a
        BY <2>1, <2>4, <3>1 DEF Octet
    <3> HIDE DEF h
    <3>4. /\ value(4 * h + 1) = a \div 4
          /\ value(4 * h + 2) = (a % 4) * 16 + b \div 16
        BY <1>4, <2>3, <3>2
    <3>5. byte(4 * h, 0) = value(4 * h + 1) * 4 + value(4 * h + 2) \div 16
        OBVIOUS
    <3> HIDE DEF byte
    <3>6. (a \div 4) * 4 + ((a % 4) * 16 + b \div 16) \div 16 = a
        BY ONLY a \in 0 .. 255, b \in 0 .. 255, c \in 0 .. 255
    <3>7. byte(4 * h, 0) = a
        BY <3>4, <3>5, <3>6
    <3> QED
        BY <2>5, <3>3, <3>7 DEF h
  <2>6. CASE (k - 1) % 3 = 1
    <3>1. k = 3 * h + 2
        BY ONLY <2>6, k \in Nat
    <3>2. 4 * h + 2 \in 1 .. n /\ 4 * h + 3 \in 1 .. n
      <4> HIDE DEF h
      <4>1. CASE h < g
          BY <2>2, <3>1, <4>1
      <4>2. CASE ~(h < g)
          BY <2>2, <3>1, <4>2
      <4> QED
          BY <4>1, <4>2
    <3>3. str[k] = b
        BY <2>1, <2>4, <3>1 DEF Octet
    <3> HIDE DEF h
    <3>4. /\ value(4 * h + 2) = (a % 4) * 16 + b \div 16
          /\ value(4 * h + 3) = (b % 16) * 4 + c \div 64
        BY <1>4, <2>3, <3>2
    <3>5. byte(4 * h, 1) = (value(4 * h + 2) % 16) * 16 + value(4 * h + 3) \div 4
        OBVIOUS
    <3> HIDE DEF byte
    <3>6. (((a % 4) * 16 + b \div 16) % 16) * 16 + ((b % 16) * 4 + c \div 64) \div 4 = b
        BY ONLY a \in 0 .. 255, b \in 0 .. 255, c \in 0 .. 255
    <3>7. byte(4 * h, 1) = b
        BY <3>4, <3>5, <3>6
    <3> QED
        BY <2>6, <3>3, <3>7 DEF h
  <2>7. CASE (k - 1) % 3 = 2
    <3>1. k = 3 * h + 3
        BY ONLY <2>7, k \in Nat
    <3>2. 4 * h + 3 \in 1 .. n /\ 4 * h + 4 \in 1 .. n
      <4> HIDE DEF h
      <4> QED
          BY <2>2, <3>1
    <3>3. str[k] = c
        BY <2>1, <2>4, <3>1 DEF Octet
    <3> HIDE DEF h
    <3>4. /\ value(4 * h + 3) = (b % 16) * 4 + c \div 64
          /\ value(4 * h + 4) = c % 64
        BY <1>4, <2>3, <3>2
    <3>5. byte(4 * h, 2) = (value(4 * h + 3) % 4) * 64 + value(4 * h + 4)
        OBVIOUS
    <3> HIDE DEF byte
    <3>6. (((b % 16) * 4 + c \div 64) % 4) * 64 + (c % 64) = c
        BY ONLY a \in 0 .. 255, b \in 0 .. 255, c \in 0 .. 255
    <3>7. byte(4 * h, 2) = c
        BY <3>4, <3>5, <3>6
    <3> QED
        BY <2>7, <3>3, <3>7 DEF h
  <2>8. (k - 1) % 3 \in 0 .. 2
      OBVIOUS
  <2> QED
      BY <2>5, <2>6, <2>7, <2>8
<1> HIDE DEF byte
<1>10. Decoded(img) = [k \in 1 .. Len(str) |-> str[k]]
    BY <1>1, <1>7, <1>8, <1>9
<1>11. str = [k \in 1 .. Len(str) |-> str[k]]
    BY LenProperties
<1> QED
    BY <1>10, <1>11

\* The next symbol goes behind the others.
LEMMA OneMoreSymbol ==
    ASSUME NEW str \in Seq(Bytes), NEW img \in Seq(Bytes),
           \A i \in 1 .. Len(img) : img[i] = Base64(Sextet(str, i)),
           NEW v, v = Sextet(str, Len(img) + 1)
    PROVE  /\ Append(img, Base64(v)) \in Seq(Bytes)
           /\ Len(Append(img, Base64(v))) = Len(img) + 1
           /\ \A i \in 1 .. Len(img) + 1 :
                 Append(img, Base64(v))[i] = Base64(Sextet(str, i))
<1>1. Len(img) \in Nat
    BY LenProperties
<1>2. v \in 0 .. 63
  <2>1. Len(img) + 1 \in Nat \ {0}
      BY <1>1
  <2> QED
      BY <2>1, SextetIsSmall
<1>3. Base64(v) \in Bytes
    BY <1>2, SymbolsDiffer
<1>4. /\ Append(img, Base64(v)) \in Seq(Bytes)
      /\ Len(Append(img, Base64(v))) = Len(img) + 1
      /\ \A i \in 1 .. Len(img) : Append(img, Base64(v))[i] = img[i]
      /\ Append(img, Base64(v))[Len(img) + 1] = Base64(v)
    BY <1>3, AppendProperties
<1>5. ASSUME NEW i \in 1 .. Len(img) + 1
      PROVE  Append(img, Base64(v))[i] = Base64(Sextet(str, i))
  <2>1. i \in 1 .. Len(img) \/ i = Len(img) + 1
      BY <1>1
  <2> QED
      BY <1>4, <2>1
<1> QED
    BY <1>4, <1>5

LEMMA TwoAppended ==
    ASSUME NEW S, NEW seq \in Seq(S), NEW x \in S, NEW y \in S
    PROVE  seq \o <<x, y>> = Append(Append(seq, x), y)
<1> DEFINE pair == <<x, y>>
           long == seq \o pair
           one  == Append(seq, x)
           two  == Append(one, y)
<1>1. pair \in Seq(S) /\ Len(pair) = 2 /\ pair[1] = x /\ pair[2] = y
    OBVIOUS
<1> HIDE DEF pair
<1>2. /\ long \in Seq(S) /\ Len(long) = Len(seq) + 2
      /\ \A i \in 1 .. Len(seq) + 2 :
            long[i] = IF i <= Len(seq) THEN seq[i] ELSE pair[i - Len(seq)]
  <2>1. /\ seq \o pair \in Seq(S)
        /\ Len(seq \o pair) = Len(seq) + Len(pair)
        /\ \A i \in 1 .. Len(seq) + Len(pair) :
              (seq \o pair)[i] =
                 IF i <= Len(seq) THEN seq[i] ELSE pair[i - Len(seq)]
      BY <1>1, ConcatProperties
  <2> QED
      BY <1>1, <2>1
<1>3. /\ one \in Seq(S) /\ Len(one) = Len(seq) + 1
      /\ \A i \in 1 .. Len(seq) : one[i] = seq[i]
      /\ one[Len(seq) + 1] = x
    BY AppendProperties
<1> HIDE DEF one, long
<1>4. /\ two \in Seq(S) /\ Len(two) = Len(one) + 1
      /\ \A i \in 1 .. Len(one) : two[i] = one[i]
      /\ two[Len(one) + 1] = y
    BY <1>3, AppendProperties
<1> HIDE DEF two
<1>5. Len(seq) \in Nat
    BY LenProperties
<1>6. ASSUME NEW i \in 1 .. Len(seq) + 2 PROVE two[i] = long[i]
  <2>1. CASE i \in 1 .. Len(seq)
      BY <1>2, <1>3, <1>4, <1>5, <2>1
  <2>2. CASE i = Len(seq) + 1
    <3>1. long[i] = pair[i - Len(seq)] /\ i - Len(seq) = 1
        BY <1>2, <1>5, <2>2
    <3> QED
        BY <1>1, <1>3, <1>4, <1>5, <2>2, <3>1
  <2>3. CASE i = Len(seq) + 2
    <3>1. long[i] = pair[i - Len(seq)] /\ i - Len(seq) = 2
        BY <1>2, <1>5, <2>3
    <3>2. i = Len(one) + 1
        BY <1>3, <1>5, <2>3
    <3> QED
        BY <1>1, <1>4, <3>1, <3>2
  <2> QED
      BY <1>5, <2>1, <2>2, <2>3
<1>7. Len(two) = Len(seq) + 2
    BY <1>3, <1>4, <1>5
<1>8. two = long
    BY <1>2, <1>4, <1>6, <1>7, SeqEqual
<1> QED
    BY <1>8 DEF two, one, long, pair

LEMMA EncodeTurnInv == ASSUME ImageFacts, EncodeTurn PROVE ImageFacts'
<1> DEFINE byte == s[current + 1]
<1>1. /\ In("imageEncoder") /\ current < Len(s) /\ UNCHANGED frame
      /\ current' = current + 1 /\ returned' = returned /\ fields' = fields
    BY DEF EncodeTurn
<1>2. s' = s /\ call' = call
    BY <1>1 DEF frame
<1>3. call = "imageEncoder" /\ returned = FALSE
    BY <1>1 DEF In, ImageFacts, TypeInv
<1>4. /\ s \in Seq(Bytes) /\ out \in Seq(Bytes) /\ current \in 0 .. Len(s)
      /\ state \in 0 .. 2
      /\ state = 1 => lastStuff = (s[current] % 4) * 16
      /\ state = 2 => lastStuff = (s[current] % 16) * 4
      /\ \A i \in 1 .. Len(out) : out[i] = Base64(Sextet(s, i))
    BY <1>1 DEF ImageFacts, TypeInv, ImageInv, Sextets
<1>5. PICK g \in Nat : current = 3 * g + state /\ Len(out) = 4 * g + state
    BY <1>1 DEF ImageFacts, ImageInv
<1>6. Len(s) \in Nat /\ DOMAIN s = 1 .. Len(s)
    BY <1>4, LenProperties
<1>7. /\ Octet(s, current + 1) = byte
      /\ state > 0 => Octet(s, current) = s[current]
    BY <1>1, <1>4, <1>5, <1>6 DEF Octet
<1>8. /\ byte \in 0 .. 255
      /\ state > 0 => s[current] \in 0 .. 255
  <2> HIDE DEF byte
  <2>1. Octet(s, current + 1) \in 0 .. 255
      BY <1>4, OctetIsByte
  <2>2. Octet(s, current) \in 0 .. 255
      BY <1>4, OctetIsByte
  <2> QED
      BY <1>7, <2>1, <2>2
<1>9. /\ Sextet(s, 4 * g + 1) = Octet(s, 3 * g + 1) \div 4
      /\ Sextet(s, 4 * g + 2) =
            (Octet(s, 3 * g + 1) % 4) * 16 + Octet(s, 3 * g + 2) \div 16
      /\ Sextet(s, 4 * g + 3) =
            (Octet(s, 3 * g + 2) % 16) * 4 + Octet(s, 3 * g + 3) \div 64
      /\ Sextet(s, 4 * g + 4) = Octet(s, 3 * g + 3) % 64
    BY SymbolOfGroup
<1> HIDE DEF byte
\* One turn writes the symbols up to place n, and the next has as many as there are.
<1> DEFINE Written ==
        /\ out' \in Seq(Bytes)
        /\ \A i \in 1 .. Len(out') : out'[i] = Base64(Sextet(s, i))
        /\ state' \in 0 .. 2
        /\ \E h \in Nat : current + 1 = 3 * h + state' /\ Len(out') = 4 * h + state'
        /\ state' = 1 => lastStuff' = (byte % 4) * 16
        /\ state' = 2 => lastStuff' = (byte % 16) * 4
<1>10. ASSUME state = 0 PROVE Written
  <2>1. /\ state' = 1 /\ out' = Append(out, Base64(byte \div 4))
        /\ lastStuff' = (byte % 4) * 16
      BY <1>10 DEF EncodeTurn, byte
  <2>2. current + 1 = 3 * g + 1 /\ Len(out) + 1 = 4 * g + 1
      BY <1>5, <1>10
  <2>3. byte \div 4 = Sextet(s, Len(out) + 1)
      BY <1>7, <1>9, <2>2
  <2>4. /\ out' \in Seq(Bytes) /\ Len(out') = Len(out) + 1
        /\ \A i \in 1 .. Len(out) + 1 : out'[i] = Base64(Sextet(s, i))
      BY <1>4, <2>1, <2>3, OneMoreSymbol
  <2>5. current + 1 = 3 * g + state' /\ Len(out') = 4 * g + state'
      BY <2>1, <2>2, <2>4
  <2> QED
      BY <2>1, <2>4, <2>5
<1>11. ASSUME state = 1 PROVE Written
  <2>1. /\ state' = 2 /\ out' = Append(out, Base64(byte \div 16 + lastStuff))
        /\ lastStuff' = (byte % 16) * 4
      BY <1>11 DEF EncodeTurn, byte
  <2>2. /\ current = 3 * g + 1 /\ current + 1 = 3 * g + 2
        /\ Len(out) + 1 = 4 * g + 2
      BY <1>5, <1>11
  <2>3. Sextet(s, Len(out) + 1) = (s[current] % 4) * 16 + byte \div 16
      BY <1>7, <1>9, <1>11, <2>2
  <2>4. byte \div 16 + lastStuff = Sextet(s, Len(out) + 1)
    <3>0. s[current] \in 0 .. 255 /\ byte \in 0 .. 255
        BY <1>8, <1>11
    <3>1. PICK a \in 0 .. 255, b \in 0 .. 255 : a = s[current] /\ b = byte
        BY <3>0
    <3>2. lastStuff = (a % 4) * 16 /\ Sextet(s, Len(out) + 1) = (a % 4) * 16 + b \div 16
        BY <1>4, <1>11, <2>3, <3>1
    <3> QED
        BY <3>1, <3>2
  <2>5. /\ out' \in Seq(Bytes) /\ Len(out') = Len(out) + 1
        /\ \A i \in 1 .. Len(out) + 1 : out'[i] = Base64(Sextet(s, i))
      BY <1>4, <2>1, <2>4, OneMoreSymbol
  <2>6. current + 1 = 3 * g + state' /\ Len(out') = 4 * g + state'
      BY <2>1, <2>2, <2>5
  <2> QED
      BY <2>1, <2>5, <2>6
<1>12. ASSUME state = 2 PROVE Written
  <2> DEFINE x == byte \div 64 + lastStuff
             y == byte % 64
             one == Append(out, Base64(x))
  <2>1. state' = 0 /\ out' = out \o <<Base64(x), Base64(y)>>
      BY <1>12 DEF EncodeTurn, byte
  <2>2. /\ current = 3 * g + 2 /\ current + 1 = 3 * g + 3
        /\ Len(out) + 1 = 4 * g + 3 /\ Len(out) + 1 + 1 = 4 * g + 4
      BY <1>5, <1>12
  <2>3. Sextet(s, Len(out) + 1) = (s[current] % 16) * 4 + byte \div 64
      BY <1>7, <1>9, <1>12, <2>2
  <2>4. x = Sextet(s, Len(out) + 1)
    <3>0. s[current] \in 0 .. 255 /\ byte \in 0 .. 255
        BY <1>8, <1>12
    <3>1. PICK a \in 0 .. 255, b \in 0 .. 255 : a = s[current] /\ b = byte
        BY <3>0
    <3>2. lastStuff = (a % 16) * 4 /\ Sextet(s, Len(out) + 1) = (a % 16) * 4 + b \div 64
        BY <1>4, <1>12, <2>3, <3>1
    <3> QED
        BY <3>1, <3>2
  <2>5. y = Sextet(s, Len(out) + 1 + 1)
      BY <1>7, <1>9, <2>2
  <2> HIDE DEF x, y, one
  <2>6. /\ one \in Seq(Bytes) /\ Len(one) = Len(out) + 1
        /\ \A i \in 1 .. Len(out) + 1 : one[i] = Base64(Sextet(s, i))
      BY <1>4, <2>4, OneMoreSymbol DEF one
  <2>7. /\ Append(one, Base64(y)) \in Seq(Bytes)
        /\ Len(Append(one, Base64(y))) = Len(one) + 1
        /\ \A i \in 1 .. Len(one) + 1 :
              Append(one, Base64(y))[i] = Base64(Sextet(s, i))
      BY <1>4, <2>5, <2>6, OneMoreSymbol
  <2>8. Base64(x) \in Bytes /\ Base64(y) \in Bytes
    <3>1. Len(out) + 1 \in Nat \ {0} /\ Len(out) + 1 + 1 \in Nat \ {0}
        BY <2>2
    <3>2. x \in 0 .. 63 /\ y \in 0 .. 63
        BY <1>4, <2>4, <2>5, <3>1, SextetIsSmall
    <3> QED
        BY <3>2, SymbolsDiffer
  <2>9. out' = Append(one, Base64(y))
      BY <1>4, <2>1, <2>8, TwoAppended DEF one
  <2>10. Len(out') = Len(one) + 1
      BY <2>7, <2>9
  <2>11. g + 1 \in Nat /\ current + 1 = 3 * (g + 1) + state'
         /\ Len(out') = 4 * (g + 1) + state'
      BY <2>1, <2>2, <2>6, <2>10
  <2>12. /\ out' \in Seq(Bytes)
         /\ \A i \in 1 .. Len(out') : out'[i] = Base64(Sextet(s, i))
      BY <2>7, <2>9, <2>10
  <2>13. \E h \in Nat : current + 1 = 3 * h + state' /\ Len(out') = 4 * h + state'
      BY <2>11
  <2>14. /\ state' \in 0 .. 2
         /\ state' = 1 => lastStuff' = (byte % 4) * 16
         /\ state' = 2 => lastStuff' = (byte % 16) * 4
      BY <2>1
  <2> QED
      BY <2>12, <2>13, <2>14
<1>13. Written
    BY <1>4, <1>10, <1>11, <1>12
<1>14. In("imageEncoder")' /\ ~Result("imageEncoder")'
    BY <1>1, <1>2, <1>3 DEF In, Result
<1>15. ImageInv'
    BY <1>1, <1>2, <1>13, <1>14 DEF ImageInv, ImageDecodes, Sextets, byte
<1>16. TypeInv'
    BY <1>1, <1>2, <1>3, <1>4, <1>6, <1>13 DEF ImageFacts, TypeInv
<1> QED
    BY <1>15, <1>16 DEF ImageFacts

\* Two texts, one behind the other.
LEMMA Joined ==
    ASSUME NEW S, NEW a \in Seq(S), NEW b \in Seq(S)
    PROVE  /\ a \o b \in Seq(S)
           /\ Len(a \o b) = Len(a) + Len(b)
           /\ \A i \in 1 .. Len(a) : (a \o b)[i] = a[i]
           /\ \A i \in 1 .. Len(b) : (a \o b)[Len(a) + i] = b[i]
<1>1. /\ a \o b \in Seq(S)
      /\ Len(a \o b) = Len(a) + Len(b)
      /\ \A i \in 1 .. Len(a) + Len(b) :
            (a \o b)[i] = IF i <= Len(a) THEN a[i] ELSE b[i - Len(a)]
    BY ConcatProperties
<1>2. Len(a) \in Nat /\ Len(b) \in Nat
    BY LenProperties
<1>3. ASSUME NEW i \in 1 .. Len(a) PROVE (a \o b)[i] = a[i]
  <2>1. i \in 1 .. Len(a) + Len(b) /\ i <= Len(a)
      BY <1>2
  <2> QED
      BY <1>1, <2>1
<1>4. ASSUME NEW i \in 1 .. Len(b) PROVE (a \o b)[Len(a) + i] = b[i]
  <2>1. /\ Len(a) + i \in 1 .. Len(a) + Len(b) /\ ~(Len(a) + i <= Len(a))
        /\ Len(a) + i - Len(a) = i
      BY <1>2
  <2> QED
      BY <1>1, <2>1
<1> QED
    BY <1>1, <1>3, <1>4

\* What goes behind a group that is not full: a symbol, and '=' for the rest.
Closing(x, m) == <<x>> \o Equals(m)

LEMMA Ending ==
    ASSUME NEW x \in Bytes, NEW m \in Nat
    PROVE  /\ Closing(x, m) \in Seq(Bytes)
           /\ Len(Closing(x, m)) = m + 1
           /\ Closing(x, m)[1] = x
           /\ \A i \in 2 .. m + 1 : Closing(x, m)[i] = 61
<1> DEFINE one == <<x>>
           rest == Equals(m)
<1>1. one \in Seq(Bytes) /\ Len(one) = 1 /\ one[1] = x
    OBVIOUS
<1>2. \A i \in 1 .. m : 61 \in Bytes
    BY DEF Bytes
<1>3. rest \in Seq(Bytes) /\ Len(rest) = m /\ \A i \in 1 .. m : rest[i] = 61
    BY <1>2, IsASeq DEF Equals
<1> HIDE DEF one, rest
<1>4. one \in Seq(Bytes) /\ rest \in Seq(Bytes)
    BY <1>1, <1>3
<1>5. /\ one \o rest \in Seq(Bytes)
      /\ Len(one \o rest) = Len(one) + Len(rest)
      /\ \A i \in 1 .. Len(one) : (one \o rest)[i] = one[i]
      /\ \A i \in 1 .. Len(rest) : (one \o rest)[Len(one) + i] = rest[i]
    BY <1>4, Joined
<1>6. Len(one \o rest) = m + 1 /\ (one \o rest)[1] = x
    BY <1>1, <1>3, <1>5
<1>7. \A i \in 2 .. m + 1 : (one \o rest)[i] = 61
  <2> SUFFICES ASSUME NEW i \in 2 .. m + 1 PROVE (one \o rest)[i] = 61
      OBVIOUS
  <2>1. i - 1 \in 1 .. Len(rest) /\ Len(one) + (i - 1) = i
      BY <1>1, <1>3
  <2> QED
      BY <1>3, <1>5, <2>1
<1> QED
    BY <1>5, <1>6, <1>7 DEF one, rest, Closing

\* The group is closed behind a text of 3g+1 or 3g+2 bytes.
LEMMA GroupIsClosed ==
    ASSUME NEW str \in Seq(Bytes), NEW img \in Seq(Bytes),
           Len(img) + 1 = SymbolsOf(Len(str)),
           \A i \in 1 .. Len(img) : img[i] = Base64(Sextet(str, i)),
           NEW v, v = Sextet(str, Len(img) + 1),
           NEW m \in Nat
    PROVE  /\ img \o Closing(Base64(v), m) \in Seq(Bytes)
           /\ Len(img \o Closing(Base64(v), m)) = Len(img) + 1 + m
           /\ Decoded(img \o Closing(Base64(v), m)) = str
<1>0. PICK whole : whole = img \o Closing(Base64(v), m)
    OBVIOUS
<1>1. Len(img) \in Nat /\ Len(img) + 1 \in Nat \ {0}
    BY LenProperties
<1>2. v \in 0 .. 63
    BY <1>1, SextetIsSmall
<1>3. Base64(v) \in Bytes
    BY <1>2, SymbolsDiffer
<1>4. PICK text \in Seq(Bytes) :
         /\ text = Closing(Base64(v), m)
         /\ Len(text) = m + 1 /\ text[1] = Base64(v)
         /\ \A i \in 2 .. m + 1 : text[i] = 61
  <2>1. Closing(Base64(v), m) \in Seq(Bytes)
      BY ONLY m \in Nat, <1>3, Ending
  <2>2. Len(Closing(Base64(v), m)) = m + 1
      BY ONLY m \in Nat, <1>3, Ending
  <2>3. Closing(Base64(v), m)[1] = Base64(v)
      BY ONLY m \in Nat, <1>3, Ending
  <2>4. \A i \in 2 .. m + 1 : Closing(Base64(v), m)[i] = 61
      BY ONLY m \in Nat, <1>3, Ending
  <2> QED
      BY ONLY <2>1, <2>2, <2>3, <2>4
<1>5. whole = img \o text
    BY <1>0, <1>4
<1>6. /\ whole \in Seq(Bytes)
      /\ Len(whole) = Len(img) + Len(text)
      /\ \A i \in 1 .. Len(img) : whole[i] = img[i]
      /\ \A i \in 1 .. Len(text) : whole[Len(img) + i] = text[i]
  <2>1. /\ img \o text \in Seq(Bytes)
        /\ Len(img \o text) = Len(img) + Len(text)
        /\ \A i \in 1 .. Len(img) : (img \o text)[i] = img[i]
        /\ \A i \in 1 .. Len(text) : (img \o text)[Len(img) + i] = text[i]
      BY ONLY img \in Seq(Bytes), text \in Seq(Bytes), Joined
  <2> QED
      BY <1>5, <2>1
<1>7. PICK n \in Nat : n = Len(img) + 1 /\ n = SymbolsOf(Len(str))
    BY <1>1
<1>8. Len(whole) = n + m
    BY <1>1, <1>4, <1>6, <1>7
<1>9. ASSUME NEW i \in 1 .. n PROVE whole[i] = Base64(Sextet(str, i))
  <2>1. CASE i \in 1 .. Len(img)
      BY <1>6, <2>1
  <2>2. CASE i \notin 1 .. Len(img)
    <3>1. i = n /\ 1 \in 1 .. Len(text)
        BY <1>1, <1>4, <1>7, <2>2
    <3>2. whole[n] = text[1]
        BY <1>6, <1>7, <3>1
    <3> QED
        BY <1>4, <1>7, <3>1, <3>2
  <2> QED
      BY <2>1, <2>2
<1>10. ASSUME NEW i \in n + 1 .. Len(whole) PROVE whole[i] = 61
  <2>1. i - Len(img) \in 2 .. m + 1 /\ i - Len(img) \in 1 .. Len(text)
        /\ Len(img) + (i - Len(img)) = i
      BY <1>1, <1>4, <1>7, <1>8
  <2>2. whole[i] = text[i - Len(img)]
      BY <1>6, <2>1
  <2> QED
      BY <1>4, <2>1, <2>2
<1>11. /\ SymbolsOf(Len(str)) <= Len(whole)
       /\ \A i \in 1 .. SymbolsOf(Len(str)) : whole[i] = Base64(Sextet(str, i))
       /\ \A i \in SymbolsOf(Len(str)) + 1 .. Len(whole) : whole[i] = 61
    BY <1>7, <1>8, <1>9, <1>10
<1>12. Decoded(whole) = str
    BY ONLY <1>6, <1>11, str \in Seq(Bytes), DecodesTo
<1> QED
    BY <1>0, <1>6, <1>7, <1>8, <1>12

LEMMA EncodeEndInv == ASSUME ImageFacts, EncodeEnd PROVE ImageFacts'
<1> DEFINE m == IF padding THEN 3 - state ELSE 0
<1>1. /\ In("imageEncoder") /\ current = Len(s) /\ UNCHANGED frame
      /\ returned' = TRUE /\ current' = current /\ fields' = fields
      /\ state' = state
    BY DEF EncodeEnd, EndsWith, Return
<1>2. s' = s /\ call' = call /\ padding' = padding
    BY <1>1 DEF frame
<1>3. call = "imageEncoder"
    BY <1>1 DEF In
<1>4. /\ s \in Seq(Bytes) /\ out \in Seq(Bytes)
      /\ state \in 0 .. 2
      /\ state = 1 => lastStuff = (s[current] % 4) * 16
      /\ state = 2 => lastStuff = (s[current] % 16) * 4
      /\ \A i \in 1 .. Len(out) : out[i] = Base64(Sextet(s, i))
    BY <1>1 DEF ImageFacts, TypeInv, ImageInv, Sextets
<1>5. PICK g \in Nat : current = 3 * g + state /\ Len(out) = 4 * g + state
    BY <1>1 DEF ImageFacts, ImageInv
<1>6. Len(s) \in Nat /\ DOMAIN s = 1 .. Len(s) /\ Len(s) = 3 * g + state
    BY <1>1, <1>4, <1>5, LenProperties
\* The image is the text's, and with padding its groups are full.
<1> DEFINE Done == /\ out' \in Seq(Bytes)
                   /\ Decoded(out') = s
                   /\ padding => Len(out') % 4 = 0
<1>7. ASSUME state = 0 PROVE Done
  <2>1. out' = out
      BY <1>4, <1>7, ConcatEmptySeq DEF EncodeEnd, EndsWith
  <2>2. Len(out) = 4 * g + 0 /\ Len(s) = 3 * g + 0
      BY <1>5, <1>6, <1>7
  <2>3. SymbolsOf(Len(s)) = Len(out) /\ Len(out) \in Nat
      BY <2>2, SymbolsOfGroups
  <2>4. Decoded(out) = s
    <3>1. /\ SymbolsOf(Len(s)) <= Len(out)
          /\ \A i \in 1 .. SymbolsOf(Len(s)) : out[i] = Base64(Sextet(s, i))
          /\ \A i \in SymbolsOf(Len(s)) + 1 .. Len(out) : out[i] = 61
        BY <1>4, <2>3
    <3> QED
        BY <1>4, <3>1, DecodesTo
  <2>5. Len(out) % 4 = 0
      BY <2>2
  <2> QED
      BY <1>4, <2>1, <2>4, <2>5
<1>8. ASSUME state # 0 PROVE Done
  <2>1. out' = out \o Closing(Base64(lastStuff), m)
      BY <1>8 DEF EncodeEnd, EndsWith, Closing
  <2>2. m \in Nat /\ (padding => m = 3 - state) /\ state \in 1 .. 2
      BY <1>4, <1>8
  <2>3. lastStuff = Sextet(s, Len(out) + 1)
    <3>1. /\ Sextet(s, 4 * g + 2) =
                (Octet(s, 3 * g + 1) % 4) * 16 + Octet(s, 3 * g + 2) \div 16
          /\ Sextet(s, 4 * g + 3) =
                (Octet(s, 3 * g + 2) % 16) * 4 + Octet(s, 3 * g + 3) \div 64
        BY SymbolOfGroup
    <3>2. CASE state = 1
      <4>1. Octet(s, 3 * g + 1) = s[current] /\ Octet(s, 3 * g + 2) = 0
          BY <1>1, <1>5, <1>6, <3>2 DEF Octet
      <4>2. PICK a \in 0 .. 255 : a = Octet(s, 3 * g + 1)
          BY <1>4, OctetIsByte
      <4>3. Sextet(s, 4 * g + 2) = (a % 4) * 16 + 0 \div 16
            /\ lastStuff = (a % 4) * 16
          BY <1>4, <3>1, <3>2, <4>1, <4>2
      <4>4. Len(out) + 1 = 4 * g + 2
          BY <1>5, <3>2
      <4> QED
          BY <4>3, <4>4
    <3>3. CASE state = 2
      <4>1. Octet(s, 3 * g + 2) = s[current] /\ Octet(s, 3 * g + 3) = 0
          BY <1>1, <1>5, <1>6, <3>3 DEF Octet
      <4>2. PICK a \in 0 .. 255 : a = Octet(s, 3 * g + 2)
          BY <1>4, OctetIsByte
      <4>3. Sextet(s, 4 * g + 3) = (a % 16) * 4 + 0 \div 64
            /\ lastStuff = (a % 16) * 4
          BY <1>4, <3>1, <3>3, <4>1, <4>2
      <4>4. Len(out) + 1 = 4 * g + 3
          BY <1>5, <3>3
      <4> QED
          BY <4>3, <4>4
    <3> QED
        BY <2>2, <3>2, <3>3
  <2> HIDE DEF m
  <2>4. /\ out \o Closing(Base64(lastStuff), m) \in Seq(Bytes)
        /\ Len(out \o Closing(Base64(lastStuff), m)) = Len(out) + 1 + m
        /\ Decoded(out \o Closing(Base64(lastStuff), m)) = s
    <3>1. Len(out) + 1 = SymbolsOf(Len(s))
        BY <1>5, <1>6, <2>2, SymbolsOfGroups
    <3>2. /\ s \in Seq(Bytes) /\ out \in Seq(Bytes) /\ m \in Nat
          /\ \A i \in 1 .. Len(out) : out[i] = Base64(Sextet(s, i))
        BY <1>4, <2>2
    <3>3. out \o Closing(Base64(lastStuff), m) \in Seq(Bytes)
        BY ONLY <2>3, <3>1, <3>2, GroupIsClosed
    <3>4. Len(out \o Closing(Base64(lastStuff), m)) = Len(out) + 1 + m
        BY ONLY <2>3, <3>1, <3>2, GroupIsClosed
    <3>5. Decoded(out \o Closing(Base64(lastStuff), m)) = s
        BY ONLY <2>3, <3>1, <3>2, GroupIsClosed
    <3> QED
        BY <3>3, <3>4, <3>5
  <2>5. padding => Len(out') % 4 = 0
    <3> SUFFICES ASSUME padding PROVE Len(out') % 4 = 0
        OBVIOUS
    <3>1. Len(out') = 4 * (g + 1)
        BY <1>4, <1>5, <2>1, <2>2, <2>4
    <3> QED
        BY <3>1
  <2> QED
      BY <2>1, <2>4, <2>5
<1>9. Done
    BY <1>7, <1>8
<1>10. ~In("imageEncoder")'
    BY <1>1 DEF In
<1>11. ImageInv'
    BY <1>2, <1>9, <1>10 DEF ImageInv, ImageDecodes
<1>12. TypeInv'
    BY <1>1, <1>2, <1>3, <1>9 DEF ImageFacts, TypeInv
<1> QED
    BY <1>11, <1>12 DEF ImageFacts

-----------------------------------------------------------------------------
\* All helpers together.

IInv == TypeInv /\ SplitInv /\ SpacesInv /\ ImageInv

\* A loop has nothing to say of a state in which another is at work, or none.
LEMMA OthersIdle ==
    /\ call # "split" => SplitInv
    /\ call # "removeExtraWhitespaces" => SpacesInv
    /\ call # "imageEncoder" => ImageInv
    /\ call' # "split" => SplitInv'
    /\ call' # "removeExtraWhitespaces" => SpacesInv'
    /\ call' # "imageEncoder" => ImageInv'
<1>1. call # "split" => SplitInv
    BY DEF SplitInv, SplitJoins, In, Result
<1>2. call # "removeExtraWhitespaces" => SpacesInv
    BY DEF SpacesInv, In, Result
<1>3. call # "imageEncoder" => ImageInv
    BY DEF ImageInv, ImageDecodes, In, Result
<1>4. call' # "split" => SplitInv'
    BY DEF SplitInv, SplitJoins, In, Result
<1>5. call' # "removeExtraWhitespaces" => SpacesInv'
    BY DEF SpacesInv, In, Result
<1>6. call' # "imageEncoder" => ImageInv'
    BY DEF ImageInv, ImageDecodes, In, Result
<1> QED
    BY <1>1, <1>2, <1>3, <1>4, <1>5, <1>6

LEMMA Idle == ASSUME TypeInv', call' = "none" PROVE IInv'
BY OthersIdle DEF IInv

\* Between two calls the locals and the results are empty.
LEMMA TypeBetweenCalls ==
    ASSUME NEW text \in Seq(Bytes), NEW c, c = 0
    PROVE  /\ c \in 0 .. Len(text)
           /\ "none" \in {"none", "split", "removeExtraWhitespaces", "imageEncoder"}
           /\ FALSE \in BOOLEAN
           /\ <<>> \in Seq(Seq(Bytes)) /\ <<>> \in Seq(Bytes)
<1>1. Len(text) \in Nat
    BY LenProperties
<1>2. c \in 0 .. Len(text)
    BY <1>1
<1> QED
    BY <1>2, EmptySeq

LEMMA InitInv == ASSUME Init PROVE IInv
<1>1. s \in Seq(Bytes)
  <2>1. PICK n \in 0 .. MaxLen : s \in [1 .. n -> Chars]
      BY DEF Init, Texts
  <2>2. n \in Nat /\ s \in [1 .. n -> Bytes]
      BY <2>1, CharsAssumption, MaxLenAssumption
  <2> QED
      BY <2>2, IsASeq
<1>2. /\ call = "none" /\ returned = FALSE /\ current = 0
      /\ fields = <<>> /\ out = <<>> /\ state = 0
    BY DEF Init
<1>3. TypeInv
    BY <1>1, <1>2, TypeBetweenCalls, Zenon DEF TypeInv
<1>4. call = "none"
    BY DEF Init
<1> QED
    BY <1>3, <1>4, OthersIdle DEF IInv

\* The helpers without a loop return texts.
LEMMA ChangedTexts ==
    ASSUME NEW str \in Seq(Bytes)
    PROVE  /\ ltrim(str) \in Seq(Bytes) /\ rtrim(str) \in Seq(Bytes)
           /\ trim(str) \in Seq(Bytes)
           /\ toUpper(str) \in Seq(Bytes) /\ toLower(str) \in Seq(Bytes)
<1>1. ASSUME NEW text \in Seq(Bytes) PROVE ltrim(text) \in Seq(Bytes)
  <2>1. PICK m \in 1 .. Len(text) + 1 : ltrim(text) = SubSeq(text, m, Len(text))
      BY LtrimCuts
  <2>2. Len(text) \in 0 .. Len(text)
      BY LenProperties
  <2> QED
      BY <2>1, <2>2, PartOfText
<1>2. ASSUME NEW text \in Seq(Bytes) PROVE rtrim(text) \in Seq(Bytes)
  <2>1. PICK m \in 0 .. Len(text) : rtrim(text) = SubSeq(text, 1, m)
      BY RtrimCuts
  <2>2. 1 \in 1 .. Len(text) + 1
      BY LenProperties
  <2> QED
      BY <2>1, <2>2, PartOfText
<1>3. trim(str) \in Seq(Bytes)
    BY <1>1, <1>2 DEF trim
<1>4. Len(str) \in Nat /\ DOMAIN str = 1 .. Len(str)
    BY LenProperties
<1>5. \A i \in 1 .. Len(str) : str[i] \in 0 .. 255
    BY ElementOfSeq DEF Bytes
<1>6. \A i \in 1 .. Len(str) : toupper(str[i]) \in Bytes
    BY <1>5 DEF toupper, Bytes
<1>7. \A i \in 1 .. Len(str) : tolower(str[i]) \in Bytes
  <2> SUFFICES ASSUME NEW i \in 1 .. Len(str) PROVE tolower(str[i]) \in Bytes
      OBVIOUS
  <2>1. PICK c \in 0 .. 255 : c = str[i]
      BY <1>5
  <2>2. tolower(c) \in 0 .. 255
      BY DEF tolower
  <2> QED
      BY <2>1, <2>2 DEF Bytes
<1>8. toUpper(str) \in Seq(Bytes)
    BY <1>4, <1>6, IsASeq DEF toUpper
<1>9. toLower(str) \in Seq(Bytes)
    BY <1>4, <1>7, IsASeq DEF toLower
<1> QED
    BY <1>1, <1>2, <1>3, <1>8, <1>9

LEMMA ChangeInv == ASSUME IInv, Change PROVE IInv'
<1>1. /\ s \in Seq(Bytes) /\ call = "none"
      /\ returned = FALSE
      /\ current = 0 /\ fields = <<>> /\ out = <<>> /\ state = 0
    BY DEF IInv, TypeInv, Change
<1>2. /\ s' \in {ltrim(s), rtrim(s), trim(s), toUpper(s), toLower(s)}
      /\ call' = call /\ returned' = returned /\ current' = current
      /\ fields' = fields /\ out' = out /\ state' = state
    BY DEF Change
<1>3. s' \in Seq(Bytes)
    BY <1>1, <1>2, ChangedTexts
<1>4. /\ call' = "none" /\ returned' = FALSE /\ current' = 0
      /\ fields' = <<>> /\ out' = <<>> /\ state' = 0
    BY <1>1, <1>2
<1>5. TypeInv'
    BY <1>3, <1>4, TypeBetweenCalls, Zenon DEF TypeInv
<1> QED
    BY <1>4, <1>5, Idle

LEMMA GoOnInv == ASSUME IInv, GoOn PROVE IInv'
<1>1. /\ call' = "none" /\ returned' = FALSE /\ current' = 0
      /\ fields' = <<>> /\ out' = <<>> /\ state' = 0
    BY DEF GoOn
<1>2. fields \in Seq(Seq(Bytes)) /\ out \in Seq(Bytes)
    BY DEF IInv, TypeInv
<1>3. s' \in Seq(Bytes)
  <2>1. CASE call = "split"
    <3>1. PICK i \in DOMAIN fields : s' = fields[i]
        BY <2>1 DEF GoOn, ToSet
    <3>2. i \in 1 .. Len(fields)
        BY <1>2, LenProperties
    <3> QED
        BY <1>2, <3>1, <3>2, ElementOfSeq
  <2>2. CASE call # "split"
      BY <1>2, <2>2 DEF GoOn
  <2> QED
      BY <2>1, <2>2
<1>4. TypeInv'
    BY <1>1, <1>3, TypeBetweenCalls, Zenon DEF TypeInv
<1> QED
    BY <1>1, <1>4, Idle

\* What is so when a helper with a loop has been called.
LEMMA CallFacts ==
    ASSUME IInv, NEW helper, Call(helper),
           helper \in {"split", "removeExtraWhitespaces", "imageEncoder"}
    PROVE  /\ TypeInv' /\ call' = helper /\ s' = s
           /\ s \in Seq(Bytes) /\ Len(s) \in Nat /\ DOMAIN s = 1 .. Len(s)
           /\ returned' = FALSE /\ current' = 0 /\ state' = 0
           /\ Len(fields') = 0 /\ Len(out') = 0
<1>1. /\ call = "none" /\ call' = helper /\ s' = s /\ returned' = returned
      /\ current' = current /\ fields' = fields /\ out' = out /\ state' = state
    BY DEF Call
<1>2. /\ s \in Seq(Bytes) /\ returned = FALSE
      /\ current \in 0 .. Len(s) /\ fields \in Seq(Seq(Bytes)) /\ out \in Seq(Bytes)
      /\ current = 0 /\ fields = <<>> /\ out = <<>> /\ state = 0
    BY <1>1 DEF IInv, TypeInv
<1>3. Len(s) \in Nat /\ DOMAIN s = 1 .. Len(s)
    BY <1>2, LenProperties
<1>4. Len(fields') = 0 /\ Len(out') = 0
    BY <1>1, <1>2, EmptySeq
<1>5. TypeInv'
    BY <1>1, <1>2 DEF TypeInv
<1> QED
    BY <1>1, <1>2, <1>3, <1>4, <1>5

LEMMA CallSplitInv ==
    ASSUME IInv, NEW d, CallSplit(d)
    PROVE  IInv'
<1>1. /\ TypeInv' /\ call' = "split" /\ s' = s
      /\ s \in Seq(Bytes) /\ Len(s) \in Nat /\ DOMAIN s = 1 .. Len(s)
      /\ returned' = FALSE /\ current' = 0 /\ Len(fields') = 0
    BY CallFacts DEF CallSplit
<1>2. \A k \in Marks' : k \in 1 .. Len(s)
    BY <1>1 DEF Marks
<1>3. Marks' \in SUBSET Nat /\ \A k \in Marks' : 1 <= k
    BY <1>1, <1>2
<1>4. Rank(Marks', 1) = 1
    BY <1>3, RankOfBeginning
<1>5. FieldsOf({k \in Marks : k <= current})'
  <2>1. \A k \in Marks' : ~(k <= current')
      BY <1>1, <1>3
  <2> QED
      BY <2>1 DEF FieldsOf
<1>6. current' \in (Marks \cup {0})'
    BY <1>1
<1>7. current' + 1 = 1 /\ Len(fields') + 1 = 1
    BY <1>1
<1>8. Len(fields') + 1 = Rank(Marks', current' + 1)
    BY <1>4, <1>7
<1>9. SplitJoins'
    BY <1>1 DEF SplitJoins, Result
<1>10. SplitInv'
    BY <1>5, <1>6, <1>8, <1>9 DEF SplitInv
<1> QED
    BY <1>1, <1>10, OthersIdle DEF IInv

LEMMA CallSpacesInv == ASSUME IInv, CallSpaces PROVE IInv'
<1>1. /\ TypeInv' /\ call' = "removeExtraWhitespaces" /\ s' = s
      /\ s \in Seq(Bytes) /\ Len(s) \in Nat /\ DOMAIN s = 1 .. Len(s)
      /\ returned' = FALSE /\ current' = 0 /\ Len(out') = 0
    BY CallFacts DEF CallSpaces
<1>2. \A k \in Kept' : k \in 1 .. Len(s)
    BY <1>1 DEF Kept
<1>3. Kept' \in SUBSET Nat /\ \A k \in Kept' : 1 <= k
    BY <1>1, <1>2
<1>4. Rank(Kept', 1) = 1
    BY <1>3, RankOfBeginning
<1>5. KeptUpTo(current)'
  <2>1. \A k \in Kept' : ~(k <= current')
      BY <1>1, <1>3
  <2> QED
      BY <2>1 DEF KeptUpTo
<1>6. current' + 1 = 1 /\ Len(out') + 1 = 1 /\ ~(current' > 0)
      /\ \A k \in 1 .. current' : FALSE
    BY <1>1
<1>7. Len(out') + 1 = Rank(Kept', current' + 1)
    BY <1>4, <1>6
<1>8. ~Result("removeExtraWhitespaces")'
    BY <1>1 DEF Result
<1>9. SpacesInv'
    BY <1>5, <1>6, <1>7, <1>8 DEF SpacesInv
<1> QED
    BY <1>1, <1>9, OthersIdle DEF IInv

LEMMA CallEncoderInv ==
    ASSUME IInv, NEW pad, CallEncoder(pad)
    PROVE  IInv'
<1>1. /\ TypeInv' /\ call' = "imageEncoder"
      /\ returned' = FALSE /\ current' = 0 /\ state' = 0 /\ Len(out') = 0
    BY CallFacts DEF CallEncoder
<1>2. \E g \in Nat : current' = 3 * g + state' /\ Len(out') = 4 * g + state'
  <2>1. current' = 3 * 0 + state' /\ Len(out') = 4 * 0 + state'
      BY <1>1
  <2> QED
      BY <2>1
<1>3. Sextets(Len(out))'
  <2>1. \A i \in 1 .. Len(out') : FALSE
      BY <1>1
  <2> QED
      BY <2>1 DEF Sextets
<1>4. ImageInv'
    BY <1>1, <1>2, <1>3 DEF ImageInv, ImageDecodes, Result
<1> QED
    BY <1>1, <1>4, OthersIdle DEF IInv

LEMMA StutterInv == ASSUME IInv, UNCHANGED vars PROVE IInv'
<1>1. /\ s' = s /\ call' = call /\ returned' = returned
      /\ delimiters' = delimiters /\ padding' = padding /\ current' = current
      /\ fields' = fields /\ out' = out /\ state' = state
      /\ lastStuff' = lastStuff
    BY DEF vars, frame
<1>2. TypeInv'
    BY <1>1 DEF IInv, TypeInv
<1>3. SplitInv'
    BY <1>1 DEF IInv, SplitInv, SplitJoins, FieldsOf, Marks, In, Result
<1>4. SpacesInv'
    BY <1>1 DEF IInv, SpacesInv, KeptUpTo, Kept, In, Result
<1>5. ImageInv'
    BY <1>1 DEF IInv, ImageInv, ImageDecodes, Sextets, In, Result
<1> QED
    BY <1>2, <1>3, <1>4, <1>5 DEF IInv

LEMMA Induction == Spec => []IInv
<1>1. IInv /\ [Next]_vars => IInv'
  <2> SUFFICES ASSUME IInv, [Next]_vars PROVE IInv'
      OBVIOUS
  <2>1. CASE Change
      BY <2>1, ChangeInv
  <2>2. CASE \E d \in Delimiters : CallSplit(d)
      BY <2>2, CallSplitInv
  <2>3. ASSUME SplitTurn \/ SplitEnd PROVE IInv'
    <3>1. SplitFacts'
        BY <2>3, SplitTurnInv, SplitEndInv DEF IInv, SplitFacts
    <3>2. call' = "split"
        BY <2>3 DEF SplitTurn, SplitEnd, Return, In, frame
    <3> QED
        BY <3>1, <3>2, OthersIdle DEF IInv, SplitFacts
  <2>4. CASE CallSpaces
      BY <2>4, CallSpacesInv
  <2>5. ASSUME SpacesTurn \/ SpacesEnd PROVE IInv'
    <3>1. SpacesFacts'
        BY <2>5, SpacesTurnInv, SpacesEndInv DEF IInv, SpacesFacts
    <3>2. call' = "removeExtraWhitespaces"
        BY <2>5 DEF SpacesTurn, SpacesEnd, Return, In, frame
    <3> QED
        BY <3>1, <3>2, OthersIdle DEF IInv, SpacesFacts
  <2>6. CASE \E pad \in BOOLEAN : CallEncoder(pad)
      BY <2>6, CallEncoderInv
  <2>7. ASSUME EncodeTurn \/ EncodeEnd PROVE IInv'
    <3>1. ImageFacts'
        BY <2>7, EncodeTurnInv, EncodeEndInv DEF IInv, ImageFacts
    <3>2. call' = "imageEncoder"
        BY <2>7 DEF EncodeTurn, EncodeEnd, EndsWith, Return, In, frame
    <3> QED
        BY <3>1, <3>2, OthersIdle DEF IInv, ImageFacts
  <2>8. CASE GoOn
      BY <2>8, GoOnInv
  <2>9. CASE UNCHANGED vars
      BY <2>9, StutterInv
  <2> QED
      BY <2>1, <2>2, <2>3, <2>4, <2>5, <2>6, <2>7, <2>8, <2>9
      DEF Next, Split, Spaces, Encode
<1> QED
    BY <1>1, InitInv, PTL DEF Spec

\* In an empty text a text that is not empty has no place.
LEMMA NotInEmpty ==
    ASSUME NEW n \in Seq(Bytes), s = <<>>, n # <<>>,
           NEW i \in 1 .. Len(s) + 1, NEW j \in 0 .. Len(s)
    PROVE  toUpper(SubSeq(s, i, j)) # toUpper(n)
<1>1. i = 1 /\ j = 0
    OBVIOUS
<1>2. DOMAIN SubSeq(s, i, j) = {}
    BY <1>1
<1>3. Len(n) > 0 /\ DOMAIN n = 1 .. Len(n)
    BY EmptySeq, LenProperties
<1>4. DOMAIN toUpper(SubSeq(s, i, j)) = {} /\ 1 \in DOMAIN toUpper(n)
    BY <1>2, <1>3 DEF toUpper
<1> QED
    BY <1>4

\* What is looked for is found wherever it is in the text, in any case of letters,
\* and nothing else is (find_substr_ci, contains, stringContains, equal): but for
\* an empty text in an empty text.
THEOREM SearchIsExact == Spec => []SearchExact
<1>1. IInv => SearchExact
  <2> SUFFICES ASSUME IInv, NEW n \in Needles, s # <<>> \/ n # <<>>
               PROVE  /\ contains(s, n) <=>
                            \E i \in 1 .. Len(s) + 1, j \in 0 .. Len(s) :
                                toUpper(SubSeq(s, i, j)) = toUpper(n)
                      /\ stringContains(s, n) <=> contains(s, n)
                      /\ equal(s, n) <=> toUpper(s) = toUpper(n)
      BY DEF SearchExact
  <2>1. s \in Seq(Bytes) /\ n \in Seq(Bytes)
      BY NeedlesAssumption DEF IInv, TypeInv
  <2>2. Search(s, n) \in 0 .. Len(s)
      BY <2>1, SearchFinds
  <2>3. stringContains(s, n) <=> contains(s, n)
      BY <2>2 DEF stringContains, contains, find_substr_ci
  <2>4. contains(s, n) <=>
           s # <<>> /\ \E i \in 1 .. Len(s) + 1, j \in 0 .. Len(s) :
                           toUpper(SubSeq(s, i, j)) = toUpper(n)
      BY <2>1, ContainsExact
  <2>5. equal(s, n) <=> s # <<>> /\ toUpper(s) = toUpper(n)
      BY <2>1, EqualExact
  <2>6. \A i \in 1 .. Len(s) + 1, j \in 0 .. Len(s) :
           s = <<>> => toUpper(SubSeq(s, i, j)) # toUpper(n)
      BY <2>1, NotInEmpty
  <2>7. s = <<>> => toUpper(s) # toUpper(n)
    <3> SUFFICES ASSUME s = <<>> PROVE toUpper(s) # toUpper(n)
        OBVIOUS
    <3>1. DOMAIN toUpper(s) = {}
        BY DEF toUpper
    <3>2. 1 \in DOMAIN toUpper(n)
        BY <2>1, EmptySeq, LenProperties DEF toUpper
    <3> QED
        BY <3>1, <3>2
  <2> QED
      BY <2>3, <2>4, <2>5, <2>6, <2>7
<1> QED
    BY <1>1, Induction, PTL

\* trim takes off what its comment lists at both ends and nothing else, but for
\* texts with a tab, and removeExtraWhitespaces leaves one blank of each run of
\* them, but for texts with a NUL (ltrim, rtrim, trim, removeExtraWhitespaces).
THEOREM BlanksAreExact == Spec => []BlanksExact
<1>1. IInv => BlanksExact
  <2> SUFFICES ASSUME IInv PROVE BlanksExact
      OBVIOUS
  <2> DEFINE t == trim(s)
  <2>1. s \in Seq(Bytes)
      BY DEF IInv, TypeInv
  <2>2. Len(s) \in Nat /\ DOMAIN s = 1 .. Len(s)
      BY <2>1, LenProperties
  <2>3. PICK i \in 0 .. Len(s), n \in 0 .. Len(s) :
           /\ i + n <= Len(s)
           /\ t = SubSeq(s, i + 1, i + n)
           /\ \A k \in 1 .. Len(s) : k <= i \/ i + n < k => IsSpace(s[k])
           /\ n > 0 => ~IsSpace(s[i + 1]) /\ ~IsSpace(s[i + n])
      BY <2>1, TrimCuts
  <2> HIDE DEF t
  <2>4. /\ t \in Seq(Bytes) /\ Len(t) = n
        /\ \A k \in 1 .. n : t[k] = s[i + k]
    <3>1. i + 1 \in 1 .. Len(s) + 1 /\ i + n \in 0 .. Len(s)
        BY <2>2, <2>3
    <3>2. /\ t \in Seq(Bytes)
          /\ Len(t) = IF i + 1 <= i + n THEN (i + n) - (i + 1) + 1 ELSE 0
          /\ \A k \in 1 .. (i + n) - (i + 1) + 1 : t[k] = s[(i + 1) + k - 1]
        BY <2>1, <2>3, <3>1, PartOfText
    <3>3. Len(t) = n /\ (i + n) - (i + 1) + 1 = n
        BY <3>2
    <3>4. \A k \in 1 .. n : (i + 1) + k - 1 = i + k
        OBVIOUS
    <3> QED
        BY <3>2, <3>3, <3>4
  <2>5. /\ SubSeq(s, i + 1, i + Len(t)) = t
        /\ \A k \in DOMAIN s \ (i + 1 .. i + Len(t)) : IsSpace(s[k])
    <3>1. ASSUME NEW k \in DOMAIN s \ (i + 1 .. i + n) PROVE IsSpace(s[k])
      <4>1. k \in 1 .. Len(s) /\ (k <= i \/ i + n < k)
          BY <2>2, <2>3
      <4> QED
          BY <2>3, <4>1
    <3> QED
        BY <2>3, <2>4, <3>1
  <2>6. t # <<>> => ~IsSpace(t[1]) /\ ~IsSpace(Last(t))
    <3> SUFFICES ASSUME t # <<>> PROVE ~IsSpace(t[1]) /\ ~IsSpace(Last(t))
        OBVIOUS
    <3>1. n > 0
        BY <2>4, EmptySeq
    <3>2. t[1] = s[i + 1] /\ t[n] = s[i + n]
        BY <2>4, <3>1
    <3> QED
        BY <2>3, <2>4, <3>1, <3>2 DEF Last
  <2>7. ASSUME 9 \notin ToSet(s)
        PROVE  /\ Enclosed(t, Listed)
               /\ t # <<>> => t[1] \notin Listed /\ Last(t) \notin Listed
    <3>1. \A k \in DOMAIN s : IsSpace(s[k]) => s[k] \in Listed
        BY <2>7 DEF ToSet, IsSpace, Listed
    <3>2. \A c \in Listed : IsSpace(c)
        BY DEF IsSpace, Listed
    <3>3. Enclosed(t, Listed)
        BY <2>5, <3>1 DEF Enclosed
    <3> QED
        BY <2>6, <3>2, <3>3
  <2>8. ASSUME Result("removeExtraWhitespaces"), 0 \notin ToSet(s)
        PROVE  /\ Len(out) = Cardinality(NotExtra)
               /\ \A k \in NotExtra : out[Rank(NotExtra, k)] = s[k]
    <3>1. \A k \in DOMAIN s : s[k] # 0
        BY <2>8 DEF ToSet
    <3>2. Kept = NotExtra
        BY <2>2, <3>1 DEF Kept, NotExtra
    <3>3. \A k \in Kept : k <= Len(s)
        BY KeptAreNumbers DEF IInv
    <3>4. /\ Len(out) = Cardinality(Kept)
          /\ \A k \in Kept : out[Rank(Kept, k)] = s[k]
        BY <2>8, <3>3 DEF IInv, SpacesInv, KeptUpTo
    <3> QED
        BY <3>2, <3>4, Zenon
  <2> QED
      BY <2>7, <2>8 DEF BlanksExact, t
<1> QED
    BY <1>1, Induction, PTL

\* split returns the bytes between each delimiter and the next, the empty fields
\* and the last one included, whatever the delimiters (split).
THEOREM SplitIsExact == Spec => []SplitJoins
<1>1. IInv => SplitJoins
    BY DEF IInv, SplitInv
<1> QED
    BY <1>1, Induction, PTL

\* Every image decodes to the bytes it was made of, at every length (imageEncoder).
THEOREM ImagesDecode == Spec => []ImageDecodes
<1>1. IInv => ImageDecodes
    BY DEF IInv, ImageInv
<1> QED
    BY <1>1, Induction, PTL

=============================================================================
