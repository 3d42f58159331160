------------------------------- MODULE PemProofs -------------------------------
(***************************************************************************)
(* The text decoder of pem.rs, for every text of lines and every set of    *)
(* keys: what NonBlank keeps, where Find finds a label, which body lengths *)
(* are those of a key; then the theorems about every text that can be      *)
(* reached.                                                                *)
(***************************************************************************)
EXTENDS PemText, SequenceTheorems, FiniteSetTheorems, TLAPS

-----------------------------------------------------------------------------
(* Positions in increasing order. *)

\* A set of natural numbers has a least element, so Min finds it.
LEMMA MinIsLeast ==
  ASSUME NEW S \in SUBSET Nat, S # {}
  PROVE  Min(S) \in S /\ \A n \in S : Min(S) <= n
<1> DEFINE below == {1..n : n \in S}
<1>1. \A n \in S : 1..n \in FiniteSubsetsOf(Nat)
  <2>1. ASSUME NEW n \in S PROVE IsFiniteSet(1..n) /\ 1..n \in SUBSET Nat
    BY FS_Interval
  <2> QED
    BY <2>1 DEF FiniteSubsetsOf
<1>2. below \subseteq FiniteSubsetsOf(Nat) /\ below # {}
  BY <1>1
<1>3. PICK b \in below : \A c \in below : ~(<<c, b>> \in StrictSubsetOrdering(Nat))
  BY <1>2, FS_StrictSubsetOrderingWellFounded, WFMin
<1>4. PICK m \in S : b = 1..m
  BY <1>3
<1>5. ASSUME NEW n \in S, n < m PROVE FALSE
  <2>1. 1..n \in below /\ 1..n \subseteq 1..m /\ 1..n # 1..m
    BY <1>5
  <2>2. <<1..n, 1..m>> \in StrictSubsetOrdering(Nat)
    BY <2>1 DEF StrictSubsetOrdering
  <2> QED
    BY <1>3, <1>4, <2>1, <2>2
<1>6. \A n \in S : m <= n
  BY <1>5
<1> QED
  BY <1>6 DEF Min

Upto(kept, i) == {j \in kept : j <= i}

LEMMA RankType ==
  ASSUME NEW kept \in SUBSET Nat, IsFiniteSet(kept)
  PROVE  /\ Cardinality(kept) \in Nat
         /\ \A i \in kept : Cardinality(Upto(kept, i)) \in 1..Cardinality(kept)
         /\ \A i, j \in kept : i < j => Cardinality(Upto(kept, i)) < Cardinality(Upto(kept, j))
<1>1. Cardinality(kept) \in Nat
  BY FS_CardinalityType
<1>2. ASSUME NEW i \in kept
      PROVE  /\ IsFiniteSet(Upto(kept, i)) /\ i \in Upto(kept, i)
             /\ Cardinality(Upto(kept, i)) \in 1..Cardinality(kept)
  <2>1. Upto(kept, i) \in SUBSET kept /\ i \in Upto(kept, i)
    BY DEF Upto
  <2>2. IsFiniteSet(Upto(kept, i)) /\ Cardinality(Upto(kept, i)) <= Cardinality(kept)
    BY <2>1, FS_Subset
  <2>3. Cardinality(Upto(kept, i)) \in Nat
    BY <2>2, FS_CardinalityType
  <2>4. Cardinality(Upto(kept, i)) # 0
    BY <2>1, <2>2, FS_EmptySet
  <2> QED
    BY <1>1, <2>1, <2>2, <2>3, <2>4
<1>3. ASSUME NEW i \in kept, NEW j \in kept, i < j
      PROVE  Cardinality(Upto(kept, i)) < Cardinality(Upto(kept, j))
  <2>1. Upto(kept, i) \in SUBSET Upto(kept, j) /\ j \notin Upto(kept, i)
    <3>1. i \in Nat /\ j \in Nat /\ \A l \in kept : l \in Nat
      OBVIOUS
    <3>2. \A l \in kept : l <= i => l <= j
      BY <1>3, <3>1
    <3>3. j \notin Upto(kept, i)
      BY <1>3, <3>1 DEF Upto
    <3>4. \A l \in Upto(kept, i) : l \in Upto(kept, j)
      BY <3>2 DEF Upto
    <3> QED
      BY <3>3, <3>4
  <2>2. IsFiniteSet(Upto(kept, j)) /\ j \in Upto(kept, j)
    BY <1>2
  <2>3. /\ Cardinality(Upto(kept, i)) <= Cardinality(Upto(kept, j))
        /\ Cardinality(Upto(kept, j)) = Cardinality(Upto(kept, i))
             => Upto(kept, j) = Upto(kept, i)
    BY <2>1, <2>2, FS_Subset
  <2>4. /\ Cardinality(Upto(kept, i)) \in 1..Cardinality(kept)
        /\ Cardinality(Upto(kept, j)) \in 1..Cardinality(kept)
    BY <1>2
  <2>5. Cardinality(Upto(kept, j)) # Cardinality(Upto(kept, i))
    BY <2>1, <2>2, <2>3
  <2> QED
    BY <1>1, <2>3, <2>4, <2>5
<1> QED
  BY <1>1, <1>2, <1>3

\* Nth enumerates a finite set of positions in increasing order.
LEMMA NthEnumerates ==
  ASSUME NEW kept \in SUBSET Nat, IsFiniteSet(kept)
  PROVE  /\ \A n \in 1..Cardinality(kept) :
              Nth(kept, n) \in kept /\ Cardinality(Upto(kept, Nth(kept, n))) = n
         /\ \A i \in kept : Nth(kept, Cardinality(Upto(kept, i))) = i
<1> DEFINE rank == [i \in kept |-> Cardinality(Upto(kept, i))]
           upto == 1..Cardinality(kept)
<1>1. Cardinality(kept) \in Nat
  BY RankType
<1>2. rank \in [kept -> upto]
  BY RankType
<1>3. \A i, j \in kept : Cardinality(Upto(kept, i)) = Cardinality(Upto(kept, j)) => i = j
  <2>1. SUFFICES ASSUME NEW i \in kept, NEW j \in kept,
                        Cardinality(Upto(kept, i)) = Cardinality(Upto(kept, j)), i # j
                 PROVE  FALSE
    OBVIOUS
  <2>2. i < j \/ j < i
    BY <2>1
  <2>3. Cardinality(Upto(kept, i)) \in Nat
    BY RankType
  <2> QED
    BY <2>1, <2>2, <2>3, RankType
<1>4. rank \in Injection(kept, upto)
  BY <1>2, <1>3 DEF Injection, IsInjective
<1>5. IsFiniteSet(upto) /\ Cardinality(upto) = Cardinality(kept)
  BY <1>1, FS_Interval
<1>6. rank \in Surjection(kept, upto)
  BY <1>4, <1>5, FS_Injection
<1>7. \A n \in upto : \E i \in kept : Cardinality(Upto(kept, i)) = n
  BY <1>6 DEF Surjection
<1>8. ASSUME NEW n \in upto
      PROVE  Nth(kept, n) \in kept /\ Cardinality(Upto(kept, Nth(kept, n))) = n
  <2>1. \E i \in kept : Cardinality({j \in kept : j <= i}) = n
    BY <1>7 DEF Upto
  <2> QED
    BY <2>1 DEF Nth, Upto
<1>9. ASSUME NEW i \in kept PROVE Nth(kept, Cardinality(Upto(kept, i))) = i
  <2>1. Cardinality(Upto(kept, i)) \in upto
    BY <1>2
  <2> QED
    BY <1>3, <1>8, <2>1
<1> QED
  BY <1>8, <1>9

\* An increasing enumeration of a set is Nth.
LEMMA EnumerationIsNth ==
  ASSUME NEW kept \in SUBSET Nat, NEW m \in Nat, NEW f \in [1..m -> kept],
         \A a, b \in 1..m : a < b => f[a] < f[b],
         \A i \in kept : \E a \in 1..m : f[a] = i
  PROVE  Cardinality(kept) = m /\ \A a \in 1..m : Nth(kept, a) = f[a]
<1>1. \A a, b \in 1..m : f[a] = f[b] => a = b
  <2>1. SUFFICES ASSUME NEW a \in 1..m, NEW b \in 1..m, f[a] = f[b], a # b PROVE FALSE
    OBVIOUS
  <2>2. a < b \/ b < a
    BY <2>1
  <2>3. f[a] \in Nat
    OBVIOUS
  <2> QED
    BY <2>1, <2>2, <2>3
<1>2. f \in Bijection(1..m, kept)
  BY <1>1 DEF Bijection, Injection, Surjection, IsInjective
<1>3. IsFiniteSet(1..m) /\ ExistsBijection(1..m, kept)
  BY <1>2, FS_Interval DEF ExistsBijection
<1>4. IsFiniteSet(kept) /\ Cardinality(kept) = m
  BY <1>3, FS_Bijection, FS_CountingElements
<1>5. ASSUME NEW a \in 1..m PROVE Nth(kept, a) = f[a]
  <2> DEFINE g == [b \in 1..a |-> f[b]]
  <2>1. \A b \in 1..a : b \in 1..m /\ f[b] \in kept /\ f[b] <= f[a]
    <3>1. SUFFICES ASSUME NEW b \in 1..a PROVE b \in 1..m /\ f[b] \in kept /\ f[b] <= f[a]
      OBVIOUS
    <3>2. b \in 1..m /\ (b = a \/ b < a)
      OBVIOUS
    <3>3. f[a] \in Nat /\ f[b] \in Nat
      BY <3>2
    <3> QED
      BY <3>2, <3>3
  <2>2. g \in [1..a -> Upto(kept, f[a])]
    BY <2>1 DEF Upto
  <2>3. \A b, c \in 1..a : g[b] = g[c] => b = c
    BY <1>1, <2>1
  <2>4. ASSUME NEW i \in Upto(kept, f[a]) PROVE \E b \in 1..a : g[b] = i
    <3>1. PICK b \in 1..m : f[b] = i
      BY DEF Upto
    <3>2. ~(a < b)
      <4>1. f[b] <= f[a] /\ f[a] \in Nat /\ f[b] \in Nat
        BY <3>1 DEF Upto
      <4> QED
        BY <4>1
    <3>3. b \in 1..a
      BY <3>2
    <3> QED
      BY <3>1, <3>3
  <2>5. g \in Bijection(1..a, Upto(kept, f[a]))
    BY <2>2, <2>3, <2>4 DEF Bijection, Injection, Surjection, IsInjective
  <2>6. a \in Nat /\ ExistsBijection(1..a, Upto(kept, f[a]))
    BY <2>5 DEF ExistsBijection
  <2>7. Cardinality(Upto(kept, f[a])) = a
    BY <2>6, FS_CountingElements
  <2>8. f[a] \in kept
    OBVIOUS
  <2> QED
    BY <1>4, <2>7, <2>8, NthEnumerates
<1> QED
  BY <1>4, <1>5

Kept(lines) == {i \in DOMAIN lines : lines[i].kind # "blank"}

LEMMA KeptType ==
  ASSUME NEW S, NEW lines \in Seq(S)
  PROVE  /\ Kept(lines) \in SUBSET (1..Len(lines)) /\ Kept(lines) \in SUBSET Nat
         /\ IsFiniteSet(Kept(lines)) /\ Cardinality(Kept(lines)) \in Nat
<1>1. Len(lines) \in Nat /\ DOMAIN lines = 1..Len(lines)
  BY LenProperties
<1>2. Kept(lines) \in SUBSET (1..Len(lines))
  BY <1>1 DEF Kept
<1>3. IsFiniteSet(1..Len(lines))
  BY <1>1, FS_Interval
<1>4. IsFiniteSet(Kept(lines))
  BY <1>2, <1>3, FS_Subset
<1> QED
  BY <1>1, <1>2, <1>4, FS_CardinalityType

\* The lines that are not blank, in their order, each one once.
LEMMA NonBlankProperties ==
  ASSUME NEW S, NEW lines \in Seq(S)
  PROVE  /\ NonBlank(lines) \in Seq(S)
         /\ Len(NonBlank(lines)) = Cardinality(Kept(lines))
         /\ \A n \in 1..Cardinality(Kept(lines)) :
              /\ Nth(Kept(lines), n) \in Kept(lines)
              /\ NonBlank(lines)[n] = lines[Nth(Kept(lines), n)]
         /\ \A n, m \in 1..Cardinality(Kept(lines)) :
              n < m => Nth(Kept(lines), n) < Nth(Kept(lines), m)
         /\ \A i \in Kept(lines) :
              \E n \in 1..Cardinality(Kept(lines)) : Nth(Kept(lines), n) = i
<1> DEFINE kept == Kept(lines)
           count == Cardinality(kept)
<1>1. kept \in SUBSET (1..Len(lines)) /\ kept \in SUBSET Nat /\ IsFiniteSet(kept) /\ count \in Nat
  BY KeptType
<1>2. NonBlank(lines) = [n \in 1..count |-> lines[Nth(kept, n)]]
  BY DEF NonBlank, Kept
<1> HIDE DEF kept
<1>3. \A n \in 1..count : Nth(kept, n) \in kept /\ Cardinality(Upto(kept, Nth(kept, n))) = n
  BY <1>1, NthEnumerates
<1>4. \A n \in 1..count : lines[Nth(kept, n)] \in S
  BY <1>1, <1>3, ElementOfSeq
<1>5. NonBlank(lines) \in [1..count -> S]
  BY <1>2, <1>4
<1>6. NonBlank(lines) \in Seq(S)
  BY <1>1, <1>5, SeqDef
<1>7. Len(NonBlank(lines)) = count
  <2>1. Len(NonBlank(lines)) \in Nat /\ DOMAIN NonBlank(lines) = 1..Len(NonBlank(lines))
    BY <1>6, LenProperties
  <2>2. DOMAIN NonBlank(lines) = 1..count
    BY <1>2
  <2> QED
    BY <1>1, <2>1, <2>2
<1>8. ASSUME NEW n \in 1..count, NEW m \in 1..count, n < m
      PROVE  Nth(kept, n) < Nth(kept, m)
  <2>1. Nth(kept, n) \in kept /\ Nth(kept, m) \in kept
    BY <1>3
  <2>2. Nth(kept, n) \in Nat /\ Nth(kept, m) \in Nat
    BY <1>1, <2>1
  <2>3. Nth(kept, n) # Nth(kept, m)
    BY <1>3, <1>8
  <2>4. ~(Nth(kept, m) < Nth(kept, n))
    <3>1. SUFFICES ASSUME Nth(kept, m) < Nth(kept, n) PROVE FALSE
      OBVIOUS
    <3>2. Cardinality(Upto(kept, Nth(kept, m))) < Cardinality(Upto(kept, Nth(kept, n)))
      BY <1>1, <2>1, <3>1, RankType
    <3> QED
      BY <1>3, <1>8, <3>2
  <2> QED
    BY <2>2, <2>3, <2>4
<1>9. ASSUME NEW i \in kept PROVE \E n \in 1..count : Nth(kept, n) = i
  BY <1>1, RankType, NthEnumerates
<1> QED
  BY <1>2, <1>3, <1>6, <1>7, <1>8, <1>9 DEF kept

-----------------------------------------------------------------------------
(* Searching a text. *)

LEMMA FirstLine ==
  ASSUME NEW S, NEW lines \in Seq(S), NEW x
  PROVE  /\ Find(lines, x) \in 0..Len(lines)
         /\ \A a \in 1..Len(lines) :
              lines[a] = x /\ (\A j \in 1..(a - 1) : lines[j] # x) => Find(lines, x) = a
<1> DEFINE found == {i \in 1..Len(lines) : lines[i] = x}
           at == Find(lines, x)
<1>1. at = IF found # {} THEN Min(found) ELSE 0
  BY DEF Find, SelectInSeq
<1>2. Len(lines) \in Nat
  BY LenProperties
<1>3. found \in SUBSET Nat
  OBVIOUS
<1>4. found # {} => Min(found) \in found /\ \A n \in found : Min(found) <= n
  BY <1>3, MinIsLeast
<1> HIDE DEF at
<1>5. at \in 0..Len(lines)
  BY <1>1, <1>2, <1>4
<1>6. ASSUME NEW a \in 1..Len(lines), lines[a] = x, \A j \in 1..(a - 1) : lines[j] # x
      PROVE  at = a
  <2>1. a \in found /\ found # {}
    BY <1>6
  <2>2. at \in found /\ at <= a
    BY <1>1, <1>4, <2>1
  <2>3. at \in 1..Len(lines) /\ lines[at] = x
    BY <2>2
  <2>4. at \notin 1..(a - 1)
    BY <1>6, <2>3
  <2> QED
    BY <1>2, <2>2, <2>3, <2>4
<1> QED
  BY <1>5, <1>6 DEF at

LEMMA BetweenType ==
  ASSUME NEW S, NEW lines \in Seq(S), NEW label, Between(lines, label).ok
  PROVE  Between(lines, label).val \in Seq(S)
<1>1. PICK start, finish : start = Find(lines, BeginLine(label))
                            /\ finish = Find(lines, EndLine(label))
  OBVIOUS
<1>2. start \in 0..Len(lines) /\ finish \in 0..Len(lines) /\ Len(lines) \in Nat
  BY <1>1, FirstLine, LenProperties
<1>3. PICK body : body = NonBlank(SubSeq(lines, start + 1, finish - 1))
  OBVIOUS
<1>4. Between(lines, label) =
        IF start = 0 THEN Err("Missing PEM header")
        ELSE IF finish = 0 THEN Err("Missing PEM footer")
        ELSE IF finish < start THEN Panic
        ELSE Ok(body)
  BY <1>1, <1>3, Zenon DEF Between
<1>5. Between(lines, label).val = body
  <2>1. \A e : Err(e).ok = FALSE
    BY DEF Err
  <2>2. Ok(body).val = body
    BY DEF Ok
  <2> QED
    BY <1>4, <2>1, <2>2, Zenon DEF Panic
<1>6. SubSeq(lines, start + 1, finish - 1) \in Seq(S)
  <2>1. \A i \in (start + 1)..(finish - 1) : lines[i] \in S
    BY <1>2, ElementOfSeq
  <2> QED
    BY <1>2, <2>1, SubSeqProperties
<1> QED
  BY <1>3, <1>5, <1>6, NonBlankProperties

-----------------------------------------------------------------------------
(* What is decoded. *)

\* No two of the six kinds of public keys have the same length.
LEMMA KeyLengths ==
  ASSUME NEW algo \in Algo, NEW level \in SecurityLevel
  PROVE  /\ SizeOf(algo, level).public_key \in Nat \ {0}
         /\ \A algo2 \in Algo, level2 \in SecurityLevel :
              SizeOf(algo2, level2).public_key = SizeOf(algo, level).public_key
                => algo2 = algo /\ level2 = level
<1>1. algo \in {"kem", "dsa"} /\ level \in {"Level1", "Level3", "Level5"}
  BY DEF Algo, SecurityLevel
<1>2. \A a \in Algo, l \in SecurityLevel :
        SizeOf(a, l).public_key =
          IF a = "kem" THEN (IF l = "Level1" THEN 800 ELSE IF l = "Level3" THEN 1184 ELSE 1568)
          ELSE IF l = "Level1" THEN 1312 ELSE IF l = "Level3" THEN 1952 ELSE 2592
  BY DEF Algo, SecurityLevel, SizeOf, KemSizes, DsaSizes
<1> QED
  BY <1>1, <1>2 DEF Algo, SecurityLevel

\* The lines of a key hold it, and without the last they do not.
LEMMA LineCounts ==
  ASSUME NEW k \in Keys
  PROVE  /\ KeyLen(k) \in Nat \ {0} /\ LineCount(k) \in Nat \ {0}
         /\ (LineCount(k) - 1) * LINE_BYTES < KeyLen(k)
         /\ KeyLen(k) <= LineCount(k) * LINE_BYTES
<1>1. PICK size \in Nat \ {0} : size = KeyLen(k)
  BY KeyLengths, PemTextAssumption DEF KeyLen
<1>2. PICK full \in Nat \ {0} : full = LINE_BYTES
  BY PemTextAssumption
<1>3. PICK x \in Nat : x = size + full - 1
  OBVIOUS
<1>4. PICK n \in Int : n = x \div full
  OBVIOUS
<1>5. x = full * n + (x % full) /\ x % full \in 0..(full - 1)
  BY <1>4
<1>6. n \in Nat \ {0} /\ (n - 1) * full < size /\ size <= n * full
  BY <1>3, <1>4, <1>5
<1>7. LineCount(k) = n
  BY <1>1, <1>2, <1>3, <1>4 DEF LineCount
<1> QED
  BY <1>1, <1>2, <1>6, <1>7

\* No line holds more than a full one.
LEMMA LineLengths ==
  ASSUME NEW k \in Keys, NEW line, line.key = k, line.line \in 1..LineCount(k)
  PROVE  LineLen(line) \in Nat /\ LineLen(line) <= LINE_BYTES
<1>1. PICK full \in Nat \ {0} : full = LINE_BYTES
  BY PemTextAssumption
<1>2. PICK size \in Nat, n \in Nat \ {0} : size = KeyLen(k) /\ n = LineCount(k)
  BY LineCounts
<1>3. (n - 1) * full < size /\ size <= n * full
  BY <1>1, <1>2, LineCounts
<1>4. n * full = (n - 1) * full + full /\ (n - 1) * full \in Nat
  OBVIOUS
<1>5. LineLen(line) = IF line.line < n THEN full ELSE size - (n - 1) * full
  BY <1>1, <1>2 DEF LineLen
<1> QED
  BY <1>1, <1>3, <1>4, <1>5

\* BodyLen is the sum its definition says: there is such a function, since no n is the first
\* up to which there is none.
Sums(lines, n, sum) ==
  /\ sum \in [0..n -> Nat] /\ sum[0] = 0
  /\ \A i \in 1..n : sum[i] = sum[i - 1] + LineLen(lines[i])

LEMMA SumsExist ==
  ASSUME NEW lines, NEW n \in Nat, \A i \in 1..n : LineLen(lines[i]) \in Nat
  PROVE  \E sum : Sums(lines, n, sum)
<1> DEFINE bad == {m \in 0..n : ~\E sum : Sums(lines, m, sum)}
<1>1. SUFFICES ASSUME bad # {} PROVE FALSE
  OBVIOUS
<1>2. bad \in SUBSET Nat
  OBVIOUS
<1>3. PICK m \in bad : \A x \in bad : m <= x
  BY <1>1, <1>2, MinIsLeast
<1>4. m \in 0..n /\ ~\E sum : Sums(lines, m, sum)
  OBVIOUS
<1>5. m # 0
  <2>1. Sums(lines, 0, [x \in 0..0 |-> 0])
    BY DEF Sums
  <2> QED
    BY <1>4, <2>1
<1>6. m - 1 \in 0..n /\ m - 1 \notin bad
  BY <1>3, <1>4, <1>5
<1>7. PICK sum : Sums(lines, m - 1, sum)
  BY <1>6
<1>8. PICK g : g = [x \in 0..m |-> IF x = m THEN sum[m - 1] + LineLen(lines[m]) ELSE sum[x]]
  OBVIOUS
<1>9. /\ sum \in [0..(m - 1) -> Nat] /\ sum[0] = 0
      /\ \A i \in 1..(m - 1) : sum[i] = sum[i - 1] + LineLen(lines[i])
  BY <1>7 DEF Sums
<1>10. m \in 1..n /\ LineLen(lines[m]) \in Nat /\ sum[m - 1] \in Nat
  BY <1>4, <1>5, <1>9
<1>11. g \in [0..m -> Nat] /\ g[0] = 0
  <2>1. \A x \in 0..m : x = m \/ x \in 0..(m - 1)
    BY <1>10
  <2>2. 0 # m /\ 0 \in 0..m
    BY <1>10
  <2> QED
    BY <1>8, <1>9, <1>10, <2>1, <2>2
<1>12. ASSUME NEW i \in 1..m PROVE g[i] = g[i - 1] + LineLen(lines[i])
  <2>1. i \in 0..m /\ i - 1 \in 0..m /\ i - 1 # m
    BY <1>10
  <2>2. g[i - 1] = sum[i - 1]
    BY <1>8, <2>1
  <2>3. CASE i = m
    BY <1>8, <2>1, <2>2, <2>3
  <2>4. CASE i # m
    <3>1. i \in 1..(m - 1)
      BY <1>10, <2>4
    <3> QED
      BY <1>8, <1>9, <2>1, <2>2, <2>4, <3>1
  <2> QED
    BY <2>3, <2>4
<1>13. Sums(lines, m, g)
  BY <1>11, <1>12 DEF Sums
<1> QED
  BY <1>4, <1>13

LEMMA BodyLenIsSum ==
  ASSUME NEW lines, Len(lines) \in Nat, \A i \in 1..Len(lines) : LineLen(lines[i]) \in Nat
  PROVE  \E sum : Sums(lines, Len(lines), sum) /\ BodyLen(lines) = sum[Len(lines)]
<1>1. PICK n \in Nat : n = Len(lines)
  OBVIOUS
<1> DEFINE step(f) == [i \in 0..n |-> IF i = 0 THEN 0 ELSE f[i - 1] + LineLen(lines[i])]
<1>2. PICK sum : Sums(lines, n, sum)
  BY <1>1, SumsExist
<1>3. sum = step(sum)
  <2>1. sum \in [0..n -> Nat] /\ sum[0] = 0
    BY <1>2 DEF Sums
  <2>2. \A i \in 0..n : i # 0 => i \in 1..n
    OBVIOUS
  <2>3. \A i \in 0..n : sum[i] = IF i = 0 THEN 0 ELSE sum[i - 1] + LineLen(lines[i])
    BY <1>2, <2>1, <2>2 DEF Sums
  <2> QED
    BY <2>1, <2>3
<1>4. PICK f : f = CHOOSE g : g = step(g)
  OBVIOUS
<1>5. f = step(f)
  BY <1>3, <1>4
<1>6. BodyLen(lines) = f[n]
  BY <1>1, <1>4 DEF BodyLen
<1> HIDE DEF step
<1>7. \A x \in 0..n : f[x] = sum[x]
  <2> DEFINE bad == {m \in 0..n : f[m] # sum[m]}
  <2>1. SUFFICES ASSUME bad # {} PROVE FALSE
    OBVIOUS
  <2>2. bad \in SUBSET Nat
    OBVIOUS
  <2>3. PICK m \in bad : \A x \in bad : m <= x
    BY <2>1, <2>2, MinIsLeast
  <2>4. f[m] = IF m = 0 THEN 0 ELSE f[m - 1] + LineLen(lines[m])
    BY <1>5, <2>3 DEF step
  <2>5. sum[m] = IF m = 0 THEN 0 ELSE sum[m - 1] + LineLen(lines[m])
    BY <1>3, <2>3 DEF step
  <2>6. m # 0
    BY <2>3, <2>4, <2>5
  <2>7. m - 1 \in 0..n /\ m - 1 \notin bad
    BY <2>3, <2>6
  <2> QED
    BY <2>3, <2>4, <2>5, <2>6, <2>7
<1> QED
  BY <1>1, <1>2, <1>6, <1>7

\* A body of n lines holds at most n full lines.
LEMMA BodyLenBound ==
  ASSUME NEW lines, Len(lines) \in Nat,
         \A i \in 1..Len(lines) : LineLen(lines[i]) \in Nat /\ LineLen(lines[i]) <= LINE_BYTES
  PROVE  BodyLen(lines) \in Nat /\ BodyLen(lines) <= Len(lines) * LINE_BYTES
<1>1. PICK n \in Nat, full \in Nat : n = Len(lines) /\ full = LINE_BYTES
  BY PemTextAssumption
<1>2. PICK sum : Sums(lines, n, sum) /\ BodyLen(lines) = sum[n]
  BY <1>1, BodyLenIsSum
<1>3. sum \in [0..n -> Nat] /\ sum[0] = 0
  BY <1>2 DEF Sums
<1>4. \A m \in 0..n : sum[m] <= m * full
  <2> DEFINE bad == {m \in 0..n : ~(sum[m] <= m * full)}
  <2>1. SUFFICES ASSUME bad # {} PROVE FALSE
    OBVIOUS
  <2>2. bad \in SUBSET Nat
    OBVIOUS
  <2>3. PICK m \in bad : \A x \in bad : m <= x
    BY <2>1, <2>2, MinIsLeast
  <2>4. m \in 0..n /\ ~(sum[m] <= m * full)
    OBVIOUS
  <2>5. m # 0
    BY <1>3, <2>4
  <2>6. m \in 1..n /\ m - 1 \in 0..n /\ m - 1 \notin bad
    BY <2>3, <2>4, <2>5
  <2>7. sum[m - 1] <= (m - 1) * full
    BY <2>6
  <2>8. PICK len \in Nat : len = LineLen(lines[m]) /\ len <= full
    BY <1>1, <2>6
  <2>9. sum[m] = sum[m - 1] + len
    BY <1>2, <2>6, <2>8 DEF Sums
  <2>10. PICK before \in Nat : before = sum[m - 1]
    BY <1>3, <2>6
  <2>11. before + len <= (m - 1) * full + full /\ (m - 1) * full + full = m * full
    BY <2>6, <2>7, <2>8, <2>10
  <2> QED
    BY <2>4, <2>9, <2>10, <2>11
<1>5. n \in 0..n /\ sum[n] \in Nat
  BY <1>3
<1> QED
  BY <1>1, <1>2, <1>4, <1>5

\* Line numbers that increase do so by at least one a line.
LEMMA RisingSteps ==
  ASSUME NEW n \in Nat, NEW f \in [1..n -> Nat], \A a, b \in 1..n : a < b => f[a] < f[b],
         NEW i \in 1..n, NEW j \in 1..n, i <= j
  PROVE  f[i] + (j - i) <= f[j]
<1> DEFINE bad == {m \in i..n : ~(f[i] + (m - i) <= f[m])}
<1>1. SUFFICES ASSUME bad # {} PROVE FALSE
  <2>1. j \in i..n
    OBVIOUS
  <2> QED
    BY <2>1
<1>2. bad \in SUBSET Nat
  OBVIOUS
<1>3. PICK m \in bad : \A x \in bad : m <= x
  BY <1>1, <1>2, MinIsLeast
<1>4. m \in i..n /\ ~(f[i] + (m - i) <= f[m])
  OBVIOUS
<1>5. m # i
  BY <1>4
<1>6. m - 1 \in i..n /\ m - 1 \notin bad /\ m \in 1..n /\ m - 1 \in 1..n /\ m - 1 < m
  BY <1>3, <1>4, <1>5
<1>7. f[i] + (m - 1 - i) <= f[m - 1] /\ f[m - 1] < f[m]
  BY <1>6
<1>8. f[i] \in Nat /\ f[m - 1] \in Nat /\ f[m] \in Nat
  BY <1>6
<1> QED
  BY <1>4, <1>6, <1>7, <1>8

LEMMA HeaderIsLevel ==
  ASSUME NEW level \in SecurityLevel
  PROVE  /\ HeaderLine(level) = TextLine({level})
         /\ parse_level_from_header(HeaderLine(level)) = Ok(level)
<1>1. level_name(level) = level
  BY DEF SecurityLevel, level_name
<1>2. HeaderLine(level) = TextLine({level})
  BY <1>1 DEF HeaderLine
<1>3. PICK line : line = TextLine({level})
  OBVIOUS
<1>4. line.kind = "text" /\ line.levels = {level}
  BY <1>3 DEF TextLine
<1>5. parse_level_from_header(line) = Ok(level)
  BY <1>4 DEF parse_level_from_header, SecurityLevel
<1> QED
  BY <1>2, <1>3, <1>5

LEMMA ParsedLevel ==
  ASSUME NEW line, parse_level_from_header(line).ok
  PROVE  parse_level_from_header(line).val \in SecurityLevel
<1>1. \A e : Err(e).ok = FALSE
  BY DEF Err
<1>2. \/ parse_level_from_header(line) = Ok("Level1")
      \/ parse_level_from_header(line) = Ok("Level3")
      \/ parse_level_from_header(line) = Ok("Level5")
  BY <1>1, Zenon DEF parse_level_from_header
<1> QED
  BY <1>2 DEF Ok, SecurityLevel

LEMMA ValidatedKey ==
  ASSUME NEW algo \in Algo, NEW level, NEW bytes, from_validated(algo, level, bytes).ok
  PROVE  /\ from_validated(algo, level, bytes).val
              = [algo |-> algo, level |-> level, bytes |-> bytes]
         /\ bytes.len = SizeOf(algo, level).public_key
BY DEF from_validated, kem_from_validated, dsa_from_validated, Ok, Err, SizeOf, Algo

\* What a key comes from: a body whose first line is a level and whose others are base64.
LEMMA DecodedText ==
  ASSUME NEW lines, NEW algo \in Algo, public_key_from_text(algo, lines).ok
  PROVE  LET body == Between(lines, algo)
             pub  == public_key_from_text(algo, lines).val
         IN  /\ body.ok /\ body.val # <<>>
             /\ parse_level_from_header(Head(body.val)).ok
             /\ pub.level = parse_level_from_header(Head(body.val)).val
             /\ pub.level \in SecurityLevel
             /\ pub.bytes = BodyBytes(Tail(body.val))
             /\ pub = [algo |-> algo, level |-> pub.level, bytes |-> pub.bytes]
             /\ pub.bytes.len = SizeOf(algo, pub.level).public_key
<1> DEFINE decoded == decode_pem(lines, algo)
<1>1. PICK body : body = Between(lines, algo)
  OBVIOUS
<1>2. PICK level : level = parse_level_from_header(Head(body.val))
  OBVIOUS
<1>3. decoded =
        IF ~body.ok THEN body
        ELSE IF body.val = <<>> THEN Err("Empty PEM body")
        ELSE IF ~level.ok THEN level
        ELSE IF ~IsBase64(Tail(body.val)) THEN Err("Invalid base64 in PEM body")
        ELSE Ok([level |-> level.val, bytes |-> BodyBytes(Tail(body.val))])
  BY <1>1, <1>2, Zenon DEF decode_pem
<1>4. public_key_from_text(algo, lines) =
        IF decoded.ok THEN from_validated(algo, decoded.val.level, decoded.val.bytes)
                      ELSE decoded
  BY Zenon DEF public_key_from_text
<1> HIDE DEF decoded
<1>5. decoded.ok
  BY <1>4
<1>6. /\ body.ok /\ body.val # <<>> /\ level.ok
      /\ decoded = Ok([level |-> level.val, bytes |-> BodyBytes(Tail(body.val))])
  BY <1>3, <1>5 DEF Err
<1>7. decoded.val.level = level.val /\ decoded.val.bytes = BodyBytes(Tail(body.val))
  BY <1>6 DEF Ok
<1>8. from_validated(algo, level.val, BodyBytes(Tail(body.val)))
        = public_key_from_text(algo, lines)
  BY <1>4, <1>5, <1>7
<1>9. /\ public_key_from_text(algo, lines).val =
           [algo |-> algo, level |-> level.val, bytes |-> BodyBytes(Tail(body.val))]
      /\ BodyBytes(Tail(body.val)).len = SizeOf(algo, level.val).public_key
  BY <1>8, ValidatedKey
<1>10. level.val \in SecurityLevel
  BY <1>2, <1>6, ParsedLevel
<1> QED
  BY <1>1, <1>2, <1>6, <1>9, <1>10

\* A line of a body that belongs to k.
LEMMA BodyLineOf ==
  ASSUME NEW line \in LineType, line.kind = "body"
  PROVE  line = BodyLine(line.key, line.line)
<1>1. line \in [kind : {"body"}, key : Keys, line : Nat \ {0}]
  BY DEF LineType, BlankLine
<1> QED
  BY <1>1 DEF BodyLine

\* What is left of the body of k is all of it, or shorter than k.
LEMMA LossLengths ==
  ASSUME NEW lines \in Seq(LineType), NEW k \in Keys, IsLossOf(lines, k)
  PROVE  /\ Len(lines) = LineCount(k) => BodyBytes(lines) = PkBytes(k)
         /\ Len(lines) # LineCount(k) => BodyBytes(lines).len < KeyLen(k)
<1>1. PICK count \in Nat \ {0}, full \in Nat \ {0} : count = LineCount(k) /\ full = LINE_BYTES
  BY LineCounts, PemTextAssumption
<1>2. PICK n \in Nat : /\ n = Len(lines) /\ DOMAIN lines = 1..n
                       /\ lines \in [1..n -> LineType]
  BY LenProperties
<1>3. \A i \in 1..n : /\ lines[i].kind = "body" /\ lines[i].key = k
                      /\ lines[i].line \in 1..count
  BY <1>1, <1>2 DEF IsLossOf
<1>4. PICK f : f = [i \in 1..n |-> lines[i].line]
  OBVIOUS
<1>5. /\ f \in [1..n -> Nat] /\ \A a, b \in 1..n : a < b => f[a] < f[b]
      /\ \A i \in 1..n : f[i] \in 1..count
  <2>1. \A i \in 1..n : f[i] = lines[i].line /\ f[i] \in 1..count
    BY <1>3, <1>4
  <2>2. f \in [1..n -> 1..count] /\ 1..count \in SUBSET Nat
    BY <1>4, <2>1
  <2> QED
    BY <1>2, <2>1, <2>2 DEF IsLossOf
<1>6. n <= count
  <2>1. SUFFICES ASSUME n > count PROVE FALSE
    BY <1>1
  <2>2. 1 \in 1..n /\ n \in 1..n /\ 1 <= n
    BY <1>1, <2>1
  <2>3. f[1] + (n - 1) <= f[n]
    BY <1>5, <2>2, RisingSteps
  <2>4. f[1] \in 1..count /\ f[n] \in 1..count
    BY <1>5, <2>2
  <2> QED
    BY <2>1, <2>3, <2>4
<1>7. ASSUME n = count PROVE BodyBytes(lines) = PkBytes(k)
  <2>1. ASSUME NEW i \in 1..n PROVE f[i] = i
    <3>1. 1 \in 1..n /\ n \in 1..n /\ 1 <= i /\ i <= n
      BY <1>1, <1>7
    <3>2. f[1] + (i - 1) <= f[i] /\ f[i] + (n - i) <= f[n]
      BY <1>5, <3>1, RisingSteps
    <3>3. f[1] \in 1..count /\ f[n] \in 1..count /\ f[i] \in 1..count
      BY <1>5, <3>1
    <3> QED
      BY <1>7, <3>2, <3>3
  <2>2. ASSUME NEW i \in 1..n PROVE lines[i] = BodyLine(k, i)
    <3>1. lines[i] = BodyLine(lines[i].key, lines[i].line)
      BY <1>2, <1>3, BodyLineOf
    <3> QED
      BY <1>3, <1>4, <2>1, <3>1
  <2>3. lines = BodyOf(k)
    <3>1. lines = [i \in 1..n |-> BodyLine(k, i)]
      BY <1>2, <2>2
    <3> QED
      BY <1>1, <1>7, <3>1 DEF BodyOf
  <2>4. lines # <<>> /\ lines[1].key = k
    <3>1. 1 \in 1..n /\ DOMAIN <<>> = {}
      BY <1>1, <1>7
    <3>2. 1 \in DOMAIN lines
      BY <1>2, <3>1
    <3>3. lines # <<>>
      BY <3>1, <3>2
    <3> QED
      BY <1>3, <3>1, <3>3
  <2> QED
    BY <2>3, <2>4, Zenon DEF BodyBytes
<1>8. ASSUME n # count PROVE BodyBytes(lines).len < KeyLen(k)
  <2>1. PICK size \in Nat : size = KeyLen(k)
    BY LineCounts
  <2>2. (count - 1) * full < size
    BY <1>1, <2>1, LineCounts
  <2>3. \A i \in 1..n : LineLen(lines[i]) \in Nat /\ LineLen(lines[i]) <= LINE_BYTES
    BY <1>1, <1>3, LineLengths
  <2>4. BodyLen(lines) \in Nat /\ BodyLen(lines) <= n * full
    BY <1>1, <1>2, <2>3, BodyLenBound
  <2>5. n * full <= (count - 1) * full
    <3>1. PICK a \in Nat, b \in Nat : a = n /\ b = count - 1 /\ a <= b
      BY <1>6, <1>8
    <3>2. a * full <= b * full
      BY <3>1
    <3> QED
      BY <3>1, <3>2
  <2>6. BodyLen(lines) < size
    <3>1. n * full \in Nat /\ (count - 1) * full \in Nat
      OBVIOUS
    <3> QED
      BY <2>2, <2>4, <2>5, <3>1
  <2>7. ~(lines # <<>> /\ lines = BodyOf(lines[1].key))
    <3>1. SUFFICES ASSUME lines # <<>>, lines = BodyOf(lines[1].key) PROVE FALSE
      OBVIOUS
    <3>2. n # 0
      BY <1>2, <3>1, EmptySeq
    <3>3. 1 \in 1..n
      BY <3>2
    <3>4. lines = BodyOf(k)
      BY <1>3, <3>1, <3>3
    <3>5. DOMAIN lines = 1..count
      BY <1>1, <3>4 DEF BodyOf
    <3>6. n \in 1..n /\ count \in 1..count
      BY <3>2
    <3>7. 1..n = 1..count
      BY <1>2, <3>5
    <3>8. n \in 1..count /\ count \in 1..n
      BY <3>6, <3>7
    <3> QED
      BY <1>8, <3>8
  <2>8. BodyBytes(lines) = [tag |-> "junk", lines |-> lines, len |-> BodyLen(lines)]
    BY <2>7, Zenon DEF BodyBytes
  <2> QED
    BY <2>1, <2>6, <2>8
<1> QED
  BY <1>1, <1>2, <1>7, <1>8

LEMMA EveryLossIsDetected ==
  ASSUME text \in Seq(LineType)
  PROVE  LossIsDetected
<1>1. SUFFICES
        ASSUME NEW k \in Keys, NEW algo \in Algo,
               Between(text, algo).ok, public_key_from_text(algo, text).ok,
               IsLossOf(Tail(Between(text, algo).val), k),
               \/ Len(Tail(Between(text, algo).val)) = LineCount(k)
               \/ /\ algo = k.algo
                  /\ parse_level_from_header(Head(Between(text, algo).val)) = Ok(k.level)
        PROVE  public_key_from_text(algo, text).val
                 = [algo |-> k.algo, level |-> k.level, bytes |-> PkBytes(k)]
  BY Zenon DEF LossIsDetected
<1>2. PICK body : body = Between(text, algo).val
  OBVIOUS
<1>3. PICK lines : lines = Tail(body)
  OBVIOUS
<1>4. PICK pub : pub = public_key_from_text(algo, text).val
  OBVIOUS
<1>5. /\ body # <<>> /\ pub.level = parse_level_from_header(Head(body)).val
      /\ pub.level \in SecurityLevel /\ pub.bytes = BodyBytes(lines)
      /\ pub = [algo |-> algo, level |-> pub.level, bytes |-> pub.bytes]
      /\ pub.bytes.len = SizeOf(algo, pub.level).public_key
  BY <1>1, <1>2, <1>3, <1>4, DecodedText
<1>6. body \in Seq(LineType) /\ lines \in Seq(LineType)
  BY <1>1, <1>2, <1>3, <1>5, BetweenType, HeadTailProperties
<1>7. /\ Len(lines) = LineCount(k) => BodyBytes(lines) = PkBytes(k)
      /\ Len(lines) # LineCount(k) => BodyBytes(lines).len < KeyLen(k)
  BY <1>1, <1>2, <1>3, <1>6, LossLengths
<1>8. k.algo \in Algo /\ k.level \in SecurityLevel
  BY PemTextAssumption
<1>9. CASE Len(lines) = LineCount(k)
  <2>1. pub.bytes = PkBytes(k) /\ PkBytes(k).len = SizeOf(k.algo, k.level).public_key
    BY <1>5, <1>7, <1>9 DEF PkBytes
  <2>2. algo = k.algo /\ pub.level = k.level
    BY <1>5, <1>8, <2>1, KeyLengths
  <2> QED
    BY <1>4, <1>5, <2>1, <2>2
<1>10. CASE Len(lines) # LineCount(k)
  <2>1. algo = k.algo /\ parse_level_from_header(Head(body)) = Ok(k.level)
    BY <1>1, <1>2, <1>3, <1>10
  <2>2. pub.level = k.level
    BY <1>5, <2>1 DEF Ok
  <2>3. pub.bytes.len = KeyLen(k) /\ pub.bytes.len < KeyLen(k) /\ KeyLen(k) \in Nat
    BY <1>5, <1>7, <1>10, <2>1, <2>2, LineCounts DEF KeyLen
  <2> QED
    BY <2>3
<1> QED
  BY <1>9, <1>10

-----------------------------------------------------------------------------
(* A whole document is found wherever it is. *)

DocumentLines(k) == <<HeaderLine(k.level)>> \o BodyOf(k)

Width(k) == LineCount(k) + 1

LEMMA BodyOfLines ==
  ASSUME NEW k \in Keys
  PROVE  /\ BodyOf(k) \in Seq(LineType) /\ Len(BodyOf(k)) = LineCount(k)
         /\ \A n \in 1..LineCount(k) : BodyOf(k)[n] = BodyLine(k, n)
<1>1. PICK count \in Nat \ {0} : count = LineCount(k)
  BY LineCounts
<1>2. BodyOf(k) = [n \in 1..count |-> BodyLine(k, n)]
  BY <1>1 DEF BodyOf
<1>3. \A n \in 1..count : BodyLine(k, n) \in LineType
  BY <1>1 DEF BodyLine, LineType
<1>4. BodyOf(k) \in [1..count -> LineType]
  BY <1>2, <1>3
<1>5. BodyOf(k) \in Seq(LineType)
  BY <1>1, <1>4, SeqDef
<1>6. Len(BodyOf(k)) = count
  BY <1>1, <1>2, <1>5, LenProperties
<1> QED
  BY <1>1, <1>2, <1>5, <1>6

LEMMA LabelLines ==
  ASSUME NEW k \in Keys
  PROVE  /\ BeginLine(k.algo) \in LineType /\ EndLine(k.algo) \in LineType
         /\ HeaderLine(k.level) \in LineType
<1>1. k.algo \in Algo /\ k.level \in SecurityLevel
  BY PemTextAssumption
<1>2. HeaderLine(k.level) = TextLine({k.level})
  BY <1>1, HeaderIsLevel
<1> QED
  BY <1>1, <1>2 DEF BeginLine, EndLine, TextLine, LineType

LEMMA DocumentOf ==
  ASSUME NEW k \in Keys
  PROVE  /\ Width(k) \in Nat \ {0}
         /\ DocumentLines(k) \in Seq(LineType) /\ Len(DocumentLines(k)) = Width(k)
         /\ DocumentLines(k)[1] = HeaderLine(k.level)
         /\ \A n \in 1..LineCount(k) : DocumentLines(k)[n + 1] = BodyLine(k, n)
<1>1. PICK count \in Nat \ {0} : count = LineCount(k)
  BY LineCounts
<1>2. PICK body : body = BodyOf(k)
  OBVIOUS
<1>3. /\ body \in Seq(LineType) /\ Len(body) = count
      /\ \A n \in 1..count : body[n] = BodyLine(k, n)
  BY <1>1, <1>2, BodyOfLines
<1>4. PICK header : header = HeaderLine(k.level)
  OBVIOUS
<1>5. <<header>> \in Seq(LineType) /\ Len(<<header>>) = 1 /\ <<header>>[1] = header
  BY <1>4, LabelLines
<1>6. PICK doc : doc = <<header>> \o body
  OBVIOUS
<1>7. /\ doc \in Seq(LineType) /\ Len(doc) = 1 + count
      /\ \A i \in 1..(1 + count) :
           doc[i] = IF i <= 1 THEN <<header>>[i] ELSE body[i - 1]
  BY <1>3, <1>5, <1>6, ConcatProperties
<1>8. doc[1] = header
  <2>1. 1 \in 1..(1 + count)
    OBVIOUS
  <2> QED
    BY <1>5, <1>7, <2>1
<1>9. ASSUME NEW n \in 1..count PROVE doc[n + 1] = BodyLine(k, n)
  <2>1. n + 1 \in 1..(1 + count) /\ ~(n + 1 <= 1) /\ (n + 1) - 1 = n
    OBVIOUS
  <2> QED
    BY <1>3, <1>7, <2>1
<1>10. DocumentLines(k) = doc /\ Width(k) = 1 + count
  BY <1>1, <1>2, <1>4, <1>6 DEF DocumentLines, Width
<1> QED
  BY <1>1, <1>4, <1>7, <1>8, <1>9, <1>10

LEMMA Joined ==
  ASSUME NEW s \in Seq(LineType), NEW t \in Seq(LineType), NEW m \in Nat, m = Len(s)
  PROVE  /\ s \o t \in Seq(LineType) /\ Len(s \o t) = m + Len(t)
         /\ \A i \in 1..m : (s \o t)[i] = s[i]
         /\ \A i \in 1..Len(t) : (s \o t)[m + i] = t[i]
<1>1. PICK n \in Nat : n = Len(t)
  BY LenProperties
<1>2. PICK r : r = s \o t
  OBVIOUS
<1>3. /\ r \in Seq(LineType) /\ Len(r) = m + n
      /\ \A i \in 1..(m + n) : r[i] = IF i <= m THEN s[i] ELSE t[i - m]
  BY <1>1, <1>2, ConcatProperties
<1>4. ASSUME NEW i \in 1..m PROVE r[i] = s[i]
  <2>1. i \in 1..(m + n) /\ i <= m
    OBVIOUS
  <2> QED
    BY <1>3, <2>1
<1>5. ASSUME NEW i \in 1..n PROVE r[m + i] = t[i]
  <2>1. m + i \in 1..(m + n) /\ ~(m + i <= m) /\ (m + i) - m = i
    OBVIOUS
  <2> QED
    BY <1>3, <2>1
<1> QED
  BY <1>1, <1>2, <1>3, <1>4, <1>5

LEMMA EncodedDocument ==
  ASSUME NEW k \in Keys
  PROVE  LET doc == public_key_to_text(k)
         IN  /\ doc \in Seq(LineType) /\ Len(doc) = Width(k) + 2
             /\ doc[1] = BeginLine(k.algo) /\ doc[Width(k) + 2] = EndLine(k.algo)
             /\ \A n \in 1..Width(k) : doc[n + 1] = DocumentLines(k)[n]
<1>1. PICK w \in Nat \ {0} : w = Width(k)
  BY DocumentOf
<1>2. PICK count \in Nat \ {0} : count = LineCount(k) /\ w = count + 1
  BY <1>1, LineCounts DEF Width
<1>3. PICK header, begin, end :
        header = HeaderLine(k.level) /\ begin = BeginLine(k.algo) /\ end = EndLine(k.algo)
  OBVIOUS
<1>4. header \in LineType /\ begin \in LineType /\ end \in LineType
  BY <1>3, LabelLines
<1>5. PICK body : body = BodyOf(k)
  OBVIOUS
<1>6. /\ body \in Seq(LineType) /\ Len(body) = count
      /\ \A n \in 1..count : body[n] = BodyLine(k, n)
  BY <1>2, <1>5, BodyOfLines
<1>7. PICK first, last : first = <<begin, header>> /\ last = <<end>>
  OBVIOUS
<1>8. /\ first \in Seq(LineType) /\ Len(first) = 2 /\ first[1] = begin /\ first[2] = header
      /\ last \in Seq(LineType) /\ Len(last) = 1 /\ last[1] = end
  BY <1>4, <1>7
<1>9. PICK front : front = first \o body
  OBVIOUS
<1>10. /\ front \in Seq(LineType) /\ Len(front) = 2 + count
       /\ \A i \in 1..2 : front[i] = first[i]
       /\ \A i \in 1..count : front[2 + i] = body[i]
  <2>1. PICK m \in Nat : m = 2
    OBVIOUS
  <2>2. first \in Seq(LineType) /\ body \in Seq(LineType) /\ m = Len(first)
    BY <1>6, <1>8, <2>1
  <2>3. /\ first \o body \in Seq(LineType) /\ Len(first \o body) = m + Len(body)
        /\ \A i \in 1..m : (first \o body)[i] = first[i]
        /\ \A i \in 1..Len(body) : (first \o body)[m + i] = body[i]
    BY <2>2, Joined, Zenon
  <2> QED
    BY <1>6, <1>9, <2>1, <2>3
<1>11. PICK doc : doc = front \o last
  OBVIOUS
<1>12. /\ doc \in Seq(LineType) /\ Len(doc) = (2 + count) + 1
       /\ \A i \in 1..(2 + count) : doc[i] = front[i]
       /\ \A i \in 1..1 : doc[(2 + count) + i] = last[i]
  <2>1. PICK m \in Nat : m = Len(front) /\ m = 2 + count
    BY <1>10
  <2>2. front \in Seq(LineType) /\ last \in Seq(LineType) /\ m = Len(front)
    BY <1>8, <1>10, <2>1
  <2>3. /\ front \o last \in Seq(LineType) /\ Len(front \o last) = m + Len(last)
        /\ \A i \in 1..m : (front \o last)[i] = front[i]
        /\ \A i \in 1..Len(last) : (front \o last)[m + i] = last[i]
    BY <2>2, Joined, Zenon
  <2> QED
    BY <1>8, <1>11, <2>1, <2>3
<1>13. doc[1] = begin
  <2>1. 1 \in 1..(2 + count) /\ 1 \in 1..2
    OBVIOUS
  <2> QED
    BY <1>8, <1>10, <1>12, <2>1
<1>14. doc[w + 2] = end
  <2>1. w + 2 = (2 + count) + 1 /\ 1 \in 1..1
    BY <1>2
  <2> QED
    BY <1>8, <1>12, <2>1
<1>15. ASSUME NEW n \in 1..w PROVE doc[n + 1] = DocumentLines(k)[n]
  <2>1. n + 1 \in 1..(2 + count)
    BY <1>2
  <2>2. doc[n + 1] = front[n + 1]
    BY <1>12, <2>1
  <2>3. CASE n = 1
    <3>1. n + 1 = 2 /\ 2 \in 1..2
      BY <2>3
    <3>2. doc[n + 1] = header
      BY <1>8, <1>10, <2>2, <3>1
    <3>3. DocumentLines(k)[1] = header
      BY <1>3, DocumentOf
    <3> QED
      BY <2>3, <3>2, <3>3
  <2>4. CASE n # 1
    <3>1. PICK m \in 1..count : n = m + 1
      <4>1. n - 1 \in 1..count /\ n = (n - 1) + 1
        BY <1>2, <2>4
      <4> QED
        BY <4>1
    <3>2. n + 1 = 2 + m
      BY <3>1
    <3>3. doc[n + 1] = BodyLine(k, m)
      BY <1>6, <1>10, <2>2, <3>2
    <3>4. DocumentLines(k)[m + 1] = BodyLine(k, m)
      BY <1>2, DocumentOf
    <3> QED
      BY <3>1, <3>3, <3>4
  <2> QED
    BY <2>3, <2>4
<1>16. public_key_to_text(k) = doc
  BY <1>3, <1>5, <1>7, <1>9, <1>11, Zenon DEF public_key_to_text, encode_pem
<1>17. Len(doc) = w + 2
  BY <1>2, <1>12
<1> QED
  BY <1>1, <1>3, <1>12, <1>13, <1>14, <1>15, <1>16, <1>17

\* The lines of the document at i are where Nth says, and nothing before it is a label line.
LEMMA DocumentAt ==
  ASSUME text \in Seq(LineType), NEW k \in Keys, NEW i \in DOMAIN NonBlank(text),
         HasDocumentAt(NonBlank(text), k, i), NEW w \in Nat \ {0}, w = Width(k)
  PROVE  /\ i \in Nat \ {0} /\ i + w + 1 <= Cardinality(Kept(text))
         /\ text[Nth(Kept(text), i)] = BeginLine(k.algo)
         /\ \A n \in 1..w : text[Nth(Kept(text), i + n)] = DocumentLines(k)[n]
         /\ text[Nth(Kept(text), i + w + 1)] = EndLine(k.algo)
         /\ \A n \in 1..(i - 1) : /\ text[Nth(Kept(text), n)] # BeginLine(k.algo)
                                 /\ text[Nth(Kept(text), n)] # EndLine(k.algo)
<1>1. PICK lines : lines = NonBlank(text)
  OBVIOUS
<1>2. /\ lines \in Seq(LineType) /\ Len(lines) = Cardinality(Kept(text))
      /\ \A n \in 1..Len(lines) : lines[n] = text[Nth(Kept(text), n)]
  BY <1>1, NonBlankProperties
<1>3. i \in Nat \ {0} /\ Len(lines) \in Nat
  BY <1>1, <1>2, LenProperties
<1>4. PICK doc : doc = public_key_to_text(k)
  OBVIOUS
<1>5. /\ Len(doc) = w + 2 /\ doc[1] = BeginLine(k.algo) /\ doc[w + 2] = EndLine(k.algo)
      /\ \A n \in 1..w : doc[n + 1] = DocumentLines(k)[n]
  BY <1>4, EncodedDocument
<1>6. /\ i + Len(doc) - 1 <= Len(lines) /\ SubSeq(lines, i, i + Len(doc) - 1) = doc
      /\ \A j \in 1..(i - 1) : lines[j] \notin Marks(k.algo)
  BY <1>1, <1>4, Zenon DEF HasDocumentAt
<1>7. PICK z \in Nat : z = i + w + 1
  BY <1>3
<1>8. z <= Len(lines) /\ SubSeq(lines, i, z) = doc
  <2>1. i + Len(doc) - 1 = z
    BY <1>3, <1>5, <1>7
  <2> QED
    BY <1>6, <2>1
<1>9. ASSUME NEW n \in 1..(w + 2) PROVE text[Nth(Kept(text), i + n - 1)] = doc[n]
  <2>1. \A j \in i..z : lines[j] \in LineType
    BY <1>2, <1>3, <1>8, ElementOfSeq
  <2>2. n \in 1..(z - i + 1)
    BY <1>3, <1>7
  <2>3. SubSeq(lines, i, z)[n] = lines[i + n - 1]
    BY <1>3, <2>1, <2>2, SubSeqProperties
  <2>4. i + n - 1 \in 1..Len(lines)
    BY <1>3, <1>7, <1>8
  <2> QED
    BY <1>2, <1>8, <2>3, <2>4
<1>10. /\ text[Nth(Kept(text), i)] = doc[1] /\ text[Nth(Kept(text), i + w + 1)] = doc[w + 2]
       /\ \A n \in 1..w : text[Nth(Kept(text), i + n)] = doc[n + 1]
  <2>1. /\ 1 \in 1..(w + 2) /\ w + 2 \in 1..(w + 2)
        /\ i + 1 - 1 = i /\ i + (w + 2) - 1 = i + w + 1
        /\ \A n \in 1..w : n + 1 \in 1..(w + 2) /\ i + (n + 1) - 1 = i + n
    BY <1>3
  <2>2. /\ text[Nth(Kept(text), i + 1 - 1)] = doc[1]
        /\ text[Nth(Kept(text), i + (w + 2) - 1)] = doc[w + 2]
    BY <1>9, <2>1
  <2>3. \A n \in 1..w : text[Nth(Kept(text), i + (n + 1) - 1)] = doc[n + 1]
    BY <1>9, <2>1
  <2> QED
    BY <2>1, <2>2, <2>3
<1>11. ASSUME NEW n \in 1..(i - 1)
       PROVE  /\ text[Nth(Kept(text), n)] # BeginLine(k.algo)
              /\ text[Nth(Kept(text), n)] # EndLine(k.algo)
  <2>1. n \in 1..Len(lines)
    BY <1>3, <1>7, <1>8
  <2> QED
    BY <1>2, <1>6, <2>1 DEF Marks
<1>12. i + w + 1 <= Len(lines)
  BY <1>7, <1>8
<1> QED
  BY <1>2, <1>3, <1>5, <1>10, <1>11, <1>12

LEMMA LineKinds ==
  ASSUME NEW algo, NEW k \in Keys
  PROVE  /\ BeginLine(algo).kind = "begin" /\ EndLine(algo).kind = "end"
         /\ \A n \in 1..Width(k) : DocumentLines(k)[n].kind \in {"text", "body"}
<1>1. PICK count \in Nat \ {0} : count = LineCount(k)
  BY LineCounts
<1>2. ASSUME NEW n \in 1..(count + 1) PROVE DocumentLines(k)[n].kind \in {"text", "body"}
  <2>1. CASE n = 1
    <3>1. k.level \in SecurityLevel
      BY PemTextAssumption
    <3>2. DocumentLines(k)[1] = TextLine({k.level})
      BY <3>1, DocumentOf, HeaderIsLevel
    <3> QED
      BY <2>1, <3>2 DEF TextLine
  <2>2. CASE n # 1
    <3>1. n - 1 \in 1..count /\ (n - 1) + 1 = n
      BY <2>2
    <3>2. DocumentLines(k)[(n - 1) + 1] = BodyLine(k, n - 1)
      BY <1>1, <3>1, DocumentOf
    <3> QED
      BY <3>1, <3>2 DEF BodyLine
  <2> QED
    BY <2>1, <2>2
<1> QED
  BY <1>1, <1>2 DEF BeginLine, EndLine, Width

LEMMA BetweenEnds ==
  ASSUME NEW i \in Nat, NEW n \in Nat, NEW w \in Nat, i < n, n < i + w + 1
  PROVE  n - i \in 1..w /\ i + (n - i) = n
OBVIOUS

LEMMA SameOrder ==
  ASSUME NEW a \in Nat, NEW p \in Nat, NEW q \in Nat
  PROVE  /\ a + p < a + q <=> p < q
         /\ a + p = a + q <=> p = q
OBVIOUS

\* The scan takes the lines of the document: its own label lines are the first of the text.
LEMMA DocumentBetween ==
  ASSUME text \in Seq(LineType), NEW k \in Keys, NEW i \in DOMAIN NonBlank(text),
         HasDocumentAt(NonBlank(text), k, i)
  PROVE  Between(text, k.algo) = Ok(DocumentLines(k))
<1> PICK w \in Nat \ {0} : w = Width(k)
  BY DocumentOf
<1>1. PICK kept : kept = Kept(text)
  OBVIOUS
<1>2. PICK m : m = Cardinality(kept)
  OBVIOUS
<1>3. /\ i \in Nat \ {0} /\ i + w + 1 <= m
      /\ text[Nth(kept, i)] = BeginLine(k.algo)
      /\ \A n \in 1..w : text[Nth(kept, i + n)] = DocumentLines(k)[n]
      /\ text[Nth(kept, i + w + 1)] = EndLine(k.algo)
      /\ \A n \in 1..(i - 1) : /\ text[Nth(kept, n)] # BeginLine(k.algo)
                              /\ text[Nth(kept, n)] # EndLine(k.algo)
  BY <1>1, <1>2, DocumentAt
<1>4. /\ kept \in SUBSET (1..Len(text)) /\ m \in Nat /\ Len(text) \in Nat
      /\ DOMAIN text = 1..Len(text)
  BY <1>1, <1>2, KeptType, LenProperties
<1>5. /\ \A n \in 1..m : Nth(kept, n) \in kept
      /\ \A n, l \in 1..m : n < l => Nth(kept, n) < Nth(kept, l)
      /\ \A j \in kept : \E n \in 1..m : Nth(kept, n) = j
  BY <1>1, <1>2, NonBlankProperties
<1>6. \A j \in 1..Len(text) : text[j].kind # "blank" => j \in kept
  BY <1>1, <1>4 DEF Kept
<1>7. \A n, l \in 1..m : Nth(kept, n) < Nth(kept, l) => n < l
  <2>1. SUFFICES ASSUME NEW n \in 1..m, NEW l \in 1..m, Nth(kept, n) < Nth(kept, l), ~(n < l)
                 PROVE  FALSE
    OBVIOUS
  <2>2. n = l \/ l < n
    BY <2>1
  <2>3. \A j \in kept : j \in Nat
    BY <1>4
  <2>4. Nth(kept, n) \in Nat /\ Nth(kept, l) \in Nat
    BY <1>5, <2>3
  <2>5. l < n => Nth(kept, l) < Nth(kept, n)
    BY <1>5
  <2> QED
    BY <2>1, <2>2, <2>4, <2>5
<1>8. PICK a : a = Nth(kept, i)
  OBVIOUS
<1>9. PICK e : e = Nth(kept, i + w + 1)
  OBVIOUS
<1>10. i \in 1..m /\ i + w + 1 \in 1..m /\ i < i + w + 1
  BY <1>3, <1>4
<1>11. a \in kept /\ e \in kept /\ a < e /\ a \in 1..Len(text) /\ e \in 1..Len(text)
  BY <1>4, <1>5, <1>8, <1>9, <1>10
<1>12. ASSUME NEW j \in 1..(a - 1) PROVE text[j] # BeginLine(k.algo) /\ text[j] # EndLine(k.algo)
  <2>1. SUFFICES ASSUME text[j] = BeginLine(k.algo) \/ text[j] = EndLine(k.algo) PROVE FALSE
    OBVIOUS
  <2>2. j \in 1..Len(text) /\ j < a
    BY <1>4, <1>11
  <2>3. text[j].kind # "blank"
    BY <2>1, LineKinds
  <2>4. PICK n \in 1..m : Nth(kept, n) = j
    BY <1>5, <1>6, <2>2, <2>3
  <2>5. n < i
    BY <1>7, <1>8, <1>10, <2>2, <2>4
  <2>6. n \in 1..(i - 1)
    BY <1>3, <2>5
  <2> QED
    BY <1>3, <2>1, <2>4, <2>6
<1>13. ASSUME NEW j \in 1..(e - 1) PROVE text[j] # EndLine(k.algo)
  <2>1. SUFFICES ASSUME text[j] = EndLine(k.algo) PROVE FALSE
    OBVIOUS
  <2>2. j \in 1..Len(text) /\ j < e
    BY <1>4, <1>11
  <2>3. text[j].kind = "end"
    BY <2>1, LineKinds
  <2>4. PICK n \in 1..m : Nth(kept, n) = j
    BY <1>5, <1>6, <2>2, <2>3
  <2>5. n < i + w + 1
    BY <1>7, <1>9, <1>10, <2>2, <2>4
  <2>6. CASE n < i
    <3>1. n \in 1..(i - 1)
      BY <1>3, <2>6
    <3> QED
      BY <1>3, <2>1, <2>4, <3>1
  <2>7. CASE n = i
    BY <1>3, <2>3, <2>4, <2>7, LineKinds
  <2>8. CASE n > i
    <3>1. PICK l \in 1..w : n = i + l
      <4>1. i \in Nat /\ n \in Nat /\ i < n
        BY <1>3, <2>8
      <4>2. n - i \in 1..w /\ i + (n - i) = n
        BY <2>5, <4>1, BetweenEnds
      <4> QED
        BY <4>2
    <3>2. text[j] = DocumentLines(k)[l]
      BY <1>3, <2>4, <3>1
    <3> QED
      BY <2>3, <3>2, LineKinds
  <2> QED
    BY <1>3, <2>6, <2>7, <2>8
<1>14. Find(text, BeginLine(k.algo)) = a
  BY <1>3, <1>8, <1>11, <1>12, FirstLine
<1>15. Find(text, EndLine(k.algo)) = e
  BY <1>3, <1>9, <1>11, <1>13, FirstLine
<1>16. PICK sub : sub = SubSeq(text, a + 1, e - 1)
  OBVIOUS
<1>17. /\ sub \in Seq(LineType) /\ Len(sub) = e - a - 1
       /\ \A x \in 1..(e - a - 1) : sub[x] = text[a + x]
  <2>1. \A j \in (a + 1)..(e - 1) : text[j] \in LineType
    BY <1>11, ElementOfSeq
  <2>2. a + 1 \in Int /\ e - 1 \in Int /\ a \in Int /\ e \in Int
    BY <1>11
  <2>3. /\ sub \in Seq(LineType)
        /\ Len(sub) = IF a + 1 <= e - 1 THEN (e - 1) - (a + 1) + 1 ELSE 0
        /\ \A x \in 1..((e - 1) - (a + 1) + 1) : sub[x] = text[(a + 1) + x - 1]
    BY <1>16, <2>1, <2>2, SubSeqProperties
  <2>4. (e - 1) - (a + 1) + 1 = e - a - 1
    BY <2>2
  <2>5. Len(sub) = e - a - 1
    BY <1>11, <2>2, <2>3
  <2>6. ASSUME NEW x \in 1..(e - a - 1) PROVE sub[x] = text[a + x]
    <3>1. (a + 1) + x - 1 = a + x
      BY <2>2
    <3> QED
      BY <2>3, <2>4, <3>1
  <2> QED
    BY <2>3, <2>5, <2>6
<1>18. PICK f : f = [n \in 1..w |-> Nth(kept, i + n) - a]
  OBVIOUS
<1>19. ASSUME NEW n \in 1..w
       PROVE  /\ i + n \in 1..m /\ f[n] \in 1..(e - a - 1)
              /\ a + f[n] = Nth(kept, i + n) /\ sub[f[n]] = DocumentLines(k)[n]
  <2>1. i + n \in 1..m /\ i < i + n /\ i + n < i + w + 1
    BY <1>3, <1>4
  <2>2. Nth(kept, i + n) \in kept /\ a < Nth(kept, i + n) /\ Nth(kept, i + n) < e
    BY <1>5, <1>8, <1>9, <1>10, <2>1
  <2>3. PICK p : p = Nth(kept, i + n)
    OBVIOUS
  <2>4. p \in Nat /\ a \in Nat /\ e \in Nat /\ a < p /\ p < e
    <3>1. \A j \in kept : j \in Nat
      BY <1>4
    <3>2. p \in Nat /\ a \in Nat /\ e \in Nat
      BY <1>11, <2>2, <2>3, <3>1
    <3> QED
      BY <2>2, <2>3, <3>2
  <2>5. f[n] = p - a
    BY <1>18, <2>3
  <2>6. f[n] \in 1..(e - a - 1) /\ a + f[n] = p
    BY <2>4, <2>5
  <2>7. sub[f[n]] = text[p]
    BY <1>17, <2>6
  <2> QED
    BY <1>3, <2>1, <2>3, <2>6, <2>7
<1>20. DOMAIN sub = 1..(e - a - 1)
  BY <1>17, LenProperties
<1>21. PICK inner : inner = Kept(sub)
  OBVIOUS
<1>22. inner \in SUBSET Nat
  BY <1>17, <1>21, KeptType
<1>23. f \in [1..w -> inner]
  <2>1. ASSUME NEW n \in 1..w PROVE f[n] \in inner
    BY <1>19, <1>20, <1>21, LineKinds DEF Kept
  <2> QED
    BY <1>18, <2>1
<1>24. ASSUME NEW n \in 1..w, NEW l \in 1..w, n < l PROVE f[n] < f[l]
  <2>1. i + n \in 1..m /\ i + l \in 1..m /\ i + n < i + l
    <3>1. i \in Nat /\ n \in Nat /\ l \in Nat /\ n < l
      BY <1>3, <1>24
    <3>2. i + n < i + l
      BY <3>1, SameOrder
    <3> QED
      BY <1>19, <3>2
  <2>2. Nth(kept, i + n) < Nth(kept, i + l)
    BY <1>5, <2>1
  <2>3. PICK p, q : p = f[n] /\ q = f[l]
    OBVIOUS
  <2>4. f[n] \in 1..(e - a - 1) /\ f[l] \in 1..(e - a - 1)
    BY <1>19
  <2>5. a + f[n] = Nth(kept, i + n) /\ a + f[l] = Nth(kept, i + l)
    BY <1>19
  <2>6. p \in Nat /\ q \in Nat /\ a \in Nat
    BY <1>11, <2>3, <2>4
  <2>7. a + p < a + q
    BY <2>2, <2>3, <2>5
  <2>8. p < q
    BY <2>6, <2>7, SameOrder
  <2> QED
    BY <2>3, <2>8
<1>25. ASSUME NEW x \in inner PROVE \E n \in 1..w : f[n] = x
  <2>1. x \in 1..(e - a - 1) /\ sub[x].kind # "blank"
    BY <1>20, <1>21 DEF Kept
  <2>2. a + x \in 1..Len(text) /\ text[a + x].kind # "blank" /\ a < a + x /\ a + x < e
    BY <1>4, <1>11, <1>17, <2>1
  <2>3. PICK n \in 1..m : Nth(kept, n) = a + x
    BY <1>5, <1>6, <2>2
  <2>4. i < n /\ n < i + w + 1
    BY <1>7, <1>8, <1>9, <1>10, <2>2, <2>3
  <2>5. n - i \in 1..w /\ i + (n - i) = n
    <3>1. i \in Nat /\ n \in Nat
      BY <1>3
    <3> QED
      BY <2>4, <3>1, BetweenEnds
  <2>6. a + f[n - i] = a + x
    BY <1>19, <2>3, <2>5
  <2>7. f[n - i] \in Nat /\ x \in Nat /\ a \in Nat
    <3>1. f[n - i] \in 1..(e - a - 1)
      BY <1>19, <2>5
    <3> QED
      BY <1>11, <2>1, <3>1
  <2>8. f[n - i] = x
    BY <2>6, <2>7, SameOrder
  <2> QED
    BY <2>5, <2>8
<1>26. Cardinality(inner) = w /\ \A n \in 1..w : Nth(inner, n) = f[n]
  <2>1. \A n, l \in 1..w : n < l => f[n] < f[l]
    BY <1>24
  <2>2. \A x \in inner : \E n \in 1..w : f[n] = x
    BY <1>25
  <2>3. w \in Nat
    OBVIOUS
  <2> QED
    BY <1>22, <1>23, <2>1, <2>2, <2>3, EnumerationIsNth, Zenon
<1>27. NonBlank(sub) = [n \in 1..w |-> sub[f[n]]]
  <2>1. NonBlank(sub) = [n \in 1..Cardinality(inner) |-> sub[Nth(inner, n)]]
    BY <1>21 DEF NonBlank, Kept
  <2> QED
    BY <1>26, <2>1
<1>28. NonBlank(sub) = DocumentLines(k)
  <2>1. [n \in 1..w |-> sub[f[n]]] = [n \in 1..w |-> DocumentLines(k)[n]]
    BY <1>19
  <2>2. DocumentLines(k) = [n \in 1..w |-> DocumentLines(k)[n]]
    <3>1. DocumentLines(k) \in [1..w -> LineType]
      BY DocumentOf, LenProperties
    <3> QED
      BY <3>1
  <2> QED
    BY <1>27, <2>1, <2>2
<1>29. Between(text, k.algo) =
         IF a = 0 THEN Err("Missing PEM header")
         ELSE IF e = 0 THEN Err("Missing PEM footer")
         ELSE IF e < a THEN Panic
         ELSE Ok(NonBlank(sub))
  BY <1>14, <1>15, <1>16, Zenon DEF Between
<1>30. a # 0 /\ e # 0 /\ ~(e < a)
  BY <1>11
<1> QED
  BY <1>28, <1>29, <1>30, Zenon

LEMMA DocumentBody ==
  ASSUME NEW k \in Keys
  PROVE  LET body == DocumentLines(k)
         IN  /\ body # <<>> /\ Head(body) = HeaderLine(k.level)
             /\ IsBase64(Tail(body)) /\ BodyBytes(Tail(body)) = PkBytes(k)
<1>1. PICK body : body = DocumentLines(k)
  OBVIOUS
<1>2. PICK count \in Nat \ {0} : count = LineCount(k) /\ Width(k) = count + 1
  BY LineCounts DEF Width
<1>3. /\ body \in Seq(LineType) /\ Len(body) = count + 1
      /\ body[1] = HeaderLine(k.level)
      /\ \A n \in 1..count : body[n + 1] = BodyLine(k, n)
  BY <1>1, <1>2, DocumentOf
<1>4. body # <<>>
  BY <1>3, EmptySeq
<1>5. PICK lines : lines = Tail(body)
  OBVIOUS
<1>6. /\ lines \in Seq(LineType) /\ Len(lines) = count
      /\ \A n \in 1..count : lines[n] = body[n + 1]
  <2>1. /\ lines \in Seq(LineType) /\ Len(lines) = Len(body) - 1
        /\ \A n \in 1..Len(lines) : lines[n] = body[n + 1]
    BY <1>3, <1>4, <1>5, HeadTailProperties
  <2>2. Len(lines) = count
    BY <1>3, <2>1
  <2> QED
    BY <2>1, <2>2
<1>7. \A n \in 1..count : lines[n] = BodyLine(k, n)
  BY <1>3, <1>6
<1>8. lines = BodyOf(k)
  <2>1. DOMAIN lines = 1..count /\ lines \in [1..count -> LineType]
    BY <1>6, LenProperties
  <2>2. lines = [n \in 1..count |-> BodyLine(k, n)]
    BY <1>7, <2>1
  <2> QED
    BY <1>2, <2>2 DEF BodyOf
<1>9. IsBase64(lines)
  <2>1. ASSUME NEW n \in 1..count
        PROVE  lines[n].kind = "body" /\ (Padded(lines[n]) => n = count)
    <3>1. lines[n].kind = "body" /\ lines[n].key = k /\ lines[n].line = n
      <4>1. lines[n] = BodyLine(k, n)
        BY <1>7
      <4> QED
        BY <4>1 DEF BodyLine
    <3>2. Padded(lines[n]) => lines[n].line = LineCount(lines[n].key)
      BY DEF Padded
    <3> QED
      BY <1>2, <3>1, <3>2
  <2>2. DOMAIN lines = 1..count
    BY <1>6, LenProperties
  <2> QED
    BY <1>6, <2>1, <2>2 DEF IsBase64
<1>10. lines # <<>> /\ lines[1].key = k
  <2>1. 1 \in 1..count
    OBVIOUS
  <2>2. lines[1].key = k
    <3>1. lines[1] = BodyLine(k, 1)
      BY <1>7, <2>1
    <3> QED
      BY <3>1 DEF BodyLine
  <2>3. lines # <<>>
    BY <1>6, EmptySeq
  <2> QED
    BY <2>2, <2>3
<1>11. BodyBytes(lines) = PkBytes(k)
  BY <1>8, <1>10, Zenon DEF BodyBytes
<1>12. Head(body) = HeaderLine(k.level)
  BY <1>3, <1>4, HeadTailProperties
<1> QED
  BY <1>1, <1>4, <1>5, <1>9, <1>11, <1>12

LEMMA DocumentKey ==
  ASSUME NEW k \in Keys
  PROVE  LET pub == [algo |-> k.algo, level |-> k.level, bytes |-> PkBytes(k)]
         IN  /\ from_validated(k.algo, k.level, PkBytes(k)) = Ok(pub)
             /\ Document!public_key_from_pem(k.algo, Document!public_key_to_pem(pub)) = Ok(pub)
<1>1. k.algo \in Algo /\ k.level \in SecurityLevel
  BY PemTextAssumption
<1>2. PICK bytes : bytes = PkBytes(k)
  OBVIOUS
<1>3. bytes.len = SizeOf(k.algo, k.level).public_key
  BY <1>2 DEF PkBytes
<1>4. PICK pub : pub = [algo |-> k.algo, level |-> k.level, bytes |-> bytes]
  OBVIOUS
<1>5. from_validated(k.algo, k.level, bytes) = Ok(pub)
  BY <1>1, <1>3, <1>4
  DEF Algo, SizeOf, from_validated, kem_from_validated, dsa_from_validated
<1>6. PICK pem : pem = Document!public_key_to_pem(pub)
  OBVIOUS
<1>7. pem.label = k.algo /\ pem.header = k.level /\ pem.bytes = bytes
  BY <1>4, <1>6 DEF Document!public_key_to_pem
<1>8. PICK decoded : decoded = Document!decode_pem(pem, k.algo)
  OBVIOUS
<1>9. decoded.ok /\ decoded.val.level = k.level /\ decoded.val.bytes = bytes
  BY <1>7, <1>8 DEF Document!decode_pem, Document!Ok
<1>10. Document!public_key_from_pem(k.algo, pem)
         = Document!from_validated(k.algo, k.level, bytes)
  BY <1>8, <1>9, Zenon DEF Document!public_key_from_pem
<1>11. Document!from_validated(k.algo, k.level, bytes) = from_validated(k.algo, k.level, bytes)
  <2>1. /\ Document!KemSizes[k.level].public_key = KemSizes[k.level].public_key
        /\ Document!DsaSizes[k.level].public_key = DsaSizes[k.level].public_key
    BY <1>1 DEF SecurityLevel, KemSizes, DsaSizes, Document!KemSizes, Document!DsaSizes
  <2>2. \A v : Document!Ok(v) = Ok(v) /\ Document!Err(v) = Err(v)
    BY DEF Ok, Err, Document!Ok, Document!Err
  <2>3. /\ Document!kem_from_validated(k.level, bytes) = kem_from_validated(k.level, bytes)
        /\ Document!dsa_from_validated(k.level, bytes) = dsa_from_validated(k.level, bytes)
    BY <2>1, <2>2 DEF kem_from_validated, dsa_from_validated,
                      Document!kem_from_validated, Document!dsa_from_validated
  <2> QED
    BY <2>3 DEF from_validated, Document!from_validated
<1> QED
  BY <1>2, <1>4, <1>5, <1>6, <1>10, <1>11

LEMMA EveryWholeDocumentDecodes ==
  ASSUME text \in Seq(LineType)
  PROVE  WholeDocumentDecodes
<1>1. SUFFICES
        ASSUME NEW k \in Keys, NEW i \in DOMAIN NonBlank(text),
               HasDocumentAt(NonBlank(text), k, i),
               NEW pub, pub = [algo |-> k.algo, level |-> k.level, bytes |-> PkBytes(k)]
        PROVE  public_key_from_text(k.algo, text)
                 = Document!public_key_from_pem(k.algo, Document!public_key_to_pem(pub))
  BY Zenon DEF WholeDocumentDecodes
<1>2. k.level \in SecurityLevel
  BY PemTextAssumption
<1>3. PICK lines : lines = DocumentLines(k)
  OBVIOUS
<1>4. Between(text, k.algo) = Ok(lines)
  BY <1>1, <1>3, DocumentBetween
<1>5. PICK body : body = Between(text, k.algo)
  OBVIOUS
<1>6. body.ok /\ body.val = lines
  BY <1>4, <1>5 DEF Ok
<1>7. /\ lines # <<>> /\ Head(lines) = HeaderLine(k.level)
      /\ IsBase64(Tail(lines)) /\ BodyBytes(Tail(lines)) = PkBytes(k)
  BY <1>3, DocumentBody
<1>8. PICK level : level = parse_level_from_header(Head(body.val))
  OBVIOUS
<1>9. level.ok /\ level.val = k.level
  <2>1. level = Ok(k.level)
    BY <1>2, <1>6, <1>7, <1>8, HeaderIsLevel
  <2> QED
    BY <2>1 DEF Ok
<1>10. PICK decoded : decoded = decode_pem(text, k.algo)
  OBVIOUS
<1>11. decoded =
         IF ~body.ok THEN body
         ELSE IF body.val = <<>> THEN Err("Empty PEM body")
         ELSE IF ~level.ok THEN level
         ELSE IF ~IsBase64(Tail(body.val)) THEN Err("Invalid base64 in PEM body")
         ELSE Ok([level |-> level.val, bytes |-> BodyBytes(Tail(body.val))])
  BY <1>5, <1>8, <1>10, Zenon DEF decode_pem
<1>12. decoded = Ok([level |-> k.level, bytes |-> PkBytes(k)])
  BY <1>6, <1>7, <1>9, <1>11
<1>13. decoded.ok /\ decoded.val.level = k.level /\ decoded.val.bytes = PkBytes(k)
  BY <1>12 DEF Ok
<1>14. public_key_from_text(k.algo, text) = from_validated(k.algo, k.level, PkBytes(k))
  BY <1>10, <1>13, Zenon DEF public_key_from_text
<1> QED
  BY <1>1, <1>14, DocumentKey

-----------------------------------------------------------------------------
(* Every text that can be reached is a text of lines. *)

LEMMA PartOfText ==
  ASSUME text \in Seq(LineType), NEW i \in Nat \ {0}, NEW j \in Int, j <= Len(text)
  PROVE  SubSeq(text, i, j) \in Seq(LineType)
<1>1. \A n \in i..j : text[n] \in LineType
  BY LenProperties, ElementOfSeq
<1> QED
  BY <1>1, SubSeqProperties

TextOfLines ==
  text \in Seq(LineType) /\ documents \in 0..MaxDocuments /\ edits \in 0..MaxEdits

LEMMA InitIsText == Init => TextOfLines
BY PemTextAssumption DEF Init, TextOfLines

LEMMA EditIsText ==
  ASSUME TextOfLines, NEW to \in Seq(LineType), Edit(to)
  PROVE  TextOfLines'
BY PemTextAssumption DEF TextOfLines, Edit

LEMMA NextIsText == TextOfLines /\ [Next]_vars => TextOfLines'
<1> SUFFICES ASSUME TextOfLines, [Next]_vars PROVE TextOfLines'
  OBVIOUS
<1>1. text \in Seq(LineType) /\ Len(text) \in Nat /\ DOMAIN text = 1..Len(text)
  BY LenProperties DEF TextOfLines
<1>2. ASSUME NEW k \in Keys, AppendDocument(k) PROVE TextOfLines'
  <2>1. text \o public_key_to_text(k) \in Seq(LineType)
    BY <1>1, EncodedDocument, ConcatProperties
  <2> QED
    BY <1>2, <2>1, PemTextAssumption DEF TextOfLines, AppendDocument
<1>3. ASSUME NEW i \in DOMAIN text, NEW j \in i..Len(text), LoseLines(i, j) PROVE TextOfLines'
  <2>1. SubSeq(text, 1, i - 1) \in Seq(LineType) /\ SubSeq(text, j + 1, Len(text)) \in Seq(LineType)
    BY <1>1, PartOfText
  <2>2. SubSeq(text, 1, i - 1) \o SubSeq(text, j + 1, Len(text)) \in Seq(LineType)
    BY <2>1, ConcatProperties
  <2> QED
    BY <1>3, <2>2, EditIsText DEF LoseLines
<1>4. ASSUME NEW i \in DOMAIN text, NEW line \in LineType, InsertLine(i, line)
      PROVE  TextOfLines'
  <2>1. SubSeq(text, 1, i - 1) \in Seq(LineType) /\ SubSeq(text, i, Len(text)) \in Seq(LineType)
    BY <1>1, PartOfText
  <2>2. <<line>> \in Seq(LineType)
    OBVIOUS
  <2>3. InsertAt(text, i, line) \in Seq(LineType)
    BY <2>1, <2>2, ConcatProperties DEF InsertAt
  <2> QED
    BY <1>4, <2>3, EditIsText DEF InsertLine
<1>5. ASSUME NEW i \in DOMAIN text, NEW line \in LineType, Edit(ReplaceAt(text, i, line))
      PROVE  TextOfLines'
  <2>1. ReplaceAt(text, i, line) \in Seq(LineType)
    BY <1>1, ExceptSeq DEF ReplaceAt
  <2> QED
    BY <1>5, <2>1, EditIsText
<1>6. ASSUME UNCHANGED vars PROVE TextOfLines'
  BY <1>6 DEF vars, TextOfLines
<1>7. BlankLine \in LineType /\ \A levels \in LevelSets : TextLine(levels) \in LineType
  BY PemTextAssumption DEF TextLine, LineType
<1> QED
  BY <1>2, <1>3, <1>4, <1>5, <1>6, <1>7 DEF Next, EditLine

LEMMA TextIsTyped == TextOfLines => TypeOK
<1>1. ASSUME NEW algo \in Algo, public_key_from_text(algo, text).ok
      PROVE  public_key_from_text(algo, text).val.bytes.len
               = SizeOf(algo, public_key_from_text(algo, text).val.level).public_key
  BY <1>1, DecodedText
<1> QED
  BY <1>1 DEF TextOfLines, TypeOK

-----------------------------------------------------------------------------
(* The theorems. *)

\* Whatever documents are appended and however the text is edited, every key decode_pem
\* accepts has the length of the level that its header line names (pem.rs:59-76, 92-137).
THEOREM DecodedKeysAreTyped == Spec => []TypeOK
<1>1. Spec => []TextOfLines
  BY InitIsText, NextIsText, PTL DEF Spec
<1> QED
  BY <1>1, TextIsTyped, PTL

\* Wherever a whole document is in a text, behind comments, blank lines, documents of the
\* other algorithm or what is left of damaged ones, and whatever follows it, it decodes to
\* the key that was encoded (pem.rs:59-122).
THEOREM WholeDocumentsDecode == Spec => []WholeDocumentDecodes
<1>1. Spec => []TextOfLines
  BY InitIsText, NextIsText, PTL DEF Spec
<1>2. TextOfLines => WholeDocumentDecodes
  BY EveryWholeDocumentDecodes DEF TextOfLines
<1> QED
  BY <1>1, <1>2, PTL

\* A body that lost lines never gives a key under its own label and level, being too short,
\* and a whole body gives no other key under any label and header, no two of the six key
\* lengths being the same (pem.rs:57-58).
THEOREM LossesAreDetected == Spec => []LossIsDetected
<1>1. Spec => []TextOfLines
  BY InitIsText, NextIsText, PTL DEF Spec
<1>2. TextOfLines => LossIsDetected
  BY EveryLossIsDetected DEF TextOfLines
<1> QED
  BY <1>1, <1>2, PTL
=============================================================================
