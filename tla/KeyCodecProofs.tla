---------------------------- MODULE KeyCodecProofs ----------------------------
(***************************************************************************)
(* Theorems about KeyCodec, for every number of values of a byte and of a  *)
(* usize and all lengths of keys: the codec is a bijection between the     *)
(* pairs of keys and the plaintexts it accepts, and its addition wraps for *)
(* no plaintext of this code.                                              *)
(***************************************************************************)
EXTENDS KeyCodec, SequenceTheorems, TLAPS

-----------------------------------------------------------------------------
(* Arithmetic. *)

\* Products keep the order of their factors.
LEMMA TimesMonotonic ==
  ASSUME NEW b \in Nat, NEW m \in Int, NEW k \in Int, k >= m + 1
  PROVE  b * k >= b * m + b
<1>1. PICK j \in Nat : k = m + 1 + j
  BY k - m - 1 \in Nat
<1>2. b * k = b * m + b + b * j
  BY <1>1
<1>3. b * j \in Nat
  BY <1>1
<1> QED
  BY <1>2, <1>3

\* Division with remainder.
LEMMA Division ==
  ASSUME NEW b \in Nat, b > 0, NEW n \in Nat
  PROVE  /\ n \div b \in Nat /\ n % b \in 0..(b - 1)
         /\ n = b * (n \div b) + (n % b)
  OBVIOUS

\* A number of two digits has one quotient and one remainder.
LEMMA DivisionUnique ==
  ASSUME NEW b \in Nat, b > 0, NEW a \in 0..(b - 1), NEW x \in Nat
  PROVE  (a + b * x) \div b = x /\ (a + b * x) % b = a
<1> DEFINE n == a + b * x
           q == n \div b
           r == n % b
<1>1. n \in Nat
  OBVIOUS
<1>2. q \in Nat /\ r \in 0..(b - 1) /\ n = b * q + r
  BY <1>1, Division
<1> HIDE DEF q, r
<1>3. ~ (q >= x + 1)
  <2> SUFFICES ASSUME q >= x + 1 PROVE FALSE
    OBVIOUS
  <2>1. b * q >= b * x + b
    BY <1>2, TimesMonotonic
  <2> QED
    BY <1>2, <2>1
<1>4. ~ (x >= q + 1)
  <2> SUFFICES ASSUME x >= q + 1 PROVE FALSE
    OBVIOUS
  <2>1. b * x >= b * q + b
    BY <1>2, TimesMonotonic
  <2> QED
    BY <1>2, <2>1
<1>5. q = x
  BY <1>2, <1>3, <1>4
<1>6. r = a
  BY <1>2, <1>5
<1> QED
  BY <1>5, <1>6 DEF q, r

\* Quotients keep the bound of their product.
LEMMA QuotientBound ==
  ASSUME NEW b \in Nat, b > 0, NEW c \in Nat, NEW n \in Nat, n < b * c
  PROVE  n \div b \in 0..(c - 1)
<1> DEFINE q == n \div b
           r == n % b
<1>1. q \in Nat /\ r \in 0..(b - 1) /\ n = b * q + r
  BY Division
<1> HIDE DEF q, r
<1>2. ~ (q >= c)
  <2> SUFFICES ASSUME q >= c PROVE FALSE
    OBVIOUS
  <2>1. b * (q + 1) >= b * c + b
    BY <1>1, TimesMonotonic
  <2>2. b * (q + 1) = b * q + b
    BY <1>1
  <2>3. b * c \in Nat
    OBVIOUS
  <2> QED
    BY <1>1, <2>1, <2>2, <2>3
<1> QED
  BY <1>1, <1>2 DEF q

-----------------------------------------------------------------------------
(* The prefix. *)

\* The bytes of a u32 are bytes, and give back the u32.
LEMMA PrefixOfLength ==
  ASSUME NEW n \in 0..(U32 - 1)
  PROVE  /\ to_le_bytes(n) \in Seq(Byte) /\ Len(to_le_bytes(n)) = PREFIX
         /\ from_le_bytes(to_le_bytes(n)) = n
<1> DEFINE b == Base
           q1 == n \div b
           q2 == q1 \div b
           q3 == q2 \div b
<1>1. b \in Nat /\ b > 0
  BY CodecAssumption
<1>2. b * b \in Nat /\ b * b * b \in Nat /\ U32 = b * (b * b * b)
      /\ b * b * b = b * (b * b) /\ U32 \in Nat
  BY <1>1 DEF U32
<1>3. n \in Nat /\ n < b * (b * b * b)
  BY <1>2
<1>4. q1 \in Nat /\ q1 < b * (b * b)
  BY <1>1, <1>2, <1>3, QuotientBound
<1>5. q2 \in Nat /\ q2 < b * b
  <2> HIDE DEF q1
  <2> QED
    BY <1>1, <1>2, <1>4, QuotientBound
<1>6. q3 \in 0..(b - 1)
  <2> HIDE DEF q2
  <2> QED
    BY <1>1, <1>5, QuotientBound
<1>7. /\ n % b \in 0..(b - 1) /\ n = b * q1 + (n % b)
      /\ q1 % b \in 0..(b - 1) /\ q1 = b * q2 + (q1 % b)
      /\ q2 % b \in 0..(b - 1) /\ q2 = b * q3 + (q2 % b)
  <2>1. n % b \in 0..(b - 1) /\ n = b * q1 + (n % b)
    BY <1>1, <1>3, Division
  <2>2. q1 % b \in 0..(b - 1) /\ q1 = b * q2 + (q1 % b)
    BY <1>1, <1>4, Division
  <2>3. q2 % b \in 0..(b - 1) /\ q2 = b * q3 + (q2 % b)
    BY <1>1, <1>5, Division
  <2> QED
    BY <2>1, <2>2, <2>3
<1>8. q3 % b = q3
  BY <1>1, <1>6, DivisionUnique, q3 + b * 0 = q3
<1>9. to_le_bytes(n) = <<n % b, q1 % b, q2 % b, q3>>
  BY <1>8 DEF to_le_bytes
<1> HIDE DEF q1, q2, q3
<1>10. to_le_bytes(n) \in Seq(Byte) /\ Len(to_le_bytes(n)) = PREFIX
  BY <1>1, <1>6, <1>7, <1>9 DEF Byte, PREFIX
<1>11. from_le_bytes(to_le_bytes(n)) = n
  <2>1. from_le_bytes(to_le_bytes(n))
          = (n % b) + b * ((q1 % b) + b * ((q2 % b) + b * q3))
    BY <1>9 DEF from_le_bytes
  <2>2. (q2 % b) + b * q3 = q2
    BY <1>1, <1>6, <1>7
  <2>3. (q1 % b) + b * q2 = q1
    BY <1>1, <1>5, <1>7
  <2>4. (n % b) + b * q1 = n
    BY <1>1, <1>4, <1>7
  <2> QED
    BY <2>1, <2>2, <2>3, <2>4
<1> QED
  BY <1>10, <1>11

\* Four bytes are a u32, and are the bytes of it.
LEMMA LengthOfPrefix ==
  ASSUME NEW s, \A i \in 1..PREFIX : s[i] \in Byte
  PROVE  /\ from_le_bytes(s) \in 0..(U32 - 1)
         /\ to_le_bytes(from_le_bytes(s)) = <<s[1], s[2], s[3], s[4]>>
<1> DEFINE b == Base
           x3 == s[3] + b * s[4]
           x2 == s[2] + b * x3
           x1 == s[1] + b * x2
<1>1. b \in Nat /\ b > 0
  BY CodecAssumption
<1>2. /\ s[1] \in 0..(b - 1) /\ s[2] \in 0..(b - 1)
      /\ s[3] \in 0..(b - 1) /\ s[4] \in 0..(b - 1)
  BY DEF Byte, PREFIX
<1>3. from_le_bytes(s) = x1
  BY DEF from_le_bytes
<1>a. \A d \in 0..(b - 1), x \in Nat :
        d + b * x \in Nat /\ (d + b * x) \div b = x /\ (d + b * x) % b = d
  <2> SUFFICES ASSUME NEW d \in 0..(b - 1), NEW x \in Nat
               PROVE  d + b * x \in Nat /\ (d + b * x) \div b = x /\ (d + b * x) % b = d
    OBVIOUS
  <2>1. b * x \in Nat
    BY <1>1
  <2>2. d + b * x \in Nat
    BY <1>1, <2>1
  <2> QED
    BY <1>1, <2>2, DivisionUnique
<1>4. x3 \in Nat /\ x3 \div b = s[4] /\ x3 % b = s[3]
  <2>1. s[4] \in Nat
    BY <1>1, <1>2
  <2> QED
    BY <1>2, <1>a, <2>1, Zenon
<1>5. x2 \in Nat /\ x2 \div b = x3 /\ x2 % b = s[2]
  <2> HIDE DEF x3
  <2> QED
    BY <1>2, <1>a, <1>4, Zenon
<1>6. x1 \in Nat /\ x1 \div b = x2 /\ x1 % b = s[1]
  <2> HIDE DEF x2
  <2> QED
    BY <1>2, <1>a, <1>5, Zenon
<1>7. s[4] % b = s[4]
  BY <1>1, <1>2, DivisionUnique, s[4] + b * 0 = s[4]
<1>8. to_le_bytes(x1) = <<s[1], s[2], s[3], s[4]>>
  <2> HIDE DEF x1, x2, x3
  <2> QED
    BY <1>4, <1>5, <1>6, <1>7 DEF to_le_bytes
<1>9. x1 < U32
  <2>1. b * (s[4] + 1) <= b * b
    <3>1. b * (b + 1) >= b * (s[4] + 1) + b
      BY <1>1, <1>2, TimesMonotonic
    <3> QED
      BY <1>1, <1>2, <3>1
  <2>2. x3 + 1 <= b * b
    BY <1>1, <1>2, <2>1
  <2>3. x2 + 1 <= b * b * b
    <3> HIDE DEF x3
    <3>1. b * (b * b + 1) >= b * (x3 + 1) + b
      BY <1>1, <1>4, <2>2, TimesMonotonic, b * b \in Nat
    <3> QED
      BY <1>1, <1>2, <1>4, <3>1
  <2>4. x1 + 1 <= b * b * b * b
    <3> HIDE DEF x2
    <3>1. b * (b * b * b + 1) >= b * (x2 + 1) + b
      BY <1>1, <1>5, <2>3, TimesMonotonic, b * b * b \in Nat
    <3> QED
      BY <1>1, <1>2, <1>5, <3>1
  <2> QED
    BY <1>1, <1>6, <2>4 DEF U32
<1> QED
  BY <1>1, <1>3, <1>6, <1>8, <1>9 DEF U32

-----------------------------------------------------------------------------
(* The codec. *)

\* Where decode_plaintext splits: the addition either does not wrap, or gives less than the
\* length of the prefix.
LEMMA SplitPoint ==
  ASSUME NEW n \in 0..(U32 - 1)
  PROVE  IF PREFIX + n < Usize
           THEN (PREFIX + n) % Usize = PREFIX + n
           ELSE (PREFIX + n) % Usize < PREFIX /\ (PREFIX + n) % Usize \in Nat
<1>1. U32 \in Nat /\ Usize \in Nat /\ Usize >= U32 /\ Usize > 0
  <2>1. Base * Base \in Nat /\ Base * Base * Base \in Nat /\ U32 \in Nat
    BY CodecAssumption DEF U32
  <2> QED
    BY <2>1, CodecAssumption
<1>2. CASE PREFIX + n < Usize
  BY <1>1, <1>2, DivisionUnique, (PREFIX + n) + Usize * 0 = PREFIX + n DEF PREFIX
<1>3. CASE ~ (PREFIX + n < Usize)
  <2> DEFINE k == PREFIX + n - Usize
  <2>1. k \in 0..(PREFIX - 1) /\ k \in Nat
    BY <1>1, <1>3 DEF PREFIX
  <2>2. CASE k < Usize
    <3>1. k \in 0..(Usize - 1) /\ PREFIX + n = k + Usize * 1
      BY <1>1, <2>1, <2>2 DEF PREFIX
    <3> HIDE DEF k
    <3>2. (k + Usize * 1) % Usize = k
      BY <1>1, <3>1, DivisionUnique
    <3> QED
      BY <1>3, <2>1, <3>1, <3>2 DEF PREFIX
  <2>3. CASE ~ (k < Usize)
    <3>1. (PREFIX + n) % Usize \in 0..(Usize - 1)
      BY <1>1, Division DEF PREFIX
    <3> QED
      BY <1>1, <1>3, <2>1, <2>3, <3>1 DEF PREFIX
  <2> QED
    BY <2>2, <2>3
<1> QED
  BY <1>2, <1>3

\* What was encoded decodes to itself, for keys whose length a prefix can hold.
LEMMA DecodeOfEncode ==
  ASSUME NEW keys \in KeyBytes, Len(keys.public_key) \in 0..(U32 - PREFIX - 1)
  PROVE  /\ encode_plaintext(keys) \in Seq(Byte)
         /\ decode_plaintext(encode_plaintext(keys)) = Ok(keys)
<1> DEFINE pk == keys.public_key
           sk == keys.secret_key
           n  == Len(pk)
           prefix == to_le_bytes(n)
           head == prefix \o pk
           d  == head \o sk
<1>1. pk \in Seq(Byte) /\ sk \in Seq(Byte) /\ keys = [public_key |-> pk, secret_key |-> sk]
  BY DEF KeyBytes, ByteStrings
<1>2. U32 \in Nat
  <2>1. Base * Base \in Nat /\ Base * Base * Base \in Nat
    BY CodecAssumption
  <2> QED
    BY <2>1, CodecAssumption DEF U32
<1>3. n \in Nat /\ n \in 0..(U32 - 1) /\ PREFIX + n < U32 /\ Len(sk) \in Nat
  BY <1>1, <1>2, LenProperties DEF PREFIX
<1>4. prefix \in Seq(Byte) /\ Len(prefix) = PREFIX /\ from_le_bytes(prefix) = n
  BY <1>3, PrefixOfLength
<1> HIDE DEF n, prefix, pk, sk
<1>5. /\ head \in Seq(Byte) /\ Len(head) = PREFIX + n
      /\ \A i \in 1..(PREFIX + n) : head[i] = IF i <= PREFIX THEN prefix[i] ELSE pk[i - PREFIX]
  BY <1>1, <1>4, ConcatProperties DEF n
<1> HIDE DEF head
<1>6. /\ d \in Seq(Byte) /\ Len(d) = PREFIX + n + Len(sk)
      /\ \A i \in 1..(PREFIX + n + Len(sk)) :
           d[i] = IF i <= PREFIX + n THEN head[i] ELSE sk[i - (PREFIX + n)]
  <2>1. /\ d \in Seq(Byte) /\ Len(d) = Len(head) + Len(sk)
        /\ \A i \in 1..(Len(head) + Len(sk)) :
             d[i] = IF i <= Len(head) THEN head[i] ELSE sk[i - Len(head)]
    BY <1>1, <1>5, ConcatProperties
  <2> QED
    BY <1>5, <2>1
<1> HIDE DEF d
<1>7. from_le_bytes(d) = n
  <2>1. \A i \in 1..PREFIX : d[i] = prefix[i]
    BY <1>3, <1>5, <1>6 DEF PREFIX
  <2> QED
    BY <1>4, <2>1 DEF from_le_bytes, PREFIX
<1>8. (PREFIX + from_le_bytes(d)) % Usize = PREFIX + n
  BY <1>2, <1>3, <1>7, SplitPoint, CodecAssumption DEF PREFIX
<1>9. SubSeq(d, PREFIX + 1, PREFIX + n) = pk
  <2>1. \A i \in (PREFIX + 1)..(PREFIX + n) : d[i] \in Byte
    BY <1>3, <1>6, ElementOfSeq DEF PREFIX
  <2>2. /\ SubSeq(d, PREFIX + 1, PREFIX + n) \in Seq(Byte)
        /\ Len(SubSeq(d, PREFIX + 1, PREFIX + n)) = n
        /\ \A i \in 1..n : SubSeq(d, PREFIX + 1, PREFIX + n)[i] = d[PREFIX + i]
    BY <1>3, <2>1, SubSeqProperties DEF PREFIX
  <2>3. \A i \in 1..n : d[PREFIX + i] = pk[i]
    BY <1>3, <1>5, <1>6 DEF PREFIX
  <2> QED
    BY <1>1, <2>2, <2>3, SeqEqual DEF n
<1>10. SubSeq(d, PREFIX + n + 1, Len(d)) = sk
  <2>1. \A i \in (PREFIX + n + 1)..Len(d) : d[i] \in Byte
    BY <1>3, <1>6, ElementOfSeq DEF PREFIX
  <2>2. /\ SubSeq(d, PREFIX + n + 1, Len(d)) \in Seq(Byte)
        /\ Len(SubSeq(d, PREFIX + n + 1, Len(d))) = Len(sk)
        /\ \A i \in 1..Len(sk) : SubSeq(d, PREFIX + n + 1, Len(d))[i] = d[PREFIX + n + i]
    BY <1>3, <1>6, <2>1, SubSeqProperties DEF PREFIX
  <2>3. \A i \in 1..Len(sk) : d[PREFIX + n + i] = sk[i]
    BY <1>3, <1>6 DEF PREFIX
  <2> QED
    BY <1>1, <2>2, <2>3, SeqEqual
<1>11. encode_plaintext(keys) = d
  BY DEF encode_plaintext, d, head, prefix, n, pk, sk
<1>12. decode_plaintext(d) = Ok([public_key |-> pk, secret_key |-> sk])
  <2>1. ~ (Len(d) < PREFIX) /\ ~ (Len(d) < PREFIX + n) /\ ~ (PREFIX + n < PREFIX)
    BY <1>3, <1>6 DEF PREFIX
  <2> QED
    BY <1>8, <1>9, <1>10, <2>1, Zenon DEF decode_plaintext
<1> QED
  BY <1>1, <1>6, <1>11, <1>12

\* What decodes is the encoding of what it decodes to, and a panic needs a prefix within
\* four of the largest usize.
LEMMA EncodeOfDecode ==
  ASSUME NEW d \in Seq(Byte)
  PROVE  LET keys == decode_plaintext(d)
         IN  /\ keys.ok => keys.val \in KeyBytes /\ encode_plaintext(keys.val) = d
             /\ keys = Panic => from_le_bytes(d) \notin 0..(U32 - PREFIX - 1)
<1> DEFINE n   == from_le_bytes(d)
           end == (PREFIX + n) % Usize
           pk  == SubSeq(d, PREFIX + 1, end)
           sk  == SubSeq(d, end + 1, Len(d))
           keys == decode_plaintext(d)
           Good == /\ keys.ok => keys.val \in KeyBytes /\ encode_plaintext(keys.val) = d
                   /\ keys = Panic => from_le_bytes(d) \notin 0..(U32 - PREFIX - 1)
<1> SUFFICES Good
  OBVIOUS
<1>e. ASSUME NEW e \in {"Truncated key data", "Truncated public key"}, keys = Err(e)
      PROVE  Good
  <2> HIDE DEF keys
  <2> QED
    BY <1>e DEF Err, Panic
<1>1. Len(d) \in Nat
  BY LenProperties
<1>2. CASE Len(d) < PREFIX
  <2>1. keys = Err("Truncated key data")
    BY <1>2 DEF decode_plaintext
  <2> QED
    BY <2>1, <1>e
<1>3. CASE Len(d) >= PREFIX
  <2>1. \A i \in 1..PREFIX : d[i] \in Byte
    BY <1>1, <1>3, ElementOfSeq DEF PREFIX
  <2>2. n \in 0..(U32 - 1) /\ to_le_bytes(n) = <<d[1], d[2], d[3], d[4]>>
    BY <2>1, LengthOfPrefix
  <2>3. U32 \in Nat
    <3>1. Base * Base \in Nat /\ Base * Base * Base \in Nat
      BY CodecAssumption
    <3> QED
      BY <3>1, CodecAssumption DEF U32
  <2> HIDE DEF n
  <2>4. CASE PREFIX + n < Usize
    <3>1. end = PREFIX + n /\ end >= PREFIX
      BY <2>2, <2>3, <2>4, SplitPoint DEF PREFIX
    <3> HIDE DEF end
    <3>2. CASE Len(d) < end
      <4>1. keys = Err("Truncated public key")
        <5>1. ~ (Len(d) < PREFIX)
          BY <1>1, <1>3 DEF PREFIX
        <5> QED
          BY <3>2, <5>1, Zenon DEF decode_plaintext, end, n
      <4> QED
        BY <4>1, <1>e
    <3>3. CASE ~ (Len(d) < end)
      <4>1. keys = Ok([public_key |-> pk, secret_key |-> sk])
        <5>1. ~ (Len(d) < PREFIX) /\ ~ (end < PREFIX)
          BY <1>1, <1>3, <2>2, <3>1 DEF PREFIX
        <5> QED
          BY <3>3, <5>1, Zenon DEF decode_plaintext, end, n
      <4>2. pk \in Seq(Byte) /\ Len(pk) = n
        <5>1. \A i \in (PREFIX + 1)..end : d[i] \in Byte
          BY <1>1, <2>2, <3>1, <3>3, ElementOfSeq DEF PREFIX
        <5> QED
          BY <2>2, <3>1, <5>1, SubSeqProperties DEF PREFIX
      <4>3. sk \in Seq(Byte)
        <5>1. \A i \in (end + 1)..Len(d) : d[i] \in Byte
          BY <1>1, <2>2, <3>1, <3>3, ElementOfSeq DEF PREFIX
        <5> QED
          BY <1>1, <2>2, <3>1, <5>1, SubSeqProperties DEF PREFIX
      <4>4. to_le_bytes(n) = SubSeq(d, 1, PREFIX)
        <5>1. /\ SubSeq(d, 1, PREFIX) \in Seq(Byte) /\ Len(SubSeq(d, 1, PREFIX)) = PREFIX
              /\ \A i \in 1..PREFIX : SubSeq(d, 1, PREFIX)[i] = d[i]
          BY <2>1, SubSeqProperties DEF PREFIX
        <5>2. /\ to_le_bytes(n) \in Seq(Byte) /\ Len(to_le_bytes(n)) = PREFIX
              /\ \A i \in 1..PREFIX : to_le_bytes(n)[i] = d[i]
          BY <2>1, <2>2 DEF PREFIX
        <5> QED
          BY <5>1, <5>2, SeqEqual
      <4>5. SubSeq(d, 1, PREFIX) \o pk = SubSeq(d, 1, end)
        BY <1>1, <2>2, <3>1, <3>3, ConcatAdjacentSubSeq DEF PREFIX
      <4>6. SubSeq(d, 1, end) \o sk = d
        <5>1. SubSeq(d, 1, end) \o sk = SubSeq(d, 1, Len(d))
          <6>1. /\ 1 \in 1..(Len(d) + 1) /\ end \in (1 - 1)..Len(d)
                /\ Len(d) \in end..Len(d)
            BY <1>1, <2>2, <3>1, <3>3 DEF PREFIX
          <6> QED
            BY <6>1, ConcatAdjacentSubSeq
        <5> QED
          BY <5>1, SubSeqFull
      <4> HIDE DEF pk, sk, keys
      <4>7. keys.val = [public_key |-> pk, secret_key |-> sk] /\ keys # Panic
        BY <4>1 DEF Ok, Err, Panic
      <4>8. encode_plaintext(keys.val) = d
        <5>1. keys.val.public_key = pk /\ keys.val.secret_key = sk
          BY <4>7
        <5>2. encode_plaintext(keys.val) = to_le_bytes(n) \o pk \o sk
          BY <4>2, <5>1, Zenon DEF encode_plaintext
        <5> QED
          BY <4>4, <4>5, <4>6, <5>2, Zenon
      <4>9. keys.val \in KeyBytes
        BY <4>2, <4>3, <4>7 DEF KeyBytes, ByteStrings
      <4> QED
        BY <4>7, <4>8, <4>9, Zenon DEF Good
    <3> QED
      BY <3>2, <3>3
  <2>5. CASE ~ (PREFIX + n < Usize)
    <3>1. end < PREFIX /\ end \in Nat /\ n \notin 0..(U32 - PREFIX - 1)
      BY <2>2, <2>3, <2>5, SplitPoint, CodecAssumption DEF PREFIX
    <3> HIDE DEF end
    <3>2. keys = Panic
      <4>1. ~ (Len(d) < PREFIX) /\ ~ (Len(d) < end)
        BY <1>1, <1>3, <3>1 DEF PREFIX
      <4> QED
        BY <3>1, <4>1, Zenon DEF decode_plaintext, end, n
    <3> QED
      <4> HIDE DEF keys
      <4> QED
        BY <3>1, <3>2 DEF Panic, Err, n, Good
  <2> QED
    BY <2>4, <2>5
<1> QED
  BY <1>1, <1>2, <1>3 DEF PREFIX

-----------------------------------------------------------------------------
(* The specification. *)

\* The inductive invariant: the plaintext is a byte string, and when it was sealed it is the
\* encoding of a key pair that has the lengths of its level.
SealedIsEncoded ==
  /\ data \in Seq(Byte)
  /\ \/ sealed = <<>>
     \/ \E level \in Level, keys \in KeyBytes :
          /\ sealed = <<[level |-> level, keys |-> keys]>>
          /\ into_keypair(level, keys).ok
          /\ data = encode_plaintext(keys)

\* What into_keypair accepts at a level has a length that fits the prefix.
LEMMA AcceptedLengths ==
  ASSUME NEW level \in Level, NEW keys \in KeyBytes, into_keypair(level, keys).ok
  PROVE  /\ Len(keys.public_key) \in 0..(U32 - PREFIX - 1)
         /\ into_keypair(level, keys) = Ok(keys)
<1>1. Len(keys.public_key) = Sizes[level].public_key /\ into_keypair(level, keys) = Ok(keys)
  BY DEF into_keypair, Err
<1> QED
  BY <1>1, CodecAssumption

\* A sealed key pair is encoded in every reachable state.
LEMMA SealedStaysEncoded == Spec => []SealedIsEncoded
<1>1. Init => SealedIsEncoded
  BY DEF Init, SealedIsEncoded
<1>2. SealedIsEncoded /\ [Next]_vars => SealedIsEncoded'
  <2> SUFFICES ASSUME SealedIsEncoded, [Next]_vars PROVE SealedIsEncoded'
    OBVIOUS
  <2>1. ASSUME NEW level \in Level,
               NEW pk \in [1..Sizes[level].public_key -> Byte],
               NEW sk \in [1..Sizes[level].private_key -> Byte], Encode(level, pk, sk)
        PROVE  SealedIsEncoded'
    <3> DEFINE keys == [public_key |-> pk, secret_key |-> sk]
    <3>1. keys \in KeyBytes
      <4>1. Sizes[level].public_key \in Nat /\ Sizes[level].private_key \in Nat
        BY CodecAssumption
      <4>2. pk \in Seq(Byte) /\ sk \in Seq(Byte)
        BY <4>1
      <4> QED
        BY <4>2 DEF KeyBytes, ByteStrings
    <3>2. /\ into_keypair(level, keys).ok /\ data' = encode_plaintext(keys)
          /\ sealed' = <<[level |-> level, keys |-> keys]>>
      BY <2>1 DEF Encode
    <3> HIDE DEF keys
    <3>3. encode_plaintext(keys) \in Seq(Byte)
      BY <3>1, <3>2, AcceptedLengths, DecodeOfEncode
    <3> QED
      BY <3>1, <3>2, <3>3 DEF SealedIsEncoded
  <2>2. ASSUME NEW b \in Byte, WriteByte(b) PROVE SealedIsEncoded'
    BY <2>2, AppendProperties DEF WriteByte, SealedIsEncoded
  <2>3. CASE Clear
    BY <2>3 DEF Clear, SealedIsEncoded
  <2>4. CASE UNCHANGED vars
    BY <2>4 DEF SealedIsEncoded, vars
  <2> QED
    BY <2>1, <2>2, <2>3, <2>4 DEF Next
<1> QED
  BY <1>1, <1>2, PTL DEF Spec

\* Whatever the width of a byte and of a usize: a plaintext is a byte string, and so are the
\* keys decoded from one (serial.rs:283-321).
THEOREM CodecTypes == Spec => []TypeOK
<1>1. SealedIsEncoded => TypeOK
  <2> SUFFICES ASSUME SealedIsEncoded PROVE TypeOK
    OBVIOUS
  <2>1. data \in ByteStrings
    BY DEF SealedIsEncoded, ByteStrings
  <2>2. sealed \in Seq([level : Level, keys : KeyBytes])
    <3>1. CASE sealed = <<>>
      BY <3>1
    <3>2. CASE \E level \in Level, keys \in KeyBytes :
                 sealed = <<[level |-> level, keys |-> keys]>>
      BY <3>2
    <3> QED
      BY <3>1, <3>2, Zenon DEF SealedIsEncoded
  <2> QED
    BY <2>1, <2>2, EncodeOfDecode DEF TypeOK, ByteStrings
<1> QED
  BY <1>1, SealedStaysEncoded, PTL

\* What was sealed at a level is unsealed at that level, byte for byte, for keys of any
\* lengths a prefix can hold (serial.rs:273-321).
THEOREM CodecRoundTrip == Spec => []RoundTrip
<1>1. SealedIsEncoded => RoundTrip
  <2> SUFFICES ASSUME SealedIsEncoded, sealed # <<>>
               PROVE  unseal_plaintext(sealed[1].level, data) = Ok(sealed[1].keys)
    BY DEF RoundTrip
  <2>1. PICK level \in Level, keys \in KeyBytes :
          /\ sealed = <<[level |-> level, keys |-> keys]>>
          /\ into_keypair(level, keys).ok
          /\ data = encode_plaintext(keys)
    BY DEF SealedIsEncoded
  <2>2. sealed[1].level = level /\ sealed[1].keys = keys
    BY <2>1
  <2>3. decode_plaintext(data) = Ok(keys) /\ into_keypair(level, keys) = Ok(keys)
    BY <2>1, AcceptedLengths, DecodeOfEncode
  <2>4. unseal_plaintext(level, data) = Ok(keys)
    BY <2>3 DEF unseal_plaintext, Ok
  <2> QED
    BY <2>2, <2>4
<1> QED
  BY <1>1, SealedStaysEncoded, PTL

\* No two plaintexts decode to the same keys: one that decodes is the encoding of the result,
\* whoever wrote it (serial.rs:283-321).
THEOREM CodecIsInjective == Spec => []DecodeIsInverse
<1>1. SealedIsEncoded => DecodeIsInverse
  BY EncodeOfDecode DEF SealedIsEncoded, DecodeIsInverse
<1> QED
  BY <1>1, SealedStaysEncoded, PTL

\* The addition at serial.rs:288 wraps only for a prefix that is the length of no public key,
\* on every target whose usize holds a u32.
THEOREM NoPanicOnSealed == Spec => []OnlyHugePrefixesPanic
<1>1. SealedIsEncoded => OnlyHugePrefixesPanic
  <2> SUFFICES ASSUME SealedIsEncoded, decode_plaintext(data) = Panic, NEW level \in Level
               PROVE  from_le_bytes(data) # Sizes[level].public_key
    BY DEF OnlyHugePrefixesPanic
  <2>1. from_le_bytes(data) \notin 0..(U32 - PREFIX - 1)
    BY EncodeOfDecode DEF SealedIsEncoded
  <2>2. Sizes[level].public_key \in 0..(U32 - PREFIX - 1)
    BY CodecAssumption
  <2> QED
    BY <2>1, <2>2
<1> QED
  BY <1>1, SealedStaysEncoded, PTL
=============================================================================
