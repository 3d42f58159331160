------------------------------ MODULE SerialProofs ------------------------------
(***************************************************************************)
(* Lemmas about the operators of Serial, for every key pair, passphrase    *)
(* and entropy: what sealing makes, and what comes out of a bundle whose   *)
(* ciphertext was made of a generated key pair, whatever else is in it.    *)
(***************************************************************************)
EXTENDS Serial, TLAPS

-----------------------------------------------------------------------------
(* Sizes and levels. *)

\* Nine levels and algorithms, nine sizes of a public key: the size gives both.
LEMMA SizesTellApart ==
  ASSUME NEW a1 \in Algo, NEW l1 \in SecurityLevel, NEW a2 \in Algo, NEW l2 \in SecurityLevel,
         SizeOf(a1, l1).public_key = SizeOf(a2, l2).public_key
  PROVE  a1 = a2 /\ l1 = l2
<1>1. /\ KemSizes["Level1"].public_key = 800 /\ DsaSizes["Level1"].public_key = 1312
      /\ KemSizes["Level3"].public_key = 1184 /\ DsaSizes["Level3"].public_key = 1952
      /\ KemSizes["Level5"].public_key = 1568 /\ DsaSizes["Level5"].public_key = 2592
  BY DEF KemSizes, DsaSizes
<1>2. /\ a1 \in {"kem", "dsa"} /\ l1 \in {"Level1", "Level3", "Level5"}
      /\ a2 \in {"kem", "dsa"} /\ l2 \in {"Level1", "Level3", "Level5"}
  BY DEF Algo, SecurityLevel
<1> QED
  BY <1>1, <1>2 DEF SizeOf

LEMMA SizesAreNumbers ==
  ASSUME NEW algo \in Algo, NEW level \in SecurityLevel
  PROVE  SizeOf(algo, level).public_key \in Nat /\ SizeOf(algo, level).private_key \in Nat
<1>1. CASE level = "Level1"
  BY <1>1 DEF SizeOf, KemSizes, DsaSizes
<1>2. CASE level = "Level3"
  BY <1>2 DEF SizeOf, KemSizes, DsaSizes
<1>3. CASE level = "Level5"
  BY <1>3 DEF SizeOf, KemSizes, DsaSizes
<1> QED
  BY <1>1, <1>2, <1>3 DEF SecurityLevel

\* The level in a header is read back as it was written.
LEMMA HeaderLevel ==
  ASSUME NEW level \in SecurityLevel
  PROVE  /\ level_to_u8(level) \in {1, 3, 5}
         /\ u8_to_level(level_to_u8(level)) = Ok(level)
<1>1. \/ level = "Level1" /\ level_to_u8(level) = 1
      \/ level = "Level3" /\ level_to_u8(level) = 3
      \/ level = "Level5" /\ level_to_u8(level) = 5
  BY DEF SecurityLevel, level_to_u8
<1>2. /\ u8_to_level(1) = Ok("Level1") /\ u8_to_level(3) = Ok("Level3")
      /\ u8_to_level(5) = Ok("Level5")
  BY DEF u8_to_level
<1> QED
  BY <1>1, <1>2

\* And what is read from a header is written as it was.
LEMMA HeaderNumber ==
  ASSUME NEW n, u8_to_level(n).ok
  PROVE  u8_to_level(n).val \in SecurityLevel /\ level_to_u8(u8_to_level(n).val) = n
<1>1. n = 1 \/ n = 3 \/ n = 5
  BY DEF u8_to_level, Err
<1> QED
  BY <1>1 DEF SecurityLevel, level_to_u8, u8_to_level, Ok

-----------------------------------------------------------------------------
(* Sealing. *)

\* The key pair generate returns, by field.
LEMMA GeneratedKeyPair ==
  ASSUME NEW algo \in Algo, NEW level, NEW id
  PROVE  LET kp == generate(algo, level, id)
             k  == KeyOf(algo, level, id)
         IN  /\ kp = [algo |-> algo, level |-> level,
                      pk_bytes |-> PkBytes(k), sk_bytes |-> SkBytes(k)]
             /\ PkBytes(k) = [tag |-> "pk", key |-> k, len |-> SizeOf(algo, level).public_key]
             /\ SkBytes(k) = [tag |-> "sk", key |-> k, len |-> SizeOf(algo, level).private_key]
<1> DEFINE kp == generate(algo, level, id)
           k  == KeyOf(algo, level, id)
<1>1. k.algo = algo /\ k.level = level
  BY DEF KeyOf
<1>2. kp = [algo |-> algo, level |-> level, pk_bytes |-> PkBytes(k), sk_bytes |-> SkBytes(k)]
  BY DEF generate, kem_generate, dsa_generate, Algo
<1> HIDE DEF k
<1>3. /\ PkBytes(k) = [tag |-> "pk", key |-> k, len |-> SizeOf(algo, level).public_key]
      /\ SkBytes(k) = [tag |-> "sk", key |-> k, len |-> SizeOf(algo, level).private_key]
  BY <1>1 DEF PkBytes, SkBytes
<1> QED
  BY <1>2, <1>3 DEF k

\* What a bundle is made of, by field.
LEMMA SealedBundle ==
  ASSUME NEW kp, NEW pass, NEW n \in Nat
  PROVE  seal(kp, pass, n) =
           [version |-> BUNDLE_VERSION, kind |-> kp.algo, level |-> level_to_u8(kp.level),
            salt |-> HexField(16, n), nonce |-> HexField(NONCE, n),
            ciphertext |->
              [hex |-> TRUE, authentic |-> TRUE,
               data |-> [pk_len |-> kp.pk_bytes.len, pk |-> kp.pk_bytes, sk |-> kp.sk_bytes],
               key |-> [pass |-> pass, salt_len |-> 16, salt |-> n], nonce |-> n]]
<1>1. derive_key(pass, HexField(16, n)).val = [pass |-> pass, salt_len |-> 16, salt |-> n]
  BY DEF derive_key, HexField, MIN_SALT, Ok
<1>2. encode_plaintext(export(kp))
        = [pk_len |-> kp.pk_bytes.len, pk |-> kp.pk_bytes, sk |-> kp.sk_bytes]
  BY DEF encode_plaintext, export
<1>3. HexField(NONCE, n).val = n
  BY DEF HexField
<1> QED
  BY <1>1, <1>2, <1>3 DEF seal, encrypt

\* The keys in a plaintext are found where they were put.
LEMMA DecodeSealed ==
  ASSUME NEW pk, NEW sk, pk.len \in Nat, sk.len \in Nat
  PROVE  decode_plaintext([pk_len |-> pk.len, pk |-> pk, sk |-> sk]) = Ok([pk |-> pk, sk |-> sk])
<1> DEFINE d == [pk_len |-> pk.len, pk |-> pk, sk |-> sk]
<1>1. d.pk_len = pk.len /\ d.pk = pk /\ d.sk = sk
  OBVIOUS
<1> HIDE DEF d
<1>2. ~(PlaintextLen(d) < 4 + d.pk_len)
  BY <1>1 DEF PlaintextLen
<1>3. decode_plaintext(d) = Ok([pk |-> pk, sk |-> sk])
  BY <1>1, <1>2 DEF decode_plaintext
<1> QED
  BY <1>3 DEF d

\* Keys are accepted only as those of the level their lengths are of.
LEMMA IntoKeyPair ==
  ASSUME NEW algo \in Algo, NEW level, NEW pk, NEW sk
  PROVE  LET r == into_keypair(algo, level, pk, sk)
         IN  /\ r.ok <=> /\ pk.len = SizeOf(algo, level).public_key
                         /\ sk.len = SizeOf(algo, level).private_key
             /\ r.ok => r = Ok([algo |-> algo, level |-> level, pk_bytes |-> pk, sk_bytes |-> sk])
<1>1. CASE algo = "kem"
  BY <1>1 DEF into_keypair, kem_from_bytes, SizeOf, Ok, Err
<1>2. CASE algo # "kem"
  BY <1>2 DEF into_keypair, dsa_from_bytes, SizeOf, Ok, Err, Algo
<1> QED
  BY <1>1, <1>2

\* What decrypts is authentic, of the key and the nonce it was encrypted with.
LEMMA DecryptOpens ==
  ASSUME NEW b, NEW pass
  PROVE  LET ct == b.ciphertext
             d  == decrypt(b, pass)
         IN  d.ok => /\ d = Ok(ct.data)
                     /\ ct.key = [pass |-> pass, salt_len |-> b.salt.len, salt |-> b.salt.val]
<1> DEFINE d == decrypt(b, pass)
           k == derive_key(pass, b.salt)
<1> SUFFICES ASSUME d.ok
             PROVE  /\ d = Ok(b.ciphertext.data)
                    /\ b.ciphertext.key
                         = [pass |-> pass, salt_len |-> b.salt.len, salt |-> b.salt.val]
  OBVIOUS
<1>1. k.ok /\ b.ciphertext.key = k.val /\ d = Ok(b.ciphertext.data)
  BY DEF decrypt, Err, Panic
<1>2. k = Ok([pass |-> pass, salt_len |-> b.salt.len, salt |-> b.salt.val])
  BY <1>1 DEF derive_key, Err
<1> QED
  BY <1>1, <1>2 DEF Ok

-----------------------------------------------------------------------------
(* Unsealing. *)

\* The ciphertext is one made of this key pair under this passphrase.
CiphertextOf(ct, kp, pass) ==
  /\ ct.data = [pk_len |-> kp.pk_bytes.len, pk |-> kp.pk_bytes, sk |-> kp.sk_bytes]
  /\ ct.key.pass = pass

\* A bundle with that ciphertext, whatever else is in it, gives that key pair or nothing.
LEMMA OpensToWhatItIsOf ==
  ASSUME NEW a1 \in Algo, NEW l1 \in SecurityLevel, NEW id \in Nat, NEW sealed, NEW b,
         CiphertextOf(b.ciphertext, generate(a1, l1, id), sealed),
         NEW algo \in Algo, NEW pass, unseal(b, algo, pass).ok
  PROVE  /\ unseal(b, algo, pass).val = generate(a1, l1, id)
         /\ pass = sealed /\ a1 = algo
         /\ b.kind = algo /\ b.level = level_to_u8(l1) /\ u8_to_level(b.level).ok
<1> DEFINE kp    == generate(a1, l1, id)
           data  == decrypt(b, pass)
           level == u8_to_level(b.level)
           keys  == decode_plaintext(data.val)
           r     == into_keypair(algo, level.val, keys.val.pk, keys.val.sk)
<1>1. b.kind = algo /\ level.ok /\ data.ok /\ keys.ok /\ unseal(b, algo, pass) = r
  BY Zenon DEF unseal, Err
<1>2. /\ data.val = b.ciphertext.data
      /\ b.ciphertext.key = [pass |-> pass, salt_len |-> b.salt.len, salt |-> b.salt.val]
  BY <1>1, DecryptOpens DEF Ok
<1>3. pass = sealed
  BY <1>2 DEF CiphertextOf
<1>4. /\ kp.pk_bytes.len = SizeOf(a1, l1).public_key /\ kp.pk_bytes.len \in Nat
      /\ kp.sk_bytes.len = SizeOf(a1, l1).private_key /\ kp.sk_bytes.len \in Nat
      /\ kp = [algo |-> a1, level |-> l1, pk_bytes |-> kp.pk_bytes, sk_bytes |-> kp.sk_bytes]
  BY GeneratedKeyPair, SizesAreNumbers
<1> HIDE DEF kp
<1>5. b.ciphertext.data = [pk_len |-> kp.pk_bytes.len, pk |-> kp.pk_bytes, sk |-> kp.sk_bytes]
  BY DEF CiphertextOf, kp
<1>6. keys = Ok([pk |-> kp.pk_bytes, sk |-> kp.sk_bytes])
  BY <1>2, <1>4, <1>5, DecodeSealed
<1>7. keys.val.pk = kp.pk_bytes /\ keys.val.sk = kp.sk_bytes
  BY <1>6 DEF Ok
<1>8. level.val \in SecurityLevel /\ level_to_u8(level.val) = b.level
  BY <1>1, HeaderNumber
<1> HIDE DEF keys, level, data
<1>9. r.ok
  BY <1>1
<1>10. /\ r = Ok([algo |-> algo, level |-> level.val,
                  pk_bytes |-> kp.pk_bytes, sk_bytes |-> kp.sk_bytes])
       /\ kp.pk_bytes.len = SizeOf(algo, level.val).public_key
  BY <1>7, <1>9, IntoKeyPair
<1>11. a1 = algo /\ l1 = level.val
  <2>1. SizeOf(a1, l1).public_key = SizeOf(algo, level.val).public_key
    BY <1>4, <1>10
  <2> QED
    BY <1>8, <2>1, SizesTellApart
<1>12. r.val = kp
  BY <1>4, <1>10, <1>11 DEF Ok
<1> QED
  BY <1>1, <1>3, <1>8, <1>11, <1>12 DEF kp, level

\* An untouched bundle opens with its passphrase and its kind.
LEMMA UntouchedGives ==
  ASSUME NEW a1 \in Algo, NEW l1 \in SecurityLevel, NEW id \in Nat, NEW pass, NEW n \in Nat
  PROVE  unseal(seal(generate(a1, l1, id), pass, n), a1, pass).ok
<1> DEFINE kp == generate(a1, l1, id)
           b  == seal(kp, pass, n)
           data  == decrypt(b, pass)
           level == u8_to_level(b.level)
           keys  == decode_plaintext(data.val)
<1>1. /\ kp.pk_bytes.len = SizeOf(a1, l1).public_key /\ kp.pk_bytes.len \in Nat
      /\ kp.sk_bytes.len = SizeOf(a1, l1).private_key /\ kp.sk_bytes.len \in Nat
      /\ kp.algo = a1 /\ kp.level = l1
  BY GeneratedKeyPair, SizesAreNumbers
<1> HIDE DEF kp
<1> DEFINE plain == [pk_len |-> kp.pk_bytes.len, pk |-> kp.pk_bytes, sk |-> kp.sk_bytes]
<1>2. /\ b.version = BUNDLE_VERSION /\ b.kind = a1 /\ b.level = level_to_u8(l1)
      /\ b.salt.hex /\ b.salt.len = 16 /\ b.salt.val = n
      /\ b.nonce.hex /\ b.nonce.len = NONCE /\ b.nonce.val = n
      /\ b.ciphertext.hex /\ b.ciphertext.authentic /\ b.ciphertext.data = plain
      /\ b.ciphertext.key = [pass |-> pass, salt_len |-> 16, salt |-> n]
      /\ b.ciphertext.nonce = n
  BY <1>1, SealedBundle DEF HexField
<1> HIDE DEF b
<1>3. derive_key(pass, b.salt) = Ok([pass |-> pass, salt_len |-> 16, salt |-> n])
  BY <1>2 DEF derive_key, MIN_SALT
<1>4. data = Ok(plain)
  BY <1>2, <1>3 DEF decrypt, Ok
<1>5. keys = Ok([pk |-> kp.pk_bytes, sk |-> kp.sk_bytes])
  BY <1>1, <1>4, DecodeSealed DEF Ok
<1>6. level = Ok(l1)
  BY <1>2, HeaderLevel
<1>7. /\ data.ok /\ keys.ok /\ level.ok /\ level.val = l1
      /\ keys.val.pk = kp.pk_bytes /\ keys.val.sk = kp.sk_bytes
  BY <1>4, <1>5, <1>6 DEF Ok
<1> HIDE DEF data, keys, level
<1>8. unseal(b, a1, pass) = into_keypair(a1, l1, kp.pk_bytes, kp.sk_bytes)
  BY <1>2, <1>7 DEF unseal, data, keys, level
<1>9. into_keypair(a1, l1, kp.pk_bytes, kp.sk_bytes).ok
  BY <1>1, IntoKeyPair
<1> QED
  BY <1>8, <1>9 DEF b, kp
=============================================================================
