----------------------------- MODULE HybridProofs -----------------------------
(***************************************************************************)
(* Theorems about Hybrid, for any holders and levels and any number of     *)
(* draws, changes and deliveries: when both ends of an exchange agree,     *)
(* when a ciphertext is refused, and that it implements VaultService.      *)
(***************************************************************************)
EXTENDS Hybrid, TLAPS

-----------------------------------------------------------------------------
(* The operators. *)

\* The Kyber key of the hybrid key pair drawn as n.
KyberKey(level, n) == KeyOf("kem", level, n)

\* What one encapsulation to pub records.
Encapsulation(pub, n) ==
  [pub |-> pub, n |-> n, ct |-> hybrid_encapsulate(pub, n).val.ct,
   secret |-> hybrid_encapsulate(pub, n).val.secret]

\* What the holder of kp makes of a wire.
Answer(kp, w) ==
  IF from_hex(w).ok THEN hybrid_decapsulate(kp, from_hex(w).val) ELSE from_hex(w)

\* A generated key pair, field by field.
LEMMA GeneratedFields ==
  ASSUME NEW level \in Level, NEW n \in Nat
  PROVE  LET kp == hybrid_generate(level, n)
             k  == KyberKey(level, n)
         IN  /\ kp \in HybridKeyPair
             /\ kp.x25519_secret = n /\ kp.x25519_public = X25519Bytes(n)
             /\ kp.kyber.algo = "kem" /\ kp.kyber.level = level
             /\ kp.kyber.pk_bytes = PkBytes(k) /\ kp.kyber.sk_bytes = SkBytes(k)
             /\ PkBytes(k).len = KemSizes[level].public_key
             /\ SkBytes(k).len = KemSizes[level].private_key
             /\ PkBytes(k) \in KyberPk
<1> DEFINE k == KyberKey(level, n)
<1>1. KemSizes[level].public_key \in Nat /\ KemSizes[level].private_key \in Nat
  BY HybridAssumption DEF KemSizes, SecurityLevel
<1>2. k \in Key /\ k.algo = "kem" /\ k.level = level
  BY DEF KyberKey, KeyOf, Key
<1>3. /\ PkBytes(k) = [tag |-> "pk", key |-> k, len |-> KemSizes[level].public_key]
      /\ SkBytes(k) = [tag |-> "sk", key |-> k, len |-> KemSizes[level].private_key]
  BY <1>2 DEF PkBytes, SkBytes, SizeOf
<1>4. PkBytes(k) \in KyberPk /\ SkBytes(k) \in [tag : {"sk"}, key : Key, len : Nat]
  BY <1>1, <1>2, <1>3 DEF KyberPk
<1>5. X25519Bytes(n) \in X25519Public
  BY DEF X25519Bytes, X25519Public
<1>6. hybrid_generate(level, n)
        = [x25519_secret |-> n, x25519_public |-> X25519Bytes(n),
           kyber |-> [algo |-> "kem", level |-> level,
                      pk_bytes |-> PkBytes(k), sk_bytes |-> SkBytes(k)]]
  BY DEF hybrid_generate, kem_generate, KyberKey
<1> HIDE DEF k
<1>7. hybrid_generate(level, n) \in HybridKeyPair
  BY <1>4, <1>5, <1>6 DEF HybridKeyPair
<1> QED
  BY <1>3, <1>4, <1>6, <1>7 DEF k

\* Its public key.
LEMMA PublicKeyFields ==
  ASSUME NEW level \in Level, NEW n \in Nat
  PROVE  /\ hybrid_public_key(hybrid_generate(level, n))
              = [x25519 |-> X25519Bytes(n),
                 kyber |-> [algo |-> "kem", level |-> level,
                            bytes |-> PkBytes(KyberKey(level, n))]]
         /\ hybrid_public_key(hybrid_generate(level, n)) \in HybridPublicKey
<1>1. hybrid_public_key(hybrid_generate(level, n))
        = [x25519 |-> X25519Bytes(n),
           kyber |-> [algo |-> "kem", level |-> level,
                      bytes |-> PkBytes(KyberKey(level, n))]]
  BY DEF hybrid_public_key, public_key, hybrid_generate, kem_generate, KyberKey
<1>2. X25519Bytes(n) \in X25519Public
  BY DEF X25519Bytes, X25519Public
<1>3. PkBytes(KyberKey(level, n)) \in KyberPk
  BY GeneratedFields
<1> QED
  BY <1>1, <1>2, <1>3 DEF HybridPublicKey

\* Encapsulating to the public key of a generated key pair never fails.
LEMMA EncapsulateToGenerated ==
  ASSUME NEW level \in Level, NEW k \in Nat, NEW n \in Nat
  PROVE  LET pub == hybrid_public_key(hybrid_generate(level, k))
             pk  == PkBytes(KyberKey(level, k))
             enc == hybrid_encapsulate(pub, n)
         IN  /\ enc.ok
             /\ enc.val.ct = [x25519_ephemeral |-> X25519Bytes(n),
                              kyber_ct |-> CtBytes(pk, level, n)]
             /\ enc.val.secret = [x25519 |-> [tag |-> "shared", secrets |-> {n, k}],
                                  kyber |-> SsBytes(pk, n)]
<1> DEFINE pub == hybrid_public_key(hybrid_generate(level, k))
           pk  == PkBytes(KyberKey(level, k))
           kem == encapsulate(pub.kyber, n)
<1>1. /\ pub.x25519 = X25519Bytes(k)
      /\ pub.kyber.level = level /\ pub.kyber.bytes = pk
  BY PublicKeyFields
<1>2. pk.len = KemSizes[level].public_key
  BY GeneratedFields
<1> HIDE DEF pub, pk
<1>3. kem = Ok([ct |-> CtBytes(pk, level, n), secret |-> SsBytes(pk, n)])
  BY <1>1, <1>2 DEF encapsulate
<1>4. kem.ok /\ kem.val.ct = CtBytes(pk, level, n) /\ kem.val.secret = SsBytes(pk, n)
  BY <1>3 DEF Ok
<1>5. diffie_hellman(n, pub.x25519) = [tag |-> "shared", secrets |-> {n, k}]
  BY <1>1 DEF diffie_hellman, X25519Bytes
<1> HIDE DEF kem
<1>6. hybrid_encapsulate(pub, n)
        = Ok([ct |-> [x25519_ephemeral |-> X25519Bytes(n), kyber_ct |-> CtBytes(pk, level, n)],
              secret |-> [x25519 |-> [tag |-> "shared", secrets |-> {n, k}],
                          kyber |-> SsBytes(pk, n)]])
  BY <1>4, <1>5 DEF hybrid_encapsulate, combine_secrets, kem
<1> QED
  BY <1>6 DEF Ok, pub, pk

\* What a wire reads as: an error for its text or its length, its two parts, or bytes that are
\* the parts of nothing.
LEMMA WireReads ==
  ASSUME NEW w \in WireType
  PROVE  LET ct == from_hex(w)
         IN  /\ WireLen(w) \in Nat
             /\ ct.ok <=> w.text # "broken" /\ WireLen(w) > X25519_PUBLIC_KEY_LEN
             /\ ct.ok => IF w.x25519.len = X25519_PUBLIC_KEY_LEN
                           THEN ct.val = [x25519_ephemeral |-> w.x25519, kyber_ct |-> w.kyber]
                           ELSE /\ ct.val.x25519_ephemeral.tag = "junk"
                                /\ ct.val.kyber_ct.tag = "junk"
             /\ ct.ok => ct.val.kyber_ct.len = WireLen(w) - X25519_PUBLIC_KEY_LEN
<1> DEFINE n  == WireLen(w)
           ct == from_hex(w)
<1>1. w.x25519.len \in Nat /\ w.kyber.len \in Nat
  <2>1. w.x25519 \in X25519Public \cup JunkString /\ w.kyber \in KyberCt \cup JunkString
    BY DEF WireType
  <2>2. \A p \in X25519Public : p.len \in Nat
    BY DEF X25519Public, X25519_PUBLIC_KEY_LEN
  <2>3. \A p \in KyberCt : p.len \in Nat
    BY DEF KyberCt
  <2>4. \A p \in JunkString : p.len \in Nat
    BY DEF JunkString
  <2> QED
    BY <2>1, <2>2, <2>3, <2>4
<1>2. n = w.x25519.len + w.kyber.len /\ n \in Nat
  BY <1>1 DEF WireLen
<1> HIDE DEF n, ct
<1>3. CASE w.text = "broken" \/ n <= X25519_PUBLIC_KEY_LEN
  <2>1. ct = Err("InvalidCiphertext")
    BY <1>3 DEF from_hex, n, ct
  <2> QED
    BY <1>2, <1>3, <2>1 DEF Err, X25519_PUBLIC_KEY_LEN, n, ct
<1>4. CASE ~ (w.text = "broken" \/ n <= X25519_PUBLIC_KEY_LEN)
  <2>1. CASE w.x25519.len = X25519_PUBLIC_KEY_LEN
    <3>1. ct = Ok([x25519_ephemeral |-> w.x25519, kyber_ct |-> w.kyber])
      BY <1>4, <2>1 DEF from_hex, n, ct
    <3>2. /\ ct.ok /\ ct.val = [x25519_ephemeral |-> w.x25519, kyber_ct |-> w.kyber]
          /\ ct.val.kyber_ct.len = w.kyber.len
      BY <3>1 DEF Ok
    <3>3. w.kyber.len = n - X25519_PUBLIC_KEY_LEN
      BY <1>1, <1>2, <2>1 DEF X25519_PUBLIC_KEY_LEN
    <3>4. w.text # "broken" /\ n > X25519_PUBLIC_KEY_LEN
      BY <1>2, <1>4 DEF X25519_PUBLIC_KEY_LEN
    <3> HIDE DEF n, ct
    <3> QED
      BY <1>2, <2>1, <3>2, <3>3, <3>4, Zenon DEF n, ct
  <2>2. CASE w.x25519.len # X25519_PUBLIC_KEY_LEN
    <3>1. ct = Ok([x25519_ephemeral |-> Junk(X25519_PUBLIC_KEY_LEN),
                   kyber_ct |-> Junk(n - X25519_PUBLIC_KEY_LEN)])
      BY <1>4, <2>2 DEF from_hex, n, ct
    <3>2. /\ ct.ok
          /\ ct.val.x25519_ephemeral.tag = "junk" /\ ct.val.kyber_ct.tag = "junk"
          /\ ct.val.kyber_ct.len = n - X25519_PUBLIC_KEY_LEN
      BY <3>1 DEF Ok, Junk
    <3> QED
      BY <1>2, <1>4, <2>2, <3>2 DEF X25519_PUBLIC_KEY_LEN, n, ct
  <2> QED
    BY <2>1, <2>2
<1> QED
  BY <1>3, <1>4

\* When the holder of a generated key pair gets a secret, and which.
LEMMA AnswerOfGenerated ==
  ASSUME NEW level \in Level, NEW k \in Nat, NEW w \in WireType
  PROVE  LET kp == hybrid_generate(level, k)
             ct == from_hex(w).val
             a  == Answer(kp, w)
         IN  /\ a.ok <=> /\ w.text # "broken"
                         /\ WireLen(w) = X25519_PUBLIC_KEY_LEN + KemSizes[level].product
             /\ a.ok => /\ from_hex(w).ok
                        /\ a.val = [x25519 |-> diffie_hellman(k, ct.x25519_ephemeral),
                                    kyber |-> kyber_decapsulate(ct.kyber_ct,
                                                                SkBytes(KyberKey(level, k)))]
<1> DEFINE kp == hybrid_generate(level, k)
           ct == from_hex(w).val
           sk == SkBytes(KyberKey(level, k))
           kem == decapsulate(kp.kyber, ct.kyber_ct)
           a  == Answer(kp, w)
           size == KemSizes[level].product
<1>1. size \in Nat /\ size > 0
  BY HybridAssumption DEF KemSizes, SecurityLevel
<1>2. /\ kp.x25519_secret = k /\ kp.kyber.level = level /\ kp.kyber.sk_bytes = sk
      /\ sk.len = KemSizes[level].private_key
  BY GeneratedFields
<1>3. /\ WireLen(w) \in Nat
      /\ from_hex(w).ok <=> w.text # "broken" /\ WireLen(w) > X25519_PUBLIC_KEY_LEN
      /\ from_hex(w).ok => ct.kyber_ct.len = WireLen(w) - X25519_PUBLIC_KEY_LEN
  BY WireReads
<1> HIDE DEF kp, ct, sk
<1>4. CASE ~ from_hex(w).ok
  <2>1. a = from_hex(w)
    BY <1>4 DEF Answer
  <2> QED
    BY <1>1, <1>3, <1>4, <2>1 DEF X25519_PUBLIC_KEY_LEN, kp
<1>5. CASE from_hex(w).ok /\ ct.kyber_ct.len # size
  <2>1. kem = Err("InvalidCiphertext")
    BY <1>2, <1>5 DEF decapsulate
  <2>2. ~ kem.ok
    BY <2>1 DEF Err
  <2>3. a = kem
    BY <1>5, <2>2 DEF Answer, hybrid_decapsulate, ct
  <2>4. WireLen(w) # X25519_PUBLIC_KEY_LEN + size
    BY <1>1, <1>3, <1>5 DEF X25519_PUBLIC_KEY_LEN
  <2> HIDE DEF a, kem, size
  <2>5. ~ a.ok
    BY <2>2, <2>3
  <2> QED
    BY <2>4, <2>5 DEF kp, size, a
<1>6. CASE from_hex(w).ok /\ ct.kyber_ct.len = size
  <2>1. kem = Ok(kyber_decapsulate(ct.kyber_ct, sk))
    BY <1>2, <1>6 DEF decapsulate
  <2>2. kem.ok /\ kem.val = kyber_decapsulate(ct.kyber_ct, sk)
    BY <2>1 DEF Ok
  <2>3. a = Ok([x25519 |-> diffie_hellman(k, ct.x25519_ephemeral),
                kyber |-> kyber_decapsulate(ct.kyber_ct, sk)])
    BY <1>2, <1>6, <2>2 DEF Answer, hybrid_decapsulate, combine_secrets, ct
  <2>4. w.text # "broken" /\ WireLen(w) = X25519_PUBLIC_KEY_LEN + size
    BY <1>1, <1>3, <1>6 DEF X25519_PUBLIC_KEY_LEN
  <2> HIDE DEF a, kem, size
  <2>5. a.ok /\ a.val = [x25519 |-> diffie_hellman(k, ct.x25519_ephemeral),
                         kyber |-> kyber_decapsulate(ct.kyber_ct, sk)]
    BY <2>3 DEF Ok
  <2> QED
    BY <1>6, <2>4, <2>5 DEF kp, size, a, ct, sk
<1> QED
  BY <1>4, <1>5, <1>6

\* A secret that an encapsulation made comes only out of a wire whose two parts are those of
\* one with the same entropy, to the Kyber key of the holder.
LEMMA SecretComesFrom ==
  ASSUME NEW level \in Level, NEW k \in Nat, NEW w \in WireType, NEW secrets, NEW pk, NEW n,
         Answer(hybrid_generate(level, k), w).ok,
         Answer(hybrid_generate(level, k), w).val
           = [x25519 |-> [tag |-> "shared", secrets |-> secrets], kyber |-> SsBytes(pk, n)]
  PROVE  /\ w.text # "broken"
         /\ w.x25519.tag = "x25519" /\ {k, w.x25519.secret} = secrets
         /\ w.kyber.tag = "ct" /\ w.kyber.rnd = n
         /\ w.kyber.pk = pk /\ pk = PkBytes(KyberKey(level, k))
<1> DEFINE ct == from_hex(w).val
           sk == SkBytes(KyberKey(level, k))
<1>1. /\ w.text # "broken" /\ from_hex(w).ok
      /\ diffie_hellman(k, ct.x25519_ephemeral) = [tag |-> "shared", secrets |-> secrets]
      /\ kyber_decapsulate(ct.kyber_ct, sk) = SsBytes(pk, n)
  <2> DEFINE a == Answer(hybrid_generate(level, k), w)
             f == diffie_hellman(k, ct.x25519_ephemeral)
             g == kyber_decapsulate(ct.kyber_ct, sk)
  <2>1. a.ok /\ a.val = [x25519 |-> [tag |-> "shared", secrets |-> secrets],
                        kyber |-> SsBytes(pk, n)]
    OBVIOUS
  <2>2. a.ok <=> /\ w.text # "broken"
                 /\ WireLen(w) = X25519_PUBLIC_KEY_LEN + KemSizes[level].product
    BY AnswerOfGenerated
  <2>3. a.ok => from_hex(w).ok /\ a.val = [x25519 |-> f, kyber |-> g]
    BY AnswerOfGenerated
  <2> HIDE DEF a, f, g
  <2>4. w.text # "broken" /\ from_hex(w).ok /\ a.val = [x25519 |-> f, kyber |-> g]
    BY <2>1, <2>2, <2>3
  <2>5. f = [tag |-> "shared", secrets |-> secrets] /\ g = SsBytes(pk, n)
    BY <2>1, <2>4
  <2> QED
    BY <2>4, <2>5 DEF f, g
<1> HIDE DEF ct
<1>2. sk.key = KyberKey(level, k)
  BY DEF SkBytes
<1> HIDE DEF sk
<1>3. /\ ct.kyber_ct.tag = "ct" /\ ct.kyber_ct.pk = PkBytes(KyberKey(level, k))
      /\ SsBytes(ct.kyber_ct.pk, ct.kyber_ct.rnd) = SsBytes(pk, n)
  BY <1>1, <1>2 DEF kyber_decapsulate, SsBytes
<1>4. ct.kyber_ct.pk = pk /\ ct.kyber_ct.rnd = n
  BY <1>3 DEF SsBytes
<1>5. ct.x25519_ephemeral.tag = "x25519" /\ {k, ct.x25519_ephemeral.secret} = secrets
  BY <1>1 DEF diffie_hellman
<1>6. ct = [x25519_ephemeral |-> w.x25519, kyber_ct |-> w.kyber]
  BY <1>1, <1>3, WireReads DEF ct
<1> QED
  BY <1>1, <1>3, <1>4, <1>5, <1>6

-----------------------------------------------------------------------------
(* The inductive invariant. *)

\* Every key pair was drawn before.
KeysAreDrawn ==
  \A kp \in generated :
    \E level \in Level, k \in Nat : k < draws /\ kp = hybrid_generate(level, k)

\* Nobody encapsulates to anything but the public key of a key pair.
AnnouncedAreKeys ==
  \A pub \in announced : \E kp \in generated : pub = hybrid_public_key(kp)

\* Every encapsulation was made to such a key, with entropy drawn before.
MadeForKeys ==
  \A m \in made :
    \E level \in Level, k \in Nat, n \in Nat :
      n < draws /\ m = Encapsulation(hybrid_public_key(hybrid_generate(level, k)), n)

\* The network does not make up the Kyber part of a ciphertext: a Kyber part that is one is
\* that of an encapsulation.
WiresAreMade ==
  \A w \in net : w.kyber.tag = "ct" => \E m \in made : w.kyber = m.ct.kyber_ct

\* This is the answer of a key pair to a wire.
Computed(a) == a.kp \in generated /\ a.wire \in net /\ a.result = Answer(a.kp, a.wire)

AnswersAreComputed == \A a \in answers : Computed(a)

IInv ==
  /\ TypeOK
  /\ DOMAIN keypair = Holder
  /\ KeysAreDrawn
  /\ AnnouncedAreKeys
  /\ MadeForKeys
  /\ WiresAreMade
  /\ AnswersAreComputed

\* It holds at the start.
LEMMA InitIInv == Init => IInv
<1> SUFFICES ASSUME Init PROVE IInv
  OBVIOUS
<1>1. TypeOK
  BY HybridAssumption DEF Init, TypeOK
<1> QED
  BY <1>1 DEF Init, IInv, KeysAreDrawn, AnnouncedAreKeys, MadeForKeys, WiresAreMade,
              AnswersAreComputed, Computed

\* Drawing a key pair keeps it.
LEMMA GenerateIInv ==
  ASSUME IInv, NEW h \in Holder, NEW level \in Level, Generate(h, level)
  PROVE  IInv'
<1> DEFINE kp == hybrid_generate(level, draws)
<1>1. draws \in Nat /\ draws < MaxDraws /\ draws' = draws + 1
  BY DEF IInv, TypeOK, Generate
<1>2. keypair' = [keypair EXCEPT ![h] = <<kp>>] /\ generated' = generated \cup {kp}
  BY DEF Generate
<1>3. UNCHANGED <<announced, net, made, answers, changes>>
  BY DEF Generate
<1>4. kp \in HybridKeyPair /\ kp.x25519_secret = draws
  BY <1>1, GeneratedFields
<1>5. KeysAreDrawn'
  BY <1>1, <1>2 DEF IInv, KeysAreDrawn
<1> HIDE DEF kp
<1>6. DOMAIN keypair' = Holder
  BY <1>2 DEF IInv
<1>7. TypeOK'
  <2>1. draws' \in 0..MaxDraws /\ changes' \in 0..MaxChanges
    BY <1>1, <1>3, HybridAssumption DEF IInv, TypeOK
  <2>2. ASSUME NEW g \in Holder, keypair'[g] # <<>> PROVE keypair'[g][1] \in generated'
    <3>1. CASE g = h
      BY <1>2, <3>1 DEF IInv
    <3>2. CASE g # h
      BY <1>2, <2>2, <3>2 DEF IInv, TypeOK
    <3> QED
      BY <3>1, <3>2
  <2>3. generated' \subseteq HybridKeyPair
    BY <1>2, <1>4 DEF IInv, TypeOK
  <2>4. ASSUME NEW m \in made, NEW g \in generated' PROVE m.n # g.x25519_secret
    <3>1. CASE g \in generated
      BY <3>1 DEF IInv, TypeOK
    <3>2. CASE g = kp
      <4>1. m.n \in Nat /\ m.n < draws
        BY <1>1 DEF IInv, MadeForKeys, Encapsulation
      <4> QED
        BY <1>1, <1>4, <3>2, <4>1
    <3> QED
      BY <1>2, <3>1, <3>2
  <2> QED
    BY <1>3, <2>1, <2>2, <2>3, <2>4 DEF IInv, TypeOK
<1>8. MadeForKeys'
  <2>1. \A n \in Nat : n < draws => n < draws'
    BY <1>1
  <2> QED
    BY <1>3, <2>1 DEF IInv, MadeForKeys
<1>9. AnswersAreComputed'
  BY <1>2, <1>3 DEF IInv, AnswersAreComputed, Computed
<1> QED
  BY <1>2, <1>3, <1>5, <1>6, <1>7, <1>8, <1>9 DEF IInv, AnnouncedAreKeys, WiresAreMade

\* Handing out a public key keeps it.
LEMMA AnnounceIInv ==
  ASSUME IInv, NEW h \in Holder, Announce(h)
  PROVE  IInv'
<1> DEFINE kp  == keypair[h][1]
           pub == hybrid_public_key(kp)
<1>1. kp \in generated /\ announced' = announced \cup {pub}
  BY DEF Announce, IInv, TypeOK
<1>2. UNCHANGED <<keypair, generated, net, made, answers, draws, changes>>
  BY DEF Announce
<1>3. PICK level \in Level, k \in Nat : kp = hybrid_generate(level, k)
  BY <1>1 DEF IInv, KeysAreDrawn
<1> HIDE DEF kp
<1>4. pub = hybrid_public_key(kp) /\ pub \in HybridPublicKey
  BY <1>3, PublicKeyFields
<1> HIDE DEF pub
<1>5. TypeOK'
  BY <1>1, <1>2, <1>4 DEF IInv, TypeOK
<1>6. AnnouncedAreKeys'
  BY <1>1, <1>2, <1>4 DEF IInv, AnnouncedAreKeys
<1> QED
  BY <1>2, <1>5, <1>6
     DEF IInv, KeysAreDrawn, MadeForKeys, WiresAreMade, AnswersAreComputed, Computed

\* Encapsulating and sending keeps it.
LEMMA SendIInv ==
  ASSUME IInv, NEW pub \in announced, Send(pub)
  PROVE  IInv'
<1> DEFINE m == Encapsulation(pub, draws)
           w == to_hex(m.ct)
<1>1. draws \in Nat /\ draws < MaxDraws /\ draws' = draws + 1
  BY DEF IInv, TypeOK, Send
<1>2. net' = net \cup {w} /\ made' = made \cup {m}
  BY DEF Send, Encapsulation
<1>3. UNCHANGED <<keypair, generated, announced, answers, changes>>
  BY DEF Send
<1>4. PICK level \in Level, k \in Nat : pub = hybrid_public_key(hybrid_generate(level, k))
  BY DEF IInv, AnnouncedAreKeys, KeysAreDrawn
<1>5. /\ m.pub = pub /\ m.n = draws
      /\ m.ct = [x25519_ephemeral |-> X25519Bytes(draws),
                 kyber_ct |-> CtBytes(PkBytes(KyberKey(level, k)), level, draws)]
  BY <1>1, <1>4, EncapsulateToGenerated DEF Encapsulation
<1>6. m = Encapsulation(hybrid_public_key(hybrid_generate(level, k)), draws)
  BY <1>4
<1> HIDE DEF m
<1>7. w = [text |-> "hex", x25519 |-> X25519Bytes(draws),
           kyber |-> CtBytes(PkBytes(KyberKey(level, k)), level, draws)]
  BY <1>5 DEF to_hex, Wire
<1>8. w \in WireType
  <2>1. PkBytes(KyberKey(level, k)) \in KyberPk
    BY GeneratedFields
  <2>2. CtBytes(PkBytes(KyberKey(level, k)), level, draws) \in KyberCt
    BY <1>1, <2>1, HybridAssumption DEF CtBytes, KyberCt, KemSizes, SecurityLevel
  <2>3. X25519Bytes(draws) \in X25519Public
    BY <1>1 DEF X25519Bytes, X25519Public
  <2> QED
    BY <1>7, <2>2, <2>3 DEF WireType
<1>9. TypeOK'
  <2>1. draws' \in 0..MaxDraws /\ changes' \in 0..MaxChanges
    BY <1>1, <1>3, HybridAssumption DEF IInv, TypeOK
  <2>2. net' \subseteq WireType
    BY <1>2, <1>8 DEF IInv, TypeOK
  <2>3. \A e \in made' : e.pub \in announced' /\ to_hex(e.ct) \in net'
    BY <1>2, <1>3, <1>5 DEF IInv, TypeOK
  <2>4. ASSUME NEW e \in made', NEW kp \in generated PROVE e.n # kp.x25519_secret
    <3>1. CASE e \in made
      BY <3>1 DEF IInv, TypeOK
    <3>2. CASE e = m
      <4>1. PICK l \in Level, j \in Nat : j < draws /\ kp = hybrid_generate(l, j)
        BY DEF IInv, KeysAreDrawn
      <4>2. kp.x25519_secret = j
        BY <4>1, GeneratedFields
      <4> QED
        BY <1>1, <1>5, <3>2, <4>1, <4>2
    <3> QED
      BY <1>2, <3>1, <3>2
  <2> QED
    BY <1>3, <2>1, <2>2, <2>3, <2>4 DEF IInv, TypeOK
<1>10. \A n \in Nat : n < draws => n < draws'
  BY <1>1
<1>11. KeysAreDrawn'
  BY <1>3, <1>10 DEF IInv, KeysAreDrawn
<1>12. MadeForKeys'
  <2>1. draws < draws'
    BY <1>1
  <2> QED
    BY <1>1, <1>2, <1>6, <1>10, <2>1 DEF IInv, MadeForKeys
<1>13. WiresAreMade'
  <2>1. w.kyber = m.ct.kyber_ct
    BY <1>5, <1>7
  <2> HIDE DEF w
  <2> QED
    BY <1>2, <2>1 DEF IInv, WiresAreMade
<1>14. AnswersAreComputed'
  BY <1>2, <1>3 DEF IInv, AnswersAreComputed, Computed
<1> QED
  BY <1>3, <1>9, <1>11, <1>12, <1>13, <1>14 DEF IInv, AnnouncedAreKeys

\* Decapsulating what arrives keeps it.
LEMMA DeliverIInv ==
  ASSUME IInv, NEW h \in Holder, NEW w \in net, Deliver(h, w)
  PROVE  IInv'
<1> DEFINE kp == keypair[h][1]
           a  == [kp |-> kp, wire |-> w, result |-> Answer(kp, w)]
<1>1. kp \in generated /\ answers' = answers \cup {a}
  BY DEF Deliver, Answer, IInv, TypeOK
<1>2. UNCHANGED <<keypair, generated, announced, net, made, draws, changes>>
  BY DEF Deliver
<1>3. a.kp = kp /\ a.wire = w /\ a.result = Answer(kp, w)
  OBVIOUS
<1> HIDE DEF kp, a
<1>4. AnswersAreComputed'
  BY <1>1, <1>2, <1>3 DEF IInv, AnswersAreComputed, Computed
<1>5. TypeOK'
  BY <1>2 DEF IInv, TypeOK
<1> QED
  BY <1>2, <1>4, <1>5
     DEF IInv, KeysAreDrawn, AnnouncedAreKeys, MadeForKeys, WiresAreMade

\* A damaged wire is a wire, and its Kyber part is what it was or nothing.
LEMMA DamagedWires ==
  ASSUME NEW w \in WireType, NEW v \in Damaged(w)
  PROVE  v \in WireType /\ (v.kyber = w.kyber \/ v.kyber.tag = "junk")
<1>1. /\ w = [text |-> w.text, x25519 |-> w.x25519, kyber |-> w.kyber]
      /\ w.text \in {"hex", "padded", "broken"}
      /\ w.x25519 \in X25519Public \cup JunkString /\ w.kyber \in KyberCt \cup JunkString
  BY DEF WireType
<1>2. w.kyber.len \in Nat
  <2>1. \A p \in KyberCt : p.len \in Nat
    BY DEF KyberCt
  <2>2. \A p \in JunkString : p.len \in Nat
    BY DEF JunkString
  <2> QED
    BY <1>1, <2>1, <2>2
<1>3. \A n \in Nat : Junk(n) \in JunkString /\ Junk(n).tag = "junk"
  BY DEF Junk, JunkString
<1>4. CASE \E t \in {"padded", "broken"} : v = [w EXCEPT !.text = t]
  BY <1>1, <1>4 DEF WireType
<1>5. CASE \E n \in {X25519_PUBLIC_KEY_LEN - 1, X25519_PUBLIC_KEY_LEN} :
             v = [w EXCEPT !.x25519 = Junk(n)]
  BY <1>1, <1>3, <1>5 DEF WireType, X25519_PUBLIC_KEY_LEN
<1>6. CASE v = [w EXCEPT !.x25519 = Junk(X25519_PUBLIC_KEY_LEN - 1),
                         !.kyber = Junk(w.kyber.len + 1)]
  <2>1. X25519_PUBLIC_KEY_LEN - 1 \in Nat /\ w.kyber.len + 1 \in Nat
    BY <1>2 DEF X25519_PUBLIC_KEY_LEN
  <2> QED
    BY <1>1, <1>3, <1>6, <2>1 DEF WireType
<1>7. CASE \E n \in Nat : v = [w EXCEPT !.kyber = Junk(n)]
  BY <1>1, <1>3, <1>7 DEF WireType
<1>8. CASE w.x25519.tag = "x25519" /\ v = [w EXCEPT !.x25519.top_bit = 1]
  <2>1. \A j \in JunkString : j.tag = "junk"
    BY DEF JunkString
  <2>2. w.x25519 \in X25519Public
    BY <1>1, <1>8, <2>1
  <2>3. [w.x25519 EXCEPT !.top_bit = 1] \in X25519Public
    BY <2>2 DEF X25519Public
  <2> QED
    BY <1>1, <1>8, <2>3 DEF WireType
<1> QED
  BY <1>4, <1>5, <1>6, <1>7, <1>8 DEF Damaged

\* Changing a wire keeps it.
LEMMA ChangeIInv ==
  ASSUME IInv, NEW w \in net, Change(w)
  PROVE  IInv'
<1>1. UNCHANGED <<keypair, generated, announced, made, answers, draws>>
  BY DEF Change
<1>2. changes' \in 0..MaxChanges
  BY HybridAssumption DEF Change, IInv, TypeOK
<1>3. w \in WireType /\ net \subseteq WireType
  BY DEF IInv, TypeOK
<1>4. PICK v : /\ net' = net \cup {v} /\ v \in WireType
               /\ v.kyber.tag = "ct" => \E u \in net : v.kyber = u.kyber
  <2>1. CASE \E v \in Damaged(w) : net' = net \cup {v}
    <3>1. PICK v \in Damaged(w) : net' = net \cup {v}
      BY <2>1
    <3>2. v \in WireType /\ (v.kyber = w.kyber \/ v.kyber.tag = "junk")
      BY <1>3, DamagedWires
    <3> QED
      BY <3>1, <3>2
  <2>2. CASE \E v \in net : net' = net \cup {[w EXCEPT !.kyber = v.kyber]}
    <3>1. PICK u \in net : net' = net \cup {[w EXCEPT !.kyber = u.kyber]}
      BY <2>2
    <3> DEFINE v == [w EXCEPT !.kyber = u.kyber]
    <3>2. v \in WireType /\ v.kyber = u.kyber
      BY <1>3 DEF WireType
    <3> QED
      BY <3>1, <3>2
  <2> QED
    BY <2>1, <2>2 DEF Change
<1>5. TypeOK'
  BY <1>1, <1>2, <1>3, <1>4 DEF IInv, TypeOK
<1>6. WiresAreMade'
  BY <1>1, <1>4 DEF IInv, WiresAreMade
<1>7. AnswersAreComputed'
  BY <1>1, <1>4 DEF IInv, AnswersAreComputed, Computed
<1> QED
  BY <1>1, <1>5, <1>6, <1>7 DEF IInv, KeysAreDrawn, AnnouncedAreKeys, MadeForKeys

\* Every step keeps it.
LEMMA NextIInv == IInv /\ [Next]_vars => IInv'
<1> SUFFICES ASSUME IInv, [Next]_vars PROVE IInv'
  OBVIOUS
<1>1. ASSUME NEW h \in Holder, NEW level \in Level, Generate(h, level) PROVE IInv'
  BY <1>1, GenerateIInv
<1>2. ASSUME NEW h \in Holder, Announce(h) PROVE IInv'
  BY <1>2, AnnounceIInv
<1>3. ASSUME NEW h \in Holder, NEW w \in net, Deliver(h, w) PROVE IInv'
  BY <1>3, DeliverIInv
<1>4. ASSUME NEW pub \in announced, Send(pub) PROVE IInv'
  BY <1>4, SendIInv
<1>5. ASSUME NEW w \in net, Change(w) PROVE IInv'
  BY <1>5, ChangeIInv
<1>6. CASE UNCHANGED vars
  BY <1>6 DEF vars, IInv, TypeOK, KeysAreDrawn, AnnouncedAreKeys, MadeForKeys, WiresAreMade,
              AnswersAreComputed, Computed
<1> QED
  BY <1>1, <1>2, <1>3, <1>4, <1>5, <1>6 DEF Next

LEMMA IInvAlways == Spec => []IInv
<1> QED
  BY InitIInv, NextIInv, PTL DEF Spec

-----------------------------------------------------------------------------
(* The theorems. *)

\* What the operators say of an answer, and of an encapsulation.
LEMMA AnswerFacts ==
  ASSUME IInv, NEW a, Computed(a)
  PROVE  \E level \in Level, k \in Nat :
           /\ a.kp = hybrid_generate(level, k) /\ a.wire \in WireType
           /\ a.result = Answer(hybrid_generate(level, k), a.wire)
<1>1. a.kp \in generated /\ a.wire \in WireType /\ a.result = Answer(a.kp, a.wire)
  BY DEF IInv, Computed, TypeOK
<1>2. PICK level \in Level, k \in Nat : a.kp = hybrid_generate(level, k)
  BY <1>1 DEF IInv, KeysAreDrawn
<1> QED
  BY <1>1, <1>2

LEMMA MadeFacts ==
  ASSUME IInv, NEW m \in made
  PROVE  \E level \in Level, k \in Nat, n \in Nat :
           /\ n < draws /\ m.n = n
           /\ m.pub = hybrid_public_key(hybrid_generate(level, k))
           /\ m.ct = [x25519_ephemeral |-> X25519Bytes(n),
                      kyber_ct |-> CtBytes(PkBytes(KyberKey(level, k)), level, n)]
           /\ m.secret = [x25519 |-> [tag |-> "shared", secrets |-> {n, k}],
                          kyber |-> SsBytes(PkBytes(KyberKey(level, k)), n)]
<1>1. PICK level \in Level, k \in Nat, n \in Nat :
        n < draws /\ m = Encapsulation(hybrid_public_key(hybrid_generate(level, k)), n)
  BY DEF IInv, MadeForKeys
<1> DEFINE pub == hybrid_public_key(hybrid_generate(level, k))
           enc == hybrid_encapsulate(pub, n)
<1>2. m.n = n /\ m.pub = pub /\ m.ct = enc.val.ct /\ m.secret = enc.val.secret
  BY <1>1 DEF Encapsulation
<1>3. /\ enc.val.ct = [x25519_ephemeral |-> X25519Bytes(n),
                       kyber_ct |-> CtBytes(PkBytes(KyberKey(level, k)), level, n)]
      /\ enc.val.secret = [x25519 |-> [tag |-> "shared", secrets |-> {n, k}],
                           kyber |-> SsBytes(PkBytes(KyberKey(level, k)), n)]
  BY EncapsulateToGenerated
<1> HIDE DEF enc
<1> QED
  BY <1>1, <1>2, <1>3

\* A Kyber public key is of one level and one draw.
LEMMA PkBytesInjective ==
  ASSUME NEW l1 \in Level, NEW k1 \in Nat, NEW l2 \in Level, NEW k2 \in Nat,
         PkBytes(KyberKey(l1, k1)) = PkBytes(KyberKey(l2, k2))
  PROVE  l1 = l2 /\ k1 = k2
<1>1. KyberKey(l1, k1) = KyberKey(l2, k2)
  BY DEF PkBytes
<1> QED
  BY <1>1 DEF KyberKey, KeyOf

\* What was sent is what was made: only the wire of an encapsulation opens to its secret.
LEMMA AgreementNeedsTheWire ==
  ASSUME IInv, NEW a, Computed(a), NEW m \in made, a.result.ok, a.result.val = m.secret
  PROVE  IsTextOf(a.wire, m.ct) /\ hybrid_public_key(a.kp) = m.pub
<1> DEFINE w == a.wire
<1>1. PICK level \in Level, k \in Nat :
        /\ a.kp = hybrid_generate(level, k) /\ w \in WireType
        /\ a.result = Answer(hybrid_generate(level, k), w)
  BY AnswerFacts
<1>2. PICK l \in Level, j \in Nat, n \in Nat :
        /\ m.pub = hybrid_public_key(hybrid_generate(l, j))
        /\ m.ct = [x25519_ephemeral |-> X25519Bytes(n),
                   kyber_ct |-> CtBytes(PkBytes(KyberKey(l, j)), l, n)]
        /\ m.secret = [x25519 |-> [tag |-> "shared", secrets |-> {n, j}],
                       kyber |-> SsBytes(PkBytes(KyberKey(l, j)), n)]
  BY MadeFacts
<1> DEFINE pk == PkBytes(KyberKey(l, j))
<1>3. /\ w.text # "broken"
      /\ w.x25519.tag = "x25519" /\ {k, w.x25519.secret} = {n, j}
      /\ w.kyber.tag = "ct" /\ w.kyber.rnd = n
      /\ w.kyber.pk = pk /\ pk = PkBytes(KyberKey(level, k))
  <2> HIDE DEF w
  <2> QED
    BY <1>1, <1>2, SecretComesFrom
<1>4. l = level /\ j = k
  BY <1>3, PkBytesInjective
<1>5. w.x25519.secret = n
  BY <1>3, <1>4
<1>6. w.kyber = CtBytes(pk, l, n)
  <2>1. PICK e \in made : w.kyber = e.ct.kyber_ct
    BY <1>3 DEF IInv, Computed, WiresAreMade
  <2>2. PICK l2 \in Level, j2 \in Nat, n2 \in Nat :
          e.ct = [x25519_ephemeral |-> X25519Bytes(n2),
                  kyber_ct |-> CtBytes(PkBytes(KyberKey(l2, j2)), l2, n2)]
    BY MadeFacts
  <2>3. w.kyber = CtBytes(PkBytes(KyberKey(l2, j2)), l2, n2)
    BY <2>1, <2>2
  <2>4. w.kyber.pk = PkBytes(KyberKey(l2, j2)) /\ w.kyber.rnd = n2
    BY <2>3 DEF CtBytes
  <2>5. n2 = n /\ PkBytes(KyberKey(l2, j2)) = PkBytes(KyberKey(l, j))
    BY <1>3, <2>4
  <2>6. l2 = l /\ j2 = j
    BY <2>5, PkBytesInjective
  <2> QED
    BY <2>3, <2>5, <2>6
<1>7. X25519Bytes(n).secret = n
  BY DEF X25519Bytes
<1> HIDE DEF w, pk
<1>8. IsTextOf(w, m.ct)
  BY <1>2, <1>3, <1>5, <1>6, <1>7 DEF IsTextOf, to_hex, Wire, pk
<1> QED
  BY <1>1, <1>2, <1>4, <1>8 DEF w

\* And it does open, with the key pair it was made for.
LEMMA TheWireAgrees ==
  ASSUME IInv, NEW a, Computed(a), NEW m \in made,
         IsTextOf(a.wire, m.ct), hybrid_public_key(a.kp) = m.pub
  PROVE  a.result.ok /\ a.result.val = m.secret
<1> DEFINE w == a.wire
<1>1. PICK level \in Level, k \in Nat :
        /\ a.kp = hybrid_generate(level, k) /\ w \in WireType
        /\ a.result = Answer(hybrid_generate(level, k), w)
  BY AnswerFacts
<1>2. PICK l \in Level, j \in Nat, n \in Nat :
        /\ m.pub = hybrid_public_key(hybrid_generate(l, j))
        /\ m.ct = [x25519_ephemeral |-> X25519Bytes(n),
                   kyber_ct |-> CtBytes(PkBytes(KyberKey(l, j)), l, n)]
        /\ m.secret = [x25519 |-> [tag |-> "shared", secrets |-> {n, j}],
                       kyber |-> SsBytes(PkBytes(KyberKey(l, j)), n)]
  BY MadeFacts
<1>3. l = level /\ j = k
  <2>1. hybrid_public_key(hybrid_generate(level, k)).kyber.bytes
          = hybrid_public_key(hybrid_generate(l, j)).kyber.bytes
    BY <1>1, <1>2
  <2>2. PkBytes(KyberKey(level, k)) = PkBytes(KyberKey(l, j))
    BY <2>1, PublicKeyFields
  <2> QED
    BY <2>2, PkBytesInjective
<1> DEFINE pk == PkBytes(KyberKey(level, k))
<1> HIDE DEF pk
<1>4. /\ w.text # "broken"
      /\ w.kyber = CtBytes(pk, level, n)
      /\ w.x25519.tag = "x25519" /\ w.x25519.secret = n
  BY <1>2, <1>3 DEF IsTextOf, to_hex, Wire, X25519Bytes, pk
<1> HIDE DEF w
<1>5. w.x25519.len = X25519_PUBLIC_KEY_LEN /\ w.kyber.len = KemSizes[level].product
  <2>1. w.x25519 \in X25519Public
    BY <1>1, <1>4 DEF WireType, JunkString
  <2> QED
    BY <1>4, <2>1 DEF X25519Public, CtBytes
<1>6. WireLen(w) = X25519_PUBLIC_KEY_LEN + KemSizes[level].product
  BY <1>5 DEF WireLen
<1> DEFINE ct == from_hex(w).val
           f  == diffie_hellman(k, ct.x25519_ephemeral)
           g  == kyber_decapsulate(ct.kyber_ct, SkBytes(KyberKey(level, k)))
<1>7. from_hex(w).ok /\ a.result.ok /\ a.result.val = [x25519 |-> f, kyber |-> g]
  BY <1>1, <1>4, <1>6, AnswerOfGenerated
<1> HIDE DEF ct
<1>8. ct = [x25519_ephemeral |-> w.x25519, kyber_ct |-> w.kyber]
  BY <1>1, <1>5, <1>7, WireReads DEF ct
<1>9. f = [tag |-> "shared", secrets |-> {n, k}]
  BY <1>4, <1>8 DEF diffie_hellman
<1>10. g = SsBytes(pk, n)
  <2>1. LET sk == SkBytes(KyberKey(level, k)) IN sk.tag = "sk" /\ sk.key = KyberKey(level, k)
    BY DEF SkBytes
  <2>2. w.kyber.tag = "ct" /\ w.kyber.pk = pk /\ w.kyber.rnd = n
    BY <1>4 DEF CtBytes
  <2> QED
    BY <1>8, <2>1, <2>2 DEF kyber_decapsulate, pk
<1> HIDE DEF f, g
<1> QED
  BY <1>2, <1>3, <1>7, <1>9, <1>10 DEF pk

\* Keys and wires stay of their types, and no ephemeral key is one that was drawn before
\* (src/hybrid.rs:113-172).
THEOREM HybridTypes == Spec => []TypeOK
<1>1. IInv => TypeOK
  BY DEF IInv
<1> QED
  BY <1>1, IInvAlways, PTL

\* Both ends have the same secret exactly when what arrived is what that sender sent and the
\* key pair is the one it was sent to, over a network that loses, repeats, reorders, damages
\* and joins ciphertexts (src/hybrid.rs:149-172).
THEOREM ExchangeIsExact == Spec => []AgreementIsExact
<1>1. IInv => AgreementIsExact
  BY AgreementNeedsTheWire, TheWireAgrees DEF AgreementIsExact, IInv, AnswersAreComputed
<1> QED
  BY <1>1, IInvAlways, PTL

\* A text is refused exactly when it is not hex or not of the length of the key's level
\* (src/hybrid.rs:84-98, src/kem.rs:188-221).
THEOREM LengthIsTheOnlyCheck == Spec => []RefusedForItsLength
<1>1. ASSUME IInv, NEW a \in answers
      PROVE  ~a.result.ok <=>
               \/ a.wire.text = "broken"
               \/ WireLen(a.wire) # X25519_PUBLIC_KEY_LEN + KemSizes[a.kp.kyber.level].product
  <2> DEFINE w == a.wire
  <2>1. PICK level \in Level, k \in Nat :
          /\ a.kp = hybrid_generate(level, k) /\ w \in WireType
          /\ a.result = Answer(hybrid_generate(level, k), w)
    BY <1>1, AnswerFacts DEF IInv, AnswersAreComputed
  <2>2. a.kp.kyber.level = level
    BY <2>1, GeneratedFields
  <2>3. LET c == Answer(hybrid_generate(level, k), w)
        IN  c.ok <=> /\ w.text # "broken"
                     /\ WireLen(w) = X25519_PUBLIC_KEY_LEN + KemSizes[level].product
    <3> HIDE DEF w
    <3> QED
      BY <2>1, AnswerOfGenerated
  <2> QED
    BY <2>1, <2>2, <2>3
<1>2. IInv => RefusedForItsLength
  BY <1>1 DEF RefusedForItsLength
<1> QED
  BY <1>2, IInvAlways, PTL

-----------------------------------------------------------------------------
(* The refinement of VaultService. *)

\* The key of a key pair, of a public key, and what VaultService knows an encapsulation by.
SkKey(kp)  == kp.kyber.sk_bytes.key
PubKey(pub) == pub.kyber.bytes.key
SentAs(m)  == <<PubKey(m.pub), m.n>>

\* What Hybrid substitutes for the variables of VaultService.
StoredBar    == {kp.kyber.sk_bytes.key : kp \in generated}
PublishedBar == {pub.kyber.bytes.key : pub \in announced}
SentBar      == {<<m.pub.kyber.bytes.key, m.n>> : m \in made}
CtOf(a, ms)     == Origin({m \in ms : IsTextOf(a.wire, m.ct)})
SecretOf(a, ms) == Origin({m \in ms : m.secret = a.result.val})
RecoveredBar ==
  {[key    |-> a.kp.kyber.sk_bytes.key,
    ct     |-> Origin({m \in made : IsTextOf(a.wire, m.ct)}),
    secret |-> Origin({m \in made : m.secret = a.result.val})]
     : a \in {a \in answers : a.result.ok}}

KeyIds == [algo : {"kem"}, level : Level, id : 0..MaxDraws]

\* The origin of a non-empty set of encapsulations is one of them.
LEMMA OriginOf ==
  ASSUME NEW ms
  PROVE  /\ ms = {} => Origin(ms) = <<>>
         /\ ms # {} => \E m \in ms : Origin(ms) = SentAs(m)
  BY DEF Origin, SentAs, PubKey

\* Every key is one VaultService knows.
LEMMA KeysAreKnown ==
  ASSUME IInv, NEW kp \in generated
  PROVE  SkKey(kp) \in KeyIds /\ PubKey(hybrid_public_key(kp)) = SkKey(kp)
<1>1. PICK level \in Level, k \in Nat : k < draws /\ kp = hybrid_generate(level, k)
  BY DEF IInv, KeysAreDrawn
<1>2. kp.kyber.sk_bytes = SkBytes(KyberKey(level, k))
  BY <1>1, GeneratedFields
<1>3. SkKey(kp) = KyberKey(level, k)
  BY <1>2 DEF SkKey, SkBytes
<1>4. hybrid_public_key(kp).kyber.bytes = PkBytes(KyberKey(level, k))
  BY <1>1, PublicKeyFields
<1>5. PubKey(hybrid_public_key(kp)) = KyberKey(level, k)
  BY <1>4 DEF PubKey, PkBytes
<1>6. k \in 0..MaxDraws
  BY <1>1, HybridAssumption DEF IInv, TypeOK
<1> QED
  BY <1>3, <1>5, <1>6 DEF KyberKey, KeyOf, KeyIds

\* A Kyber part in a wire or an encapsulation was drawn before.
LEMMA OldWires ==
  ASSUME IInv, NEW w \in net, w.kyber.tag = "ct"
  PROVE  w.kyber.rnd \in Nat /\ w.kyber.rnd < draws
<1>1. PICK m \in made : w.kyber = m.ct.kyber_ct
  BY DEF IInv, WiresAreMade
<1>2. PICK level \in Level, k \in Nat, n \in Nat :
        /\ n < draws
        /\ m.ct = [x25519_ephemeral |-> X25519Bytes(n),
                   kyber_ct |-> CtBytes(PkBytes(KyberKey(level, k)), level, n)]
  BY MadeFacts
<1>3. w.kyber = CtBytes(PkBytes(KyberKey(level, k)), level, n)
  BY <1>1, <1>2
<1> QED
  BY <1>2, <1>3 DEF CtBytes

\* An encapsulation is known by its ciphertext, and its public key by its key.
LEMMA KnownByCiphertext ==
  ASSUME IInv, NEW m1 \in made, NEW m2 \in made, m1.ct.kyber_ct = m2.ct.kyber_ct
  PROVE  SentAs(m1) = SentAs(m2)
<1>1. PICK l1 \in Level, k1 \in Nat, n1 \in Nat :
        /\ m1.n = n1 /\ m1.pub = hybrid_public_key(hybrid_generate(l1, k1))
        /\ m1.ct = [x25519_ephemeral |-> X25519Bytes(n1),
                    kyber_ct |-> CtBytes(PkBytes(KyberKey(l1, k1)), l1, n1)]
  BY MadeFacts
<1>2. PICK l2 \in Level, k2 \in Nat, n2 \in Nat :
        /\ m2.n = n2 /\ m2.pub = hybrid_public_key(hybrid_generate(l2, k2))
        /\ m2.ct = [x25519_ephemeral |-> X25519Bytes(n2),
                    kyber_ct |-> CtBytes(PkBytes(KyberKey(l2, k2)), l2, n2)]
  BY MadeFacts
<1>3. CtBytes(PkBytes(KyberKey(l1, k1)), l1, n1) = CtBytes(PkBytes(KyberKey(l2, k2)), l2, n2)
  BY <1>1, <1>2
<1>4. PkBytes(KyberKey(l1, k1)) = PkBytes(KyberKey(l2, k2)) /\ n1 = n2
  BY <1>3 DEF CtBytes
<1>5. l1 = l2 /\ k1 = k2
  BY <1>4, PkBytesInjective
<1> QED
  BY <1>1, <1>2, <1>4, <1>5 DEF SentAs

\* Two generated key pairs with one Kyber key are one.
LEMMA KnownByKey ==
  ASSUME IInv, NEW a, Computed(a), NEW m \in made
  PROVE  PubKey(m.pub) = SkKey(a.kp) <=> hybrid_public_key(a.kp) = m.pub
<1>1. PICK level \in Level, k \in Nat : a.kp = hybrid_generate(level, k)
  BY AnswerFacts
<1>2. PICK l \in Level, j \in Nat, n \in Nat : m.pub = hybrid_public_key(hybrid_generate(l, j))
  BY MadeFacts
<1>3. a.kp.kyber.sk_bytes = SkBytes(KyberKey(level, k))
  BY <1>1, GeneratedFields
<1>4. SkKey(a.kp) = KyberKey(level, k)
  BY <1>3 DEF SkKey, SkBytes
<1>5. m.pub.kyber.bytes = PkBytes(KyberKey(l, j))
  BY <1>2, PublicKeyFields
<1>6. hybrid_public_key(a.kp).kyber.bytes = PkBytes(KyberKey(level, k))
  BY <1>1, PublicKeyFields
<1>7. PubKey(m.pub) = KyberKey(l, j) /\ PubKey(hybrid_public_key(a.kp)) = KyberKey(level, k)
  BY <1>5, <1>6 DEF PubKey, PkBytes
<1>8. ASSUME KyberKey(l, j) = KyberKey(level, k) PROVE l = level /\ j = k
  BY <1>8 DEF KyberKey, KeyOf
<1> QED
  BY <1>1, <1>2, <1>4, <1>7, <1>8

\* A secret recovered is the one sent in that ciphertext, if the key is the one it was sent to,
\* and nobody's otherwise.
LEMMA RecoversAsPromised ==
  ASSUME IInv, NEW a, Computed(a), a.result.ok
  PROVE  /\ CtOf(a, made) \in SentBar \cup {<<>>}
         /\ SecretOf(a, made) = IF CtOf(a, made) # <<>> /\ CtOf(a, made)[1] = SkKey(a.kp)
                                  THEN CtOf(a, made) ELSE <<>>
<1> DEFINE S == {m \in made : IsTextOf(a.wire, m.ct)}
           T == {m \in made : m.secret = a.result.val}
<1>1. CtOf(a, made) = Origin(S) /\ SecretOf(a, made) = Origin(T)
  BY DEF CtOf, SecretOf
<1>2. \A m : /\ m \in S <=> m \in made /\ IsTextOf(a.wire, m.ct)
             /\ m \in T <=> m \in made /\ m.secret = a.result.val
  BY Zenon
<1> HIDE DEF S, T
<1>3. ASSUME NEW m \in made PROVE m \in T <=> (m \in S /\ PubKey(m.pub) = SkKey(a.kp))
  <2>1. m.secret = a.result.val
          <=> IsTextOf(a.wire, m.ct) /\ hybrid_public_key(a.kp) = m.pub
    BY AgreementNeedsTheWire, TheWireAgrees
  <2> QED
    BY <1>2, <2>1, KnownByKey
<1>4. \A m1, m2 \in S : SentAs(m1) = SentAs(m2)
  <2>1. ASSUME NEW m1 \in S, NEW m2 \in S PROVE m1.ct.kyber_ct = m2.ct.kyber_ct
    BY <1>2 DEF IsTextOf, to_hex, Wire
  <2> QED
    BY <1>2, <2>1, KnownByCiphertext
<1>5. CASE S = {}
  <2>1. T = {}
    BY <1>3, <1>2, <1>5
  <2> QED
    BY <1>1, <1>5, <2>1, OriginOf
<1>6. CASE S # {}
  <2>1. PICK m \in S : Origin(S) = SentAs(m)
    BY <1>6, OriginOf
  <2>2. /\ SentAs(m) \in SentBar
        /\ SentAs(m) # <<>> /\ SentAs(m)[1] = PubKey(m.pub)
    BY <1>2 DEF SentAs, SentBar, PubKey
  <2>3. CASE PubKey(m.pub) = SkKey(a.kp)
    <3>1. m \in T
      BY <1>3, <1>2, <2>3
    <3>2. PICK t \in T : Origin(T) = SentAs(t)
      BY <3>1, OriginOf
    <3>3. t \in S
      BY <1>3, <1>2
    <3>4. Origin(T) = SentAs(m)
      BY <1>4, <3>2, <3>3
    <3> QED
      BY <1>1, <2>1, <2>2, <2>3, <3>4
  <2>4. CASE PubKey(m.pub) # SkKey(a.kp)
    <3>1. ASSUME NEW t \in T PROVE FALSE
      <4>1. t \in S /\ PubKey(t.pub) = SkKey(a.kp)
        BY <1>3, <1>2
      <4>2. SentAs(t) = SentAs(m)
        BY <1>4, <4>1
      <4> QED
        BY <2>4, <4>1, <4>2 DEF SentAs
    <3>2. Origin(T) = <<>>
      BY <3>1, OriginOf
    <3> QED
      BY <1>1, <2>1, <2>2, <2>4, <3>2
  <2> QED
    BY <2>3, <2>4
<1> QED
  BY <1>5, <1>6

\* A new encapsulation does not change where anything came from before.
LEMMA RecoveriesStay ==
  ASSUME IInv, NEW pub \in announced, Send(pub), NEW a, Computed(a), a.result.ok
  PROVE  CtOf(a, made') = CtOf(a, made) /\ SecretOf(a, made') = SecretOf(a, made)
<1> DEFINE m == Encapsulation(pub, draws)
<1>1. made' = made \cup {m}
  BY DEF Send, Encapsulation
<1>2. PICK level \in Level, k \in Nat :
        /\ a.kp = hybrid_generate(level, k) /\ a.wire \in WireType
        /\ a.result = Answer(hybrid_generate(level, k), a.wire)
  BY AnswerFacts
<1>3. PICK l \in Level, j \in Nat : pub = hybrid_public_key(hybrid_generate(l, j))
  BY DEF IInv, AnnouncedAreKeys, KeysAreDrawn
<1> DEFINE pk  == PkBytes(KyberKey(l, j))
           enc == hybrid_encapsulate(pub, draws)
<1>4. draws \in Nat
  BY DEF IInv, TypeOK
<1>5. /\ m.ct = [x25519_ephemeral |-> X25519Bytes(draws), kyber_ct |-> CtBytes(pk, l, draws)]
      /\ m.secret = [x25519 |-> [tag |-> "shared", secrets |-> {draws, j}],
                     kyber |-> SsBytes(pk, draws)]
  <2>1. m.ct = enc.val.ct /\ m.secret = enc.val.secret
    BY DEF Encapsulation
  <2>2. /\ enc.val.ct = [x25519_ephemeral |-> X25519Bytes(draws),
                         kyber_ct |-> CtBytes(pk, l, draws)]
        /\ enc.val.secret = [x25519 |-> [tag |-> "shared", secrets |-> {draws, j}],
                             kyber |-> SsBytes(pk, draws)]
    BY <1>3, <1>4, EncapsulateToGenerated
  <2> HIDE DEF m, enc, pk
  <2> QED
    BY <2>1, <2>2
<1> HIDE DEF m, pk, enc
<1>6. ~ (a.wire.kyber.tag = "ct" /\ a.wire.kyber.rnd = draws)
  BY <1>4, OldWires DEF Computed
<1>7. ~ IsTextOf(a.wire, m.ct)
  BY <1>5, <1>6 DEF IsTextOf, to_hex, Wire, CtBytes
<1>8. m.secret # a.result.val
  <2> SUFFICES ASSUME m.secret = a.result.val PROVE FALSE
    OBVIOUS
  <2> DEFINE w == a.wire
  <2>1. w.kyber.tag = "ct" /\ w.kyber.rnd = draws
    <3>1. LET c == Answer(hybrid_generate(level, k), w)
          IN  c.ok /\ c.val = [x25519 |-> [tag |-> "shared", secrets |-> {draws, j}],
                               kyber |-> SsBytes(pk, draws)]
      BY <1>2, <1>5
    <3>2. w \in WireType
      BY <1>2
    <3> HIDE DEF w
    <3> QED
      BY <3>1, <3>2, SecretComesFrom
  <2> QED
    BY <1>6, <2>1
<1>9. {e \in made' : IsTextOf(a.wire, e.ct)} = {e \in made : IsTextOf(a.wire, e.ct)}
  BY <1>1, <1>7
<1>10. {e \in made' : e.secret = a.result.val} = {e \in made : e.secret = a.result.val}
  BY <1>1, <1>8
<1> QED
  BY <1>9, <1>10 DEF CtOf, SecretOf

\* What VaultService is told of an answer.
Recovery(a, ms) == [key |-> SkKey(a.kp), ct |-> CtOf(a, ms), secret |-> SecretOf(a, ms)]

LEMMA RecoveredAre == RecoveredBar = {Recovery(a, made) : a \in {a \in answers : a.result.ok}}
<1> QED
  BY DEF RecoveredBar, Recovery, SkKey, CtOf, SecretOf

\* Drawing a key pair stores its key.
LEMMA GenerateStores ==
  ASSUME IInv, NEW h \in Holder, NEW level \in Level, Generate(h, level)
  PROVE  \E key \in KeyIds :
           StoredBar' = StoredBar \cup {key} /\ UNCHANGED <<PublishedBar, SentBar, RecoveredBar>>
<1> DEFINE kp == hybrid_generate(level, draws)
<1>1. generated' = generated \cup {kp} /\ UNCHANGED <<announced, made, answers>>
  BY DEF Generate
<1>2. IInv'
  BY GenerateIInv
<1> HIDE DEF kp
<1>3. SkKey(kp) \in KeyIds
  <2>1. PICK l \in Level, k \in Nat : k < draws' /\ kp = hybrid_generate(l, k)
    BY <1>1, <1>2 DEF IInv, KeysAreDrawn
  <2>2. kp.kyber.sk_bytes = SkBytes(KyberKey(l, k))
    BY <2>1, GeneratedFields
  <2>3. SkKey(kp) = KyberKey(l, k)
    BY <2>2 DEF SkKey, SkBytes
  <2>4. k \in 0..MaxDraws
    BY <1>2, <2>1, HybridAssumption DEF IInv, TypeOK
  <2> QED
    BY <2>3, <2>4 DEF KyberKey, KeyOf, KeyIds
<1>4. StoredBar' = StoredBar \cup {SkKey(kp)}
  BY <1>1 DEF StoredBar, SkKey
<1>5. UNCHANGED <<PublishedBar, SentBar, RecoveredBar>>
  BY <1>1 DEF PublishedBar, SentBar, RecoveredBar
<1> QED
  BY <1>3, <1>4, <1>5

\* Announcing publishes a stored key.
LEMMA AnnouncePublishes ==
  ASSUME IInv, NEW h \in Holder, Announce(h)
  PROVE  \E key \in KeyIds :
           /\ key \in StoredBar
           /\ PublishedBar' = PublishedBar \cup {key}
           /\ UNCHANGED <<StoredBar, SentBar, RecoveredBar>>
<1> DEFINE kp  == keypair[h][1]
           pub == hybrid_public_key(kp)
<1>1. kp \in generated /\ announced' = announced \cup {pub}
  BY DEF Announce, IInv, TypeOK
<1>2. UNCHANGED <<generated, made, answers>>
  BY DEF Announce
<1> HIDE DEF kp
<1>3. SkKey(kp) \in KeyIds /\ PubKey(pub) = SkKey(kp)
  BY <1>1, KeysAreKnown
<1> HIDE DEF pub
<1>4. SkKey(kp) \in StoredBar
  BY <1>1 DEF StoredBar, SkKey
<1>5. PublishedBar' = PublishedBar \cup {PubKey(pub)}
  BY <1>1 DEF PublishedBar, PubKey
<1>6. UNCHANGED <<StoredBar, SentBar, RecoveredBar>>
  BY <1>2 DEF StoredBar, SentBar, RecoveredBar
<1> QED
  BY <1>3, <1>4, <1>5, <1>6

\* Sending sends a fresh secret to a published key.
LEMMA SendSends ==
  ASSUME IInv, NEW pub \in announced, Send(pub)
  PROVE  \E key \in KeyIds, n \in 0..MaxDraws :
           /\ key \in PublishedBar
           /\ \A s \in SentBar : s[2] # n
           /\ SentBar' = SentBar \cup {<<key, n>>}
           /\ UNCHANGED <<StoredBar, PublishedBar, RecoveredBar>>
<1> DEFINE m == Encapsulation(pub, draws)
<1>1. made' = made \cup {m} /\ UNCHANGED <<generated, announced, answers>>
  BY DEF Send, Encapsulation
<1>2. draws \in 0..MaxDraws
  BY DEF IInv, TypeOK
<1>3. PICK kp \in generated : pub = hybrid_public_key(kp)
  BY DEF IInv, AnnouncedAreKeys
<1>4. PubKey(pub) \in KeyIds
  BY <1>3, KeysAreKnown
<1>5. PubKey(pub) \in PublishedBar
  BY DEF PublishedBar, PubKey
<1>6. m.pub = pub /\ m.n = draws
  BY DEF Encapsulation
<1> HIDE DEF m
<1>7. \A s \in SentBar : s[2] # draws
  <2>1. ASSUME NEW e \in made PROVE e.n # draws
    <3>1. PICK n \in Nat : n < draws /\ e.n = n
      BY MadeFacts
    <3> QED
      BY <1>2, <3>1
  <2> QED
    BY <2>1 DEF SentBar
<1>8. SentBar' = SentBar \cup {<<PubKey(pub), draws>>}
  BY <1>1, <1>6 DEF SentBar, PubKey
<1>9. StoredBar' = StoredBar /\ PublishedBar' = PublishedBar
  BY <1>1 DEF StoredBar, PublishedBar
<1>10. RecoveredBar' = RecoveredBar
  <2>1. ASSUME NEW a \in answers, a.result.ok PROVE Recovery(a, made') = Recovery(a, made)
    BY <2>1, RecoveriesStay DEF Recovery, IInv, AnswersAreComputed
  <2>2. RecoveredBar' = {Recovery(a, made') : a \in {a \in answers' : a.result.ok}}
    BY DEF RecoveredBar, Recovery, SkKey, CtOf, SecretOf
  <2> QED
    BY <1>1, <2>1, <2>2, RecoveredAre
<1> QED
  BY <1>2, <1>4, <1>5, <1>7, <1>8, <1>9, <1>10

\* Decapsulating recovers, or is refused and changes nothing.
LEMMA DeliverRecovers ==
  ASSUME IInv, NEW h \in Holder, NEW w \in net, Deliver(h, w)
  PROVE  /\ UNCHANGED <<StoredBar, PublishedBar, SentBar>>
         /\ \/ RecoveredBar' = RecoveredBar
            \/ \E key \in KeyIds, c \in SentBar \cup {<<>>} :
                 /\ key \in StoredBar
                 /\ RecoveredBar' = RecoveredBar \cup
                      {[key |-> key, ct |-> c,
                        secret |-> IF c # <<>> /\ c[1] = key THEN c ELSE <<>>]}
<1> DEFINE kp == keypair[h][1]
           a  == [kp |-> kp, wire |-> w, result |-> Answer(kp, w)]
<1>1. kp \in generated /\ answers' = answers \cup {a}
  BY DEF Deliver, Answer, IInv, TypeOK
<1>2. UNCHANGED <<generated, announced, made>>
  BY DEF Deliver
<1>3. a.kp = kp /\ Computed(a)
  BY <1>1 DEF Computed
<1> HIDE DEF kp, a
<1>4. UNCHANGED <<StoredBar, PublishedBar, SentBar>>
  BY <1>2 DEF StoredBar, PublishedBar, SentBar
<1>5. RecoveredBar' = {Recovery(e, made) : e \in {e \in answers \cup {a} : e.result.ok}}
  BY <1>1, <1>2 DEF RecoveredBar, Recovery, SkKey, CtOf, SecretOf
<1>6. CASE ~ a.result.ok
  <2>1. {e \in answers \cup {a} : e.result.ok} = {e \in answers : e.result.ok}
    BY <1>6
  <2> QED
    BY <1>4, <1>5, <2>1, RecoveredAre
<1>7. CASE a.result.ok
  <2> DEFINE key == SkKey(kp)
             c   == CtOf(a, made)
  <2>1. key \in KeyIds /\ key \in StoredBar
    BY <1>1, KeysAreKnown DEF StoredBar, SkKey
  <2>2. /\ c \in SentBar \cup {<<>>}
        /\ Recovery(a, made)
             = [key |-> key, ct |-> c, secret |-> IF c # <<>> /\ c[1] = key THEN c ELSE <<>>]
    BY <1>3, <1>7, RecoversAsPromised DEF Recovery
  <2>3. RecoveredBar' = RecoveredBar \cup {Recovery(a, made)}
    BY <1>5, <1>7, RecoveredAre
  <2> HIDE DEF key, c
  <2> QED
    BY <1>4, <2>1, <2>2, <2>3
<1> QED
  BY <1>6, <1>7

\* A step is one of VaultService, or none.
LEMMA StepRefines ==
  ASSUME IInv, [Next]_vars
  PROVE  [Service!Next]_(Service!vars)
<1> USE DEF StoredBar, PublishedBar, SentBar, RecoveredBar, KeyIds
<1>1. ASSUME NEW h \in Holder, NEW level \in Level, Generate(h, level)
      PROVE  Service!Next
  BY <1>1, GenerateStores DEF Service!Next, Service!Store
<1>2. ASSUME NEW h \in Holder, Announce(h) PROVE Service!Next
  BY <1>2, AnnouncePublishes DEF Service!Next, Service!Publish
<1>3. ASSUME NEW h \in Holder, NEW w \in net, Deliver(h, w) PROVE [Service!Next]_(Service!vars)
  BY <1>3, DeliverRecovers DEF Service!Next, Service!Recover, Service!Foreign, Service!vars
<1>4. ASSUME NEW pub \in announced, Send(pub) PROVE Service!Next
  BY <1>4, SendSends DEF Service!Next, Service!Send
<1>5. ASSUME NEW w \in net, Change(w) PROVE UNCHANGED Service!vars
  BY <1>5 DEF Change, Service!vars
<1>6. CASE UNCHANGED vars
  BY <1>6 DEF vars, Service!vars
<1> QED
  BY <1>1, <1>2, <1>3, <1>4, <1>5, <1>6 DEF Next

\* The hybrid exchange implements the promise of VaultService: who is stored, published and
\* sent to, and whose secret every decapsulation gives (src/hybrid.rs:113-172).
THEOREM ExchangeIsAService == Spec => ExchangeImplementsService
<1>1. Init => Service!Init
  BY DEF Init, Service!Init
<1>2. IInv /\ [Next]_vars => [Service!Next]_(Service!vars)
  BY StepRefines
<1> QED
  BY <1>1, <1>2, IInvAlways, PTL DEF Spec, ExchangeImplementsService, Service!Spec
=============================================================================
