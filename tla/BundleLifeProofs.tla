--------------------------- MODULE BundleLifeProofs ---------------------------
(***************************************************************************)
(* Theorems about BundleLife, for any slots and passphrases and any number *)
(* of seals and damaged fields: what comes out of a bundle is what went    *)
(* in, an untouched bundle opens, and inspect tells the truth about every  *)
(* bundle that opens.                                                      *)
(***************************************************************************)
EXTENDS BundleLife, SerialProofs

-----------------------------------------------------------------------------
(* Key pairs. *)

\* A generated key pair is typed.
LEMMA GeneratedIsTyped ==
  ASSUME NEW algo \in Algo, NEW level \in SecurityLevel, NEW id \in Nat
  PROVE  /\ generate(algo, level, id) \in KeyPairs
         /\ generate(algo, level, id).algo = algo /\ generate(algo, level, id).level = level
<1>1. KeyOf(algo, level, id) \in Keys
  BY DEF KeyOf, Keys
<1> QED
  BY <1>1, GeneratedKeyPair, SizesAreNumbers DEF KeyPairs

-----------------------------------------------------------------------------
(* The inductive invariant. *)

\* What a bundle is, whatever was done to it.
CiphertextShape ==
  [hex : BOOLEAN, authentic : BOOLEAN,
   data : [pk_len : Nat, pk : [tag : {"pk"}, key : Keys, len : Nat],
           sk : [tag : {"sk"}, key : Keys, len : Nat]],
   key : [pass : Passphrase, salt_len : Nat, salt : Nat], nonce : Nat]
BundleShape ==
  [version : 0..255, kind : Algo \cup {"other"}, level : 0..255,
   salt : HexFields, nonce : HexFields, ciphertext : CiphertextShape]

\* What was sealed is a generated key pair, and the bundle is what seal made of it.
SealingsAreSeals ==
  \A x \in sealings :
    /\ x.pass \in Passphrase
    /\ \E algo \in Algo, level \in SecurityLevel, id \in Nat, n \in Nat :
         x.kp = generate(algo, level, id) /\ x.bundle = seal(x.kp, x.pass, n)

\* A bundle may be damaged and spliced, but its ciphertext is of something that was sealed.
Sealed(b) == \E x \in sealings : CiphertextOf(b.ciphertext, x.kp, x.pass)

BundlesAreSealed ==
  \A s \in Slot : bundle[s] # <<>> =>
    \E b \in BundleShape : bundle[s] = <<b>> /\ Sealed(b)

\* The answer is what unseal makes of such a bundle.
AnswersAreUnseals ==
  answer # <<>> =>
    \E b \in BundleShape, algo \in Algo, pass \in Passphrase :
      /\ Sealed(b)
      /\ answer = <<[bundle |-> b, algo |-> algo, pass |-> pass,
                     result |-> unseal(b, algo, pass)]>>

CountsOK == seals \in 0..MaxSeals /\ damage \in 0..MaxDamage

IInv ==
  /\ CountsOK
  /\ DOMAIN bundle = Slot
  /\ SealingsAreSeals
  /\ BundlesAreSealed
  /\ AnswersAreUnseals

LEMMA InitIInv == Init => IInv
<1> SUFFICES ASSUME Init PROVE IInv
  OBVIOUS
<1>1. CountsOK
  BY BundleAssumption DEF Init, CountsOK
<1> QED
  BY <1>1 DEF Init, IInv, SealingsAreSeals, BundlesAreSealed, AnswersAreUnseals

\* What was sealed stays sealed.
LEMMA SealedStays ==
  ASSUME sealings \subseteq sealings', NEW b, Sealed(b)
  PROVE  Sealed(b)'
BY DEF Sealed

\* The bundle seal makes.
LEMMA SealShape ==
  ASSUME NEW algo \in Algo, NEW level \in SecurityLevel, NEW id \in Nat,
         NEW pass \in Passphrase, NEW n \in Nat
  PROVE  LET kp == generate(algo, level, id)
             b  == seal(kp, pass, n)
         IN  b \in BundleShape /\ CiphertextOf(b.ciphertext, kp, pass)
<1> DEFINE kp == generate(algo, level, id)
           b  == seal(kp, pass, n)
<1>1. kp \in KeyPairs /\ kp.algo = algo /\ kp.level = level
  BY GeneratedIsTyped
<1> HIDE DEF kp
<1>2. b = [version |-> BUNDLE_VERSION, kind |-> kp.algo, level |-> level_to_u8(kp.level),
           salt |-> HexField(16, n), nonce |-> HexField(NONCE, n),
           ciphertext |->
             [hex |-> TRUE, authentic |-> TRUE,
              data |-> [pk_len |-> kp.pk_bytes.len, pk |-> kp.pk_bytes, sk |-> kp.sk_bytes],
              key |-> [pass |-> pass, salt_len |-> 16, salt |-> n], nonce |-> n]]
  BY SealedBundle
<1>3. /\ kp.pk_bytes \in [tag : {"pk"}, key : Keys, len : Nat]
      /\ kp.sk_bytes \in [tag : {"sk"}, key : Keys, len : Nat]
      /\ kp.pk_bytes.len \in Nat
  BY <1>1 DEF KeyPairs
<1>4. level_to_u8(kp.level) \in 0..255
  BY <1>1, HeaderLevel
<1>5. HexField(16, n) \in HexFields /\ HexField(NONCE, n) \in HexFields
  BY DEF HexField, HexFields, NONCE
<1> HIDE DEF b
<1>6. b \in BundleShape
  BY <1>1, <1>2, <1>3, <1>4, <1>5 DEF BundleShape, CiphertextShape, BUNDLE_VERSION
<1>7. CiphertextOf(b.ciphertext, kp, pass)
  BY <1>2 DEF CiphertextOf
<1> QED
  BY <1>6, <1>7 DEF b, kp

\* Sealing keeps it.
LEMMA SealIInv ==
  ASSUME IInv, NEW s \in Slot, NEW algo \in Algo, NEW level \in SecurityLevel, NEW id \in Nat,
         NEW pass \in Passphrase, SealKeyPair(s, generate(algo, level, id), pass)
  PROVE  IInv'
<1> DEFINE kp == generate(algo, level, id)
<1>1. PICK n \in Nat : n = seals
  BY BundleAssumption DEF IInv, CountsOK
<1>2. PICK b : b = seal(kp, pass, n)
  OBVIOUS
<1>3. PICK x : x = [kp |-> kp, pass |-> pass, bundle |-> b]
  OBVIOUS
<1>4. /\ seals < MaxSeals /\ seals' = seals + 1 /\ damage' = damage
      /\ bundle' = [bundle EXCEPT ![s] = <<b>>] /\ sealings' = sealings \cup {x}
      /\ answer' = <<>>
  BY <1>1, <1>2, <1>3 DEF SealKeyPair, Put
<1>5. CountsOK'
  BY <1>4, BundleAssumption DEF IInv, CountsOK
<1>6. b \in BundleShape /\ CiphertextOf(b.ciphertext, kp, pass)
  BY <1>2, SealShape
<1>7. x.kp = kp /\ x.pass = pass /\ x.bundle = b
  BY <1>3
<1>8. SealingsAreSeals'
  BY <1>1, <1>2, <1>4, <1>7 DEF IInv, SealingsAreSeals
<1> HIDE DEF kp
<1>9. Sealed(b)'
  BY <1>4, <1>6, <1>7 DEF Sealed
<1>10. BundlesAreSealed'
  <2>1. ASSUME NEW t \in Slot, bundle'[t] # <<>>
        PROVE  \E c \in BundleShape : bundle'[t] = <<c>> /\ Sealed(c)'
    <3>1. CASE t = s
      <4>1. bundle'[t] = <<b>>
        BY <1>4, <3>1 DEF IInv
      <4> QED
        BY <1>6, <1>9, <4>1
    <3>2. CASE t # s
      <4>1. bundle'[t] = bundle[t]
        BY <1>4, <3>2 DEF IInv
      <4>2. PICK c \in BundleShape : bundle[t] = <<c>> /\ Sealed(c)
        BY <2>1, <4>1 DEF IInv, BundlesAreSealed
      <4> QED
        BY <1>4, <4>1, <4>2, SealedStays
    <3> QED
      BY <3>1, <3>2
  <2> QED
    BY <2>1 DEF BundlesAreSealed
<1> QED
  BY <1>4, <1>5, <1>8, <1>10 DEF IInv, AnswersAreUnseals

\* What a bundle of a slot opens to: a generated key pair that was sealed.
LEMMA OpensToSealed ==
  ASSUME SealingsAreSeals, NEW b, Sealed(b), NEW algo \in Algo, NEW pass, unseal(b, algo, pass).ok
  PROVE  \E x \in sealings, level \in SecurityLevel, id \in Nat :
           /\ unseal(b, algo, pass).val = x.kp /\ x.kp = generate(algo, level, id)
           /\ x.pass = pass
           /\ b.kind = algo /\ b.level = level_to_u8(level) /\ u8_to_level(b.level).ok
<1>1. PICK x \in sealings : CiphertextOf(b.ciphertext, x.kp, x.pass)
  BY DEF Sealed
<1>2. PICK a1 \in Algo, level \in SecurityLevel, id \in Nat : x.kp = generate(a1, level, id)
  BY DEF SealingsAreSeals
<1>3. CiphertextOf(b.ciphertext, generate(a1, level, id), x.pass)
  BY <1>1, <1>2
<1>4. /\ unseal(b, algo, pass).val = generate(a1, level, id)
      /\ pass = x.pass /\ a1 = algo
      /\ b.kind = algo /\ b.level = level_to_u8(level) /\ u8_to_level(b.level).ok
  BY <1>3, OpensToWhatItIsOf
<1> QED
  BY <1>2, <1>4

\* Sealing under another passphrase keeps it.
LEMMA ResealIInv ==
  ASSUME IInv, NEW s \in Slot, NEW t \in Slot, NEW algo \in Algo,
         NEW old \in Passphrase, NEW new \in Passphrase, Reseal(s, t, algo, old, new)
  PROVE  IInv'
<1>1. bundle[s] # <<>> /\ unseal(bundle[s][1], algo, old).ok
      /\ SealKeyPair(t, unseal(bundle[s][1], algo, old).val, new)
  BY DEF Reseal
<1>2. PICK b \in BundleShape : bundle[s] = <<b>> /\ Sealed(b)
  BY <1>1 DEF IInv, BundlesAreSealed
<1>3. bundle[s][1] = b
  BY <1>2
<1>4. PICK level \in SecurityLevel, id \in Nat :
        unseal(b, algo, old).val = generate(algo, level, id)
  BY <1>1, <1>2, <1>3, OpensToSealed DEF IInv
<1>5. SealKeyPair(t, generate(algo, level, id), new)
  BY <1>1, <1>3, <1>4
<1> QED
  BY <1>5, SealIInv

\* Unsealing keeps it.
LEMMA UnsealIInv ==
  ASSUME IInv, NEW s \in Slot, NEW algo \in Algo, NEW pass \in Passphrase, Unseal(s, algo, pass)
  PROVE  IInv'
<1>1. bundle[s] # <<>> /\ UNCHANGED <<bundle, sealings, seals, damage>>
  BY DEF Unseal
<1>2. PICK b \in BundleShape : bundle[s] = <<b>> /\ Sealed(b)
  BY <1>1 DEF IInv, BundlesAreSealed
<1>3. bundle[s][1] = b
  BY <1>2
<1>4. answer' = <<[bundle |-> b, algo |-> algo, pass |-> pass,
                   result |-> unseal(b, algo, pass)]>>
  BY <1>3 DEF Unseal
<1>5. \A c : Sealed(c)' <=> Sealed(c)
  BY <1>1 DEF Sealed
<1>6. AnswersAreUnseals'
  <2>1. Sealed(b)'
    BY <1>2, <1>5
  <2> QED
    BY <1>4, <2>1 DEF AnswersAreUnseals
<1>7. BundlesAreSealed'
  BY <1>1, <1>5 DEF IInv, BundlesAreSealed
<1> QED
  BY <1>1, <1>6, <1>7 DEF IInv, CountsOK, SealingsAreSeals

\* A changed field is of the type of the field.
LEMMA DamagedShape ==
  ASSUME NEW b \in BundleShape, NEW c \in DamagedHeaders(b) \cup DamagedFields(b)
  PROVE  /\ c \in BundleShape
         /\ c.ciphertext.data = b.ciphertext.data /\ c.ciphertext.key = b.ciphertext.key
<1>1. MaxSeals \in Nat
  BY BundleAssumption
<1>2. CASE c \in DamagedHeaders(b)
  <2>1. c \in BundleShape /\ c.ciphertext = b.ciphertext
    BY <1>2 DEF DamagedHeaders, BundleShape
  <2> QED
    BY <2>1
<1>3. CASE c \in DamagedFields(b)
  <2>1. /\ b.salt \in HexFields /\ b.nonce \in HexFields
    BY DEF BundleShape
  <2>2. \A f \in HexFields :
          /\ [f EXCEPT !.hex = FALSE] \in HexFields
          /\ [f EXCEPT !.val = @ + MaxSeals] \in HexFields
          /\ [f EXCEPT !.len = MIN_SALT - 1, !.val = @ + MaxSeals] \in HexFields
          /\ [f EXCEPT !.len = NONCE - 1, !.val = @ + MaxSeals] \in HexFields
    <3>1. ASSUME NEW f \in HexFields, NEW h \in BOOLEAN PROVE [f EXCEPT !.hex = h] \in HexFields
      BY DEF HexFields
    <3>2. ASSUME NEW f \in HexFields, NEW l \in Nat, NEW v \in Nat
          PROVE  /\ [f EXCEPT !.val = v] \in HexFields
                 /\ [f EXCEPT !.len = l, !.val = v] \in HexFields
      BY DEF HexFields
    <3>3. MIN_SALT - 1 \in Nat /\ NONCE - 1 \in Nat
      BY DEF MIN_SALT, NONCE
    <3>4. \A f \in HexFields : f.val + MaxSeals \in Nat
      BY <1>1 DEF HexFields
    <3> QED
      BY <3>1, <3>2, <3>3, <3>4
  <2>3. CASE \E f \in HexFields : c = [b EXCEPT !.salt = f] \/ c = [b EXCEPT !.nonce = f]
    <3>1. PICK f \in HexFields : c = [b EXCEPT !.salt = f] \/ c = [b EXCEPT !.nonce = f]
      BY <2>3
    <3>2. c \in BundleShape /\ c.ciphertext = b.ciphertext
      BY <3>1 DEF BundleShape
    <3> QED
      BY <3>2
  <2>4. CASE \/ c = [b EXCEPT !.ciphertext.hex = FALSE]
             \/ c = [b EXCEPT !.ciphertext.authentic = FALSE]
    <3>1. PICK ct :
            /\ \E h \in BOOLEAN : \/ ct = [b.ciphertext EXCEPT !.hex = h]
                                 \/ ct = [b.ciphertext EXCEPT !.authentic = h]
            /\ c = [b EXCEPT !.ciphertext = ct]
      BY <2>4, Zenon
    <3>2. b.ciphertext \in CiphertextShape
      BY DEF BundleShape
    <3>3. /\ ct \in CiphertextShape
          /\ ct.data = b.ciphertext.data /\ ct.key = b.ciphertext.key
      BY <3>1, <3>2 DEF CiphertextShape
    <3>4. c \in BundleShape /\ c.ciphertext = ct
      BY <3>1, <3>3 DEF BundleShape
    <3> QED
      BY <3>3, <3>4
  <2>5. \/ \E f \in HexFields : c = [b EXCEPT !.salt = f] \/ c = [b EXCEPT !.nonce = f]
        \/ c = [b EXCEPT !.ciphertext.hex = FALSE]
        \/ c = [b EXCEPT !.ciphertext.authentic = FALSE]
    <3>1. ASSUME NEW f \in {[b.salt EXCEPT !.hex = FALSE], [b.salt EXCEPT !.val = @ + MaxSeals],
                            [b.salt EXCEPT !.len = MIN_SALT - 1, !.val = @ + MaxSeals]}
          PROVE  f \in HexFields
      BY <2>1, <2>2
    <3>2. ASSUME NEW f \in {[b.nonce EXCEPT !.hex = FALSE], [b.nonce EXCEPT !.val = @ + MaxSeals],
                            [b.nonce EXCEPT !.len = NONCE - 1, !.val = @ + MaxSeals]}
          PROVE  f \in HexFields
      BY <2>1, <2>2
    <3> QED
      BY <1>3, <3>1, <3>2, Zenon DEF DamagedFields
  <2> QED
    BY <2>3, <2>4, <2>5
<1> QED
  BY <1>2, <1>3

\* A splice has the ciphertext of one of the two.
LEMMA SpliceShape ==
  ASSUME NEW b \in BundleShape, NEW c \in BundleShape, NEW d \in Splices(b, c)
  PROVE  /\ d \in BundleShape
         /\ d.ciphertext = b.ciphertext \/ d.ciphertext = c.ciphertext
<1>1. /\ c.salt \in HexFields /\ c.nonce \in HexFields /\ c.ciphertext \in CiphertextShape
  BY DEF BundleShape
<1>2. CASE d = [b EXCEPT !.ciphertext = c.ciphertext]
  BY <1>1, <1>2 DEF BundleShape
<1>3. CASE d = [b EXCEPT !.salt = c.salt, !.nonce = c.nonce]
  BY <1>1, <1>3 DEF BundleShape
<1>4. CASE d = [b EXCEPT !.salt = c.salt, !.nonce = c.nonce, !.ciphertext = c.ciphertext]
  BY <1>1, <1>4 DEF BundleShape
<1> QED
  BY <1>2, <1>3, <1>4 DEF Splices

\* Damage keeps it.
LEMMA DamageIInv ==
  ASSUME IInv, NEW s \in Slot, Damage(s)
  PROVE  IInv'
<1>1. /\ bundle[s] # <<>> /\ damage < MaxDamage /\ damage' = damage + 1
      /\ UNCHANGED <<sealings, seals>> /\ answer' = <<>>
  BY DEF Damage
<1>2. PICK b \in BundleShape : bundle[s] = <<b>> /\ Sealed(b)
  BY <1>1 DEF IInv, BundlesAreSealed
<1>3. bundle[s][1] = b
  BY <1>2
<1>4. PICK d \in BundleShape : bundle' = [bundle EXCEPT ![s] = <<d>>] /\ Sealed(d)
  <2>1. CASE \E d \in DamagedHeaders(b) \cup DamagedFields(b) : Put(s, d)
    <3>1. PICK d \in DamagedHeaders(b) \cup DamagedFields(b) : Put(s, d)
      BY <2>1
    <3>2. /\ d \in BundleShape
          /\ d.ciphertext.data = b.ciphertext.data /\ d.ciphertext.key = b.ciphertext.key
      BY DamagedShape
    <3>3. Sealed(d)
      BY <1>2, <3>2 DEF Sealed, CiphertextOf
    <3> QED
      BY <3>1, <3>2, <3>3 DEF Put
  <2>2. CASE \E t \in Slot \ {s} : /\ bundle[t] # <<>>
                                  /\ \E d \in Splices(b, bundle[t][1]) : Put(s, d)
    <3>1. PICK t \in Slot : bundle[t] # <<>> /\ \E d \in Splices(b, bundle[t][1]) : Put(s, d)
      BY <2>2
    <3>2. PICK c \in BundleShape : bundle[t] = <<c>> /\ Sealed(c)
      BY <3>1 DEF IInv, BundlesAreSealed
    <3>3. bundle[t][1] = c
      BY <3>2
    <3>4. PICK d \in Splices(b, c) : Put(s, d)
      BY <3>1, <3>3
    <3>5. d \in BundleShape /\ (d.ciphertext = b.ciphertext \/ d.ciphertext = c.ciphertext)
      BY SpliceShape
    <3>6. Sealed(d)
      BY <1>2, <3>2, <3>5 DEF Sealed
    <3> QED
      BY <3>4, <3>5, <3>6 DEF Put
  <2> QED
    BY <1>3, <2>1, <2>2 DEF Damage
<1>5. \A c : Sealed(c) => Sealed(c)'
  BY <1>1 DEF Sealed
<1>6. BundlesAreSealed'
  <2>1. ASSUME NEW t \in Slot, bundle'[t] # <<>>
        PROVE  \E c \in BundleShape : bundle'[t] = <<c>> /\ Sealed(c)'
    <3>1. CASE t = s
      <4>1. bundle'[t] = <<d>>
        BY <1>4, <3>1 DEF IInv
      <4> QED
        BY <1>4, <1>5, <4>1
    <3>2. CASE t # s
      <4>1. bundle'[t] = bundle[t]
        BY <1>4, <3>2 DEF IInv
      <4>2. PICK c \in BundleShape : bundle[t] = <<c>> /\ Sealed(c)
        BY <2>1, <4>1 DEF IInv, BundlesAreSealed
      <4> QED
        BY <1>5, <4>1, <4>2
    <3> QED
      BY <3>1, <3>2
  <2> QED
    BY <2>1 DEF BundlesAreSealed
<1>7. CountsOK'
  BY <1>1, BundleAssumption DEF IInv, CountsOK
<1>8. DOMAIN bundle' = Slot
  BY <1>4 DEF IInv
<1> QED
  BY <1>1, <1>6, <1>7, <1>8 DEF IInv, SealingsAreSeals, AnswersAreUnseals

LEMMA NextIInv ==
  ASSUME IInv, [Next]_vars
  PROVE  IInv'
<1>1. ASSUME NEW s \in Slot, Damage(s) PROVE IInv'
  BY <1>1, DamageIInv
<1>2. ASSUME NEW s \in Slot, NEW algo \in Algo, NEW pass \in Passphrase, Unseal(s, algo, pass)
      PROVE  IInv'
  BY <1>2, UnsealIInv
<1>3. ASSUME NEW s \in Slot, NEW algo \in Algo, NEW pass \in Passphrase,
             NEW level \in SecurityLevel, Seal(s, algo, level, pass)
      PROVE  IInv'
  <2>1. PICK id \in Nat : id = seals
    BY BundleAssumption DEF IInv, CountsOK
  <2>2. SealKeyPair(s, generate(algo, level, id), pass)
    BY <1>3, <2>1 DEF Seal
  <2> QED
    BY <2>2, SealIInv
<1>4. ASSUME NEW s \in Slot, NEW algo \in Algo, NEW pass \in Passphrase,
             NEW t \in Slot, NEW new \in Passphrase, Reseal(s, t, algo, pass, new)
      PROVE  IInv'
  BY <1>4, ResealIInv
<1>5. CASE UNCHANGED vars
  BY <1>5 DEF vars, IInv, CountsOK, SealingsAreSeals, BundlesAreSealed, AnswersAreUnseals, Sealed
<1> QED
  BY <1>1, <1>2, <1>3, <1>4, <1>5 DEF Next

LEMMA IInvAlways == Spec => []IInv
BY InitIInv, NextIInv, PTL DEF Spec

-----------------------------------------------------------------------------
(* The invariants of the runs. *)

\* What the answer of a state in IInv is, when there is one.
LEMMA TheAnswer ==
  ASSUME IInv, NEW a \in Answers
  PROVE  \E b \in BundleShape, algo \in Algo, pass \in Passphrase :
           /\ Sealed(b)
           /\ a = [bundle |-> b, algo |-> algo, pass |-> pass, result |-> unseal(b, algo, pass)]
<1>1. answer # <<>>
  BY DEF Answers
<1>2. PICK b \in BundleShape, algo \in Algo, pass \in Passphrase :
        /\ Sealed(b)
        /\ answer = <<[bundle |-> b, algo |-> algo, pass |-> pass,
                       result |-> unseal(b, algo, pass)]>>
  BY <1>1 DEF IInv, AnswersAreUnseals
<1> DEFINE r == [bundle |-> b, algo |-> algo, pass |-> pass, result |-> unseal(b, algo, pass)]
<1> HIDE DEF r
<1>3. answer = <<r>>
  BY <1>2 DEF r
<1>4. a = r
  BY <1>3 DEF Answers
<1> QED
  BY <1>2, <1>4 DEF r

\* What a key pair that came out is.
LEMMA TheRestored ==
  ASSUME IInv, NEW a \in Restored
  PROVE  \E x \in sealings, algo \in Algo, level \in SecurityLevel, id \in Nat :
           /\ a.result.val = x.kp /\ x.kp = generate(algo, level, id)
           /\ x.pass = a.pass /\ a.algo = algo
           /\ a.bundle.kind = algo /\ a.bundle.level = level_to_u8(level)
           /\ u8_to_level(a.bundle.level).ok
<1>1. a \in Answers /\ a.result.ok
  BY DEF Restored
<1>2. PICK b \in BundleShape, algo \in Algo, pass \in Passphrase :
        /\ Sealed(b)
        /\ a = [bundle |-> b, algo |-> algo, pass |-> pass, result |-> unseal(b, algo, pass)]
  BY <1>1, TheAnswer
<1>3. a.bundle = b /\ a.algo = algo /\ a.pass = pass /\ a.result = unseal(b, algo, pass)
  BY <1>2
<1>4. PICK x \in sealings, level \in SecurityLevel, id \in Nat :
        /\ unseal(b, algo, pass).val = x.kp /\ x.kp = generate(algo, level, id)
        /\ x.pass = pass
        /\ b.kind = algo /\ b.level = level_to_u8(level) /\ u8_to_level(b.level).ok
  BY <1>1, <1>2, <1>3, OpensToSealed DEF IInv
<1> QED
  BY <1>3, <1>4

LEMMA IInvTypes == IInv => TypeOK
<1> SUFFICES ASSUME IInv PROVE TypeOK
  OBVIOUS
<1>1. ASSUME NEW s \in Slot, bundle[s] # <<>> PROVE BundleJson(bundle[s][1])
  <2>1. PICK b \in BundleShape : bundle[s] = <<b>>
    BY <1>1 DEF IInv, BundlesAreSealed
  <2>2. bundle[s][1] = b
    BY <2>1
  <2>3. BundleJson(b)
    BY DEF BundleJson, BundleShape, CiphertextShape
  <2> QED
    BY <2>2, <2>3
<1>2. \A x \in sealings : x.kp \in KeyPairs /\ x.pass \in Passphrase
  BY GeneratedIsTyped DEF IInv, SealingsAreSeals
<1>3. \A a \in Restored : a.result.val \in KeyPairs
  BY <1>2, TheRestored
<1> QED
  BY <1>1, <1>2, <1>3 DEF TypeOK, IInv, CountsOK

LEMMA IInvUnsealed == IInv => UnsealedWasSealed
<1> SUFFICES ASSUME IInv, NEW a \in Restored
             PROVE  /\ \E x \in sealings : x.kp = a.result.val /\ x.pass = a.pass
                    /\ a.result.val.algo = a.algo
  BY DEF UnsealedWasSealed
<1>1. PICK x \in sealings, algo \in Algo, level \in SecurityLevel, id \in Nat :
        /\ a.result.val = x.kp /\ x.kp = generate(algo, level, id)
        /\ x.pass = a.pass /\ a.algo = algo
  BY TheRestored
<1>2. generate(algo, level, id).algo = algo
  BY GeneratedIsTyped
<1> QED
  BY <1>1, <1>2

LEMMA IInvInspect == IInv => InspectAgrees
<1> SUFFICES ASSUME IInv, NEW a \in Restored
             PROVE  inspect(a.bundle).variant
                      = <<a.result.val.algo, level_to_u8(a.result.val.level)>>
  BY DEF InspectAgrees
<1>1. PICK algo \in Algo, level \in SecurityLevel, id \in Nat :
        /\ a.result.val = generate(algo, level, id)
        /\ a.bundle.kind = algo /\ a.bundle.level = level_to_u8(level)
        /\ u8_to_level(a.bundle.level).ok
  BY TheRestored
<1>2. generate(algo, level, id).algo = algo /\ generate(algo, level, id).level = level
  BY GeneratedIsTyped
<1>3. inspect(a.bundle).variant = <<algo, level_to_u8(level)>>
  BY <1>1 DEF inspect
<1> QED
  BY <1>1, <1>2, <1>3

LEMMA IInvUntouched == IInv => UntouchedOpens
<1> SUFFICES ASSUME IInv, NEW a \in Answers, NEW x \in sealings, a.bundle = x.bundle
             PROVE  a.result.ok <=> a.pass = x.pass /\ a.algo = x.kp.algo
  BY DEF UntouchedOpens
<1>1. PICK b \in BundleShape, algo \in Algo, pass \in Passphrase :
        a = [bundle |-> b, algo |-> algo, pass |-> pass, result |-> unseal(b, algo, pass)]
  BY TheAnswer
<1>2. a.bundle = b /\ a.algo = algo /\ a.pass = pass /\ a.result = unseal(b, algo, pass)
  BY <1>1
<1>3. PICK a1 \in Algo, level \in SecurityLevel, id \in Nat, n \in Nat :
        x.kp = generate(a1, level, id) /\ x.bundle = seal(x.kp, x.pass, n)
  BY DEF IInv, SealingsAreSeals
<1>4. b = seal(generate(a1, level, id), x.pass, n) /\ x.pass \in Passphrase
  BY <1>2, <1>3 DEF IInv, SealingsAreSeals
<1>5. x.kp.algo = a1
  BY <1>3, GeneratedIsTyped
<1>6. ASSUME a.result.ok PROVE pass = x.pass /\ algo = a1
  <2>1. PICK sealed : sealed = x.pass
    OBVIOUS
  <2>2. CiphertextOf(b.ciphertext, generate(a1, level, id), sealed)
    BY <1>4, <2>1, SealShape
  <2>3. unseal(b, algo, pass).ok
    BY <1>2, <1>6
  <2>4. /\ unseal(b, algo, pass).val = generate(a1, level, id)
        /\ pass = sealed /\ a1 = algo
        /\ b.kind = algo /\ b.level = level_to_u8(level) /\ u8_to_level(b.level).ok
    BY <2>2, <2>3, OpensToWhatItIsOf
  <2> QED
    BY <2>1, <2>4
<1>7. ASSUME pass = x.pass, algo = a1 PROVE a.result.ok
  <2>1. unseal(seal(generate(a1, level, id), x.pass, n), a1, x.pass).ok
    BY UntouchedGives
  <2> QED
    BY <1>2, <1>4, <1>7, <2>1
<1> QED
  BY <1>2, <1>5, <1>6, <1>7

\* Every bundle, however it was damaged, is what BundleJson can hold, and every key pair
\* that comes out of unseal is typed (serial.rs:97-110).
THEOREM TypesHold == Spec => []TypeOK
BY IInvAlways, IInvTypes, PTL

\* Whatever is edited or spliced in the JSON, unseal gives a key pair that was sealed,
\* under the passphrase it was sealed with and of the kind asked for (serial.rs:169-198).
THEOREM OnlySealedComesOut == Spec => []UnsealedWasSealed
BY IInvAlways, IInvUnsealed, PTL

\* What inspect prints of a bundle that opens is what comes out of it (serial.rs:201-222).
THEOREM InspectIsRight == Spec => []InspectAgrees
BY IInvAlways, IInvInspect, PTL

\* An untouched bundle opens with its passphrase and kind, and with nothing else.
THEOREM SealedCanBeOpened == Spec => []UntouchedOpens
BY IInvAlways, IInvUntouched, PTL
=============================================================================
