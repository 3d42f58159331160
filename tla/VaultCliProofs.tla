---------------------------- MODULE VaultCliProofs ----------------------------
(***************************************************************************)
(* Safety of VaultCli for every set of shells, paths, messages and command *)
(* lines: SafetyInv is inductive, and types, ValidMeansSigned and          *)
(* PublishedIsStored follow.  One lemma per action.                        *)
(***************************************************************************)
EXTENDS VaultCli, SequenceTheorems, TLAPS

-----------------------------------------------------------------------------
(* What the operators VaultCli is built from return, preserve and bound.   *)

\* All lengths are natural numbers, and no ciphertext is as short as a shared secret.
LEMMA SizeType ==
  ASSUME NEW algo \in Algo, NEW level \in SecurityLevel
  PROVE  /\ SizeOf(algo, level).public_key \in Nat
         /\ SizeOf(algo, level).private_key \in Nat
         /\ DsaSizes[level].product \in Nat
         /\ KemSizes[level].product \in Nat
         /\ KemSizes[level].product # SHARED_SECRET
<1>1. CASE level = "Level1"
  BY <1>1 DEF SizeOf, KemSizes, DsaSizes, SHARED_SECRET
<1>2. CASE level = "Level3"
  BY <1>2 DEF SizeOf, KemSizes, DsaSizes, SHARED_SECRET
<1>3. CASE level = "Level5"
  BY <1>3 DEF SizeOf, KemSizes, DsaSizes, SHARED_SECRET
<1> QED
  BY <1>1, <1>2, <1>3 DEF SecurityLevel

\* The levels survive the trip through the bundle's header.
LEMMA LevelRoundTrip ==
  ASSUME NEW level \in SecurityLevel
  PROVE  /\ level_to_u8(level) \in {1, 3, 5}
         /\ u8_to_level(level_to_u8(level)) = Ok(level)
<1>1. \/ level = "Level1" /\ level_to_u8(level) = 1
      \/ level = "Level3" /\ level_to_u8(level) = 3
      \/ level = "Level5" /\ level_to_u8(level) = 5
  BY DEF SecurityLevel, level_to_u8
<1>2. /\ u8_to_level(1) = Ok("Level1") /\ u8_to_level(3) = Ok("Level3")
      /\ u8_to_level(5) = Ok("Level5")
  BY DEF u8_to_level
<1> QED
  BY <1>1, <1>2

LEMMA LevelType ==
  ASSUME NEW n, u8_to_level(n).ok
  PROVE  u8_to_level(n).val \in SecurityLevel
<1>1. n = 1 \/ n = 3 \/ n = 5
  BY DEF u8_to_level, Err
<1> QED
  BY <1>1 DEF SecurityLevel, u8_to_level, Ok

\* And so does the one a command line asks for.
LEMMA ParsedLevel ==
  ASSUME NEW n, parse_level(n).ok
  PROVE  parse_level(n).val \in SecurityLevel
<1>1. n = 1 \/ n = 3 \/ n = 5
  BY DEF parse_level, Err
<1> QED
  BY <1>1 DEF SecurityLevel, parse_level, Ok

\* A generated key pair, its public key, and the bundle it is sealed in, have their types.
LEMMA GenerateType ==
  ASSUME NEW algo \in Algo, NEW level \in SecurityLevel, NEW id \in Nat
  PROVE  /\ generate(algo, level, id) \in KeyPair
         /\ generate(algo, level, id).pk_bytes.key = KeyOf(algo, level, id)
         /\ KeyOf(algo, level, id) \in Key
<1>1. KeyOf(algo, level, id) \in Key
  BY DEF KeyOf, Key
<1>2. PkBytes(KeyOf(algo, level, id)) \in PkString
  BY <1>1, SizeType DEF PkBytes, PkString, KeyOf
<1>3. SkBytes(KeyOf(algo, level, id)) \in SkString
  BY <1>1, SizeType DEF SkBytes, SkString, KeyOf
<1> QED
  BY <1>1, <1>2, <1>3 DEF generate, kem_generate, dsa_generate, KeyPair, PkBytes, Algo

LEMMA PemDocType ==
  ASSUME NEW kp \in KeyPair
  PROVE  /\ PemDoc(public_key_to_pem(public_key(kp))) \in OutDocType
         /\ PemDoc(public_key_to_pem(public_key(kp))).pem.bytes = kp.pk_bytes
  BY DEF PemDoc, public_key_to_pem, public_key, OutDocType, PemType, KeyPair

LEMMA SealType ==
  ASSUME NEW kp \in KeyPair, NEW pass \in Passphrase, NEW rnd \in Nat
  PROVE  /\ seal(kp, pass, rnd) \in BundleType
         /\ seal(kp, pass, rnd).ciphertext.data.pk = kp.pk_bytes
<1> DEFINE e == encrypt(encode_plaintext(export(kp)), pass, rnd)
<1>1. encode_plaintext(export(kp)) \in PlaintextType
  BY DEF encode_plaintext, export, PlaintextType, KeyPair, PkString
<1>2. derive_key(pass, HexField(16, rnd)).val \in [pass : Passphrase, salt_len : Nat, salt : Nat]
  BY DEF derive_key, HexField, MIN_SALT, Ok
<1>3. e.ciphertext \in CiphertextType
  BY <1>1, <1>2 DEF encrypt, CiphertextType, HexField
<1>4. e.salt \in HexFieldType /\ e.nonce \in HexFieldType
  BY DEF encrypt, HexFieldType, HexField, NONCE
<1>5. e.ciphertext.data.pk = kp.pk_bytes
  BY DEF encrypt, encode_plaintext, export
<1>6. level_to_u8(kp.level) \in {1, 3, 5}
  BY LevelRoundTrip DEF KeyPair
<1> QED
  BY <1>3, <1>4, <1>5, <1>6 DEF seal, BundleType, KeyPair, BUNDLE_VERSION

\* What opens is what was sealed, split where it was joined.
LEMMA UnsealType ==
  ASSUME NEW b \in BundleType, NEW algo \in Algo, NEW pass, unseal(b, algo, pass).ok
  PROVE  /\ unseal(b, algo, pass).val \in KeyPair
         /\ unseal(b, algo, pass).val.pk_bytes = b.ciphertext.data.pk
<1> DEFINE data == decrypt(b, pass)
           keys == decode_plaintext(data.val)
           level == u8_to_level(b.level)
<1>1. level.ok /\ data.ok /\ keys.ok /\ into_keypair(algo, level.val, keys.val.pk, keys.val.sk).ok
      /\ unseal(b, algo, pass) = into_keypair(algo, level.val, keys.val.pk, keys.val.sk)
  BY Zenon DEF unseal, Err
<1>2. data.val = b.ciphertext.data
  BY <1>1 DEF decrypt, Ok, Err, Panic, derive_key
<1>3. b.ciphertext.data \in PlaintextType
  BY DEF BundleType, CiphertextType
<1>4. keys.val.pk = b.ciphertext.data.pk /\ keys.val.sk = b.ciphertext.data.sk
  BY <1>1, <1>2, <1>3 DEF decode_plaintext, PlaintextType, Ok, Err
<1>5. level.val \in SecurityLevel
  BY <1>1, LevelType
<1> QED
  BY <1>1, <1>3, <1>4, <1>5
  DEF into_keypair, kem_from_bytes, dsa_from_bytes, Ok, Err, KeyPair, PlaintextType, Algo

-----------------------------------------------------------------------------
(* Operations on keys. *)

LEMMA EncapsulateType ==
  ASSUME NEW pub \in PublicKey, NEW rnd \in Nat, encapsulate(pub, rnd).ok
  PROVE  /\ encapsulate(pub, rnd).val.ct \in CtString
         /\ encapsulate(pub, rnd).val.secret \in SsString
<1>1. encapsulate(pub, rnd).val = [ct     |-> CtBytes(pub.bytes, pub.level, rnd),
                                   secret |-> SsBytes(pub.bytes, rnd)]
  BY DEF encapsulate, Ok, Err
<1>2. pub.bytes \in PkString /\ pub.level \in SecurityLevel
  BY DEF PublicKey
<1>3. CtBytes(pub.bytes, pub.level, rnd) \in CtString
  BY <1>2, SizeType DEF CtBytes, CtString, Algo
<1>4. SsBytes(pub.bytes, rnd) \in SsString
  BY <1>2 DEF SsBytes, SsString
<1> QED
  BY <1>1, <1>3, <1>4

\* A secret is never decapsulated from what another decapsulation rejected.
LEMMA DecapsulateType ==
  ASSUME NEW kp \in KeyPair, NEW ct \in ByteString, decapsulate(kp, ct).ok
  PROVE  /\ ct \in PlainString
         /\ decapsulate(kp, ct).val \in ByteString
         /\ decapsulate(kp, ct).val.tag # "sig"
<1>1. ct.len = KemSizes[kp.level].product
      /\ decapsulate(kp, ct).val = kyber_decapsulate(ct, kp.sk_bytes)
  BY DEF decapsulate, Ok, Err
<1>2. kp.level \in SecurityLevel /\ kp.sk_bytes \in SkString
  BY DEF KeyPair
<1>3. ct \in PlainString
  BY <1>1, <1>2, SizeType DEF ByteString, RejectedString, Algo
<1>4. CASE ct.tag = "ct" /\ ct.pk = PkBytes(kp.sk_bytes.key)
  <2>1. ct \in CtString
    BY <1>3, <1>4 DEF PlainString, PkString, SkString, JunkString, SsString, SigString
  <2>2. kyber_decapsulate(ct, kp.sk_bytes) = SsBytes(ct.pk, ct.rnd)
    BY <1>2, <1>4 DEF kyber_decapsulate, SkString
  <2>3. SsBytes(ct.pk, ct.rnd) \in SsString
    BY <2>1 DEF CtString, SsBytes, SsString
  <2> QED
    BY <1>1, <1>3, <2>2, <2>3 DEF ByteString, PlainString, SsString
<1>5. CASE ~(ct.tag = "ct" /\ ct.pk = PkBytes(kp.sk_bytes.key))
  <2>1. kyber_decapsulate(ct, kp.sk_bytes) =
          [tag |-> "rejected", sk |-> kp.sk_bytes, ct |-> ct, len |-> SHARED_SECRET]
    BY <1>5 DEF kyber_decapsulate
  <2>2. kyber_decapsulate(ct, kp.sk_bytes) \in RejectedString
    BY <1>2, <1>3, <2>1 DEF RejectedString
  <2> QED
    BY <1>1, <1>3, <2>1, <2>2 DEF ByteString
<1> QED
  BY <1>4, <1>5

LEMMA SignType ==
  ASSUME NEW kp \in KeyPair, NEW m \in Message, sign(kp, m).ok
  PROVE  /\ sign(kp, m).val \in SigString
         /\ sign(kp, m).val.sk = kp.sk_bytes
         /\ sign(kp, m).val.msg = m
<1>1. sign(kp, m).val = SigBytes(kp.sk_bytes, kp.level, m)
  BY DEF sign, Ok, Err
<1>2. kp.level \in SecurityLevel /\ kp.sk_bytes \in SkString
  BY DEF KeyPair
<1> QED
  BY <1>1, <1>2, SizeType DEF SigBytes, SigString, Algo

\* Only the signature of this message by this key verifies.
LEMMA VerifiedIsSignature ==
  ASSUME NEW pub, NEW m, NEW sig, verify_with_typed_key(pub, m, sig).ok
  PROVE  sig.tag = "sig" /\ sig.sk.key = pub.bytes.key /\ sig.msg = m
  BY DEF verify_with_typed_key, dilithium_verifies, Ok, Err, SkBytes

-----------------------------------------------------------------------------
(* Files. *)

\* What a document holds is given by its kind.
LEMMA DocContent ==
  ASSUME NEW d \in DocType
  PROVE  /\ d.kind = "bundle" => d.bundle \in BundleType
         /\ d.kind = "pem" => d.pem \in PemType
         /\ d.kind = "hex" => d.bytes \in ByteString
         /\ d.kind = "msg" => d.msg \in Message
<1>1. CASE d \in OutDocType
  BY <1>1 DEF OutDocType
<1>2. CASE d \in [kind : {"msg"}, msg : Message]
  BY <1>2
<1>3. CASE d \in {MissingDoc, EmptyDoc, MixedDoc}
  BY <1>3 DEF MissingDoc, EmptyDoc, MixedDoc
<1> QED
  BY <1>1, <1>2, <1>3 DEF DocType

LEMMA DocLenType ==
  ASSUME NEW d \in DocType
  PROVE  DocLen(d) \in Nat
<1>1. CASE d.kind = "bundle"
  <2>1. d.bundle.ciphertext.data \in PlaintextType
    BY <1>1, DocContent DEF BundleType, CiphertextType
  <2>2. CiphertextLen(d.bundle) \in Nat
    BY <2>1 DEF CiphertextLen, PlaintextLen, PlaintextType, PkString, SkString, GCM_TAG
  <2> QED
    BY <1>1, <2>2 DEF DocLen
<1>2. CASE d.kind = "pem"
  <2>1. d.pem \in PemType
    BY <1>2, DocContent
  <2>2. d.pem.bytes.len \in Nat
    BY <2>1 DEF PemType, PkString
  <2>3. VariantLen(d.pem.label, d.pem.header) \in Nat
    BY DEF VariantLen
  <2>4. Base64Len(d.pem.bytes.len) \in Nat
    BY <2>2 DEF Base64Len
  <2>5. 111 + VariantLen(d.pem.label, d.pem.header) + Base64Len(d.pem.bytes.len)
          + (Base64Len(d.pem.bytes.len) - 1) \div 64 \in Nat
    BY <2>3, <2>4
  <2> QED
    BY <1>2, <2>5 DEF DocLen, PemLen
<1>3. CASE d.kind = "hex"
  <2>1. d.bytes \in ByteString
    BY <1>3, DocContent
  <2>2. d.bytes.len \in Nat
    BY <2>1 DEF ByteString, PlainString, RejectedString, PkString, SkString, JunkString,
                CtString, SsString, SigString, SHARED_SECRET
  <2> QED
    BY <1>3, <2>2 DEF DocLen
<1>4. CASE d.kind \notin {"bundle", "pem", "hex"}
  BY <1>4 DEF DocLen
<1> QED
  BY <1>1, <1>2, <1>3, <1>4

\* What a sequence of two holds.
LEMMA PairMembers ==
  ASSUME NEW a, NEW b
  PROVE  \A i \in DOMAIN <<a, b>> : <<a, b>>[i] \in {a, b}
OBVIOUS

\* Each step of fs::write leaves a file; a file that holds a whole document after the
\* first block was written held it before.
LEMMA WriteType ==
  ASSUME NEW f \in FileType, NEW d \in OutDocType
  PROVE  /\ Truncated \in FileType /\ Truncated.doc = EmptyDoc
         /\ FirstBlockOver(f, d) \in FileType
         /\ FirstBlockOver(f, d).doc \in {d, MixedDoc}
         /\ WrittenOver(f, d) \in FileType /\ WrittenOver(f, d).doc = d
<1>1. d \in DocType /\ DocLen(d) \in Nat
  BY DocLenType DEF DocType
<1>2. f.len \in Nat
  BY DEF FileType
<1>3. Truncated \in FileType /\ Truncated.doc = EmptyDoc
  BY DEF Truncated, File, FileType, DocType
<1>4. FirstBlockOver(f, d) \in FileType /\ FirstBlockOver(f, d).doc \in {d, MixedDoc}
  BY <1>1, <1>2 DEF FirstBlockOver, File, FileType, DocType, Longer, BLOCK
<1>5. WrittenOver(f, d) \in FileType /\ WrittenOver(f, d).doc = d
  BY <1>1, <1>2 DEF WrittenOver, File, FileType, Longer
<1> QED
  BY <1>3, <1>4, <1>5

\* A PEM document of which only the first block is written cannot be read, unless it was
\* there already.
LEMMA FirstBlockUnreadable ==
  ASSUME NEW f \in FileType, NEW d \in OutDocType, DocLen(d) > BLOCK,
         pem_in(FirstBlockOver(f, d)).ok
  PROVE  pem_in(f).ok /\ FirstBlockOver(f, d).doc = f.doc
<1>1. DocLen(d) \in Nat /\ f.len \in Nat
  BY DocLenType DEF DocType, FileType
<1>2. CASE f.len > BLOCK /\ f.doc # d
  BY <1>2 DEF FirstBlockOver, File, pem_in, MixedDoc, Err
<1>3. CASE f.len > BLOCK /\ f.doc = d
  <2>1. FirstBlockOver(f, d) = [doc |-> d, len |-> f.len]
    BY <1>1, <1>3 DEF FirstBlockOver, File, Longer, BLOCK
  <2>2. f = [doc |-> d, len |-> f.len]
    BY <1>3 DEF FileType
  <2>3. FirstBlockOver(f, d) = f
    BY <2>1, <2>2, Zenon
  <2> QED
    BY <2>3, Zenon
<1>4. CASE ~(f.len > BLOCK)
  BY <1>1, <1>4 DEF FirstBlockOver, File, pem_in, Err, Ok, Longer, BLOCK
<1> QED
  BY <1>2, <1>3, <1>4

LEMMA PemInType ==
  ASSUME NEW f \in FileType, pem_in(f).ok
  PROVE  pem_in(f).val \in PemType /\ f.doc.kind = "pem" /\ pem_in(f).val = f.doc.pem
<1>1. f.doc.kind = "pem" /\ pem_in(f).val = f.doc.pem
  BY DEF pem_in, Ok, Err
<1> QED
  BY <1>1, DocContent DEF FileType

LEMMA PublicKeyFromPemType ==
  ASSUME NEW pem \in PemType, NEW algo \in Algo, public_key_from_pem(algo, pem).ok
  PROVE  /\ public_key_from_pem(algo, pem).val \in PublicKey
         /\ public_key_from_pem(algo, pem).val.bytes = pem.bytes
<1>1. decode_pem(pem, algo) = Ok([level |-> pem.header, bytes |-> pem.bytes])
  BY DEF public_key_from_pem, decode_pem, Ok, Err
<1>2. public_key_from_pem(algo, pem) = from_validated(algo, pem.header, pem.bytes)
  BY <1>1 DEF public_key_from_pem, Ok
<1> QED
  BY <1>2 DEF from_validated, kem_from_validated, dsa_from_validated, PublicKey, PemType,
              Ok, Err, Algo

LEMMA FromJsonType ==
  ASSUME NEW f \in FileType, from_json(f).ok
  PROVE  from_json(f).val \in BundleType
<1>1. f.doc.kind = "bundle" /\ from_json(f).val = f.doc.bundle
  BY DEF from_json, Ok, Err
<1> QED
  BY <1>1, DocContent DEF FileType

\* A signature that is read is the one the file holds.
LEMMA HexDecodeType ==
  ASSUME NEW f \in FileType, hex_decode(f).ok
  PROVE  /\ hex_decode(f).val \in ByteString
         /\ hex_decode(f).val.tag = "sig" =>
              f.doc.kind = "hex" /\ f.doc.bytes = hex_decode(f).val
<1>1. CASE f.doc.kind = "hex" /\ Intact(f)
  <2>1. f.doc.bytes \in ByteString
    BY <1>1, DocContent DEF FileType
  <2> QED
    BY <1>1, <2>1 DEF hex_decode, Ok
<1>2. CASE ~(f.doc.kind = "hex" /\ Intact(f))
  <2>1. hex_decode(f).val = Junk(f.len \div 2)
    BY <1>2 DEF hex_decode, Ok, Err
  <2>2. f.len \div 2 \in Nat
    BY DEF FileType
  <2>3. Junk(f.len \div 2) \in JunkString
    BY <2>2 DEF Junk, JunkString
  <2> QED
    BY <2>1, <2>3 DEF ByteString, PlainString, Junk
<1> QED
  BY <1>1, <1>2

-----------------------------------------------------------------------------
(* The commands. *)

\* An ended command holds nothing and writes nothing.
LEMMA ExitProcess ==
  ASSUME ProcessTypeOK, NEW p \in Shell, NEW code \in Ended, Exit(p, code)
  PROVE  ProcessTypeOK'
<1> USE DEF ProcessTypeOK
<1>1. /\ pc' = [pc EXCEPT ![p] = code] /\ cmd' = [cmd EXCEPT ![p] = NoCommand]
      /\ local' = [local EXCEPT ![p] = <<>>] /\ out' = [out EXCEPT ![p] = <<>>]
  BY DEF Exit
<1>2. ASSUME NEW q \in Shell PROVE (LocalTypeOK(q) /\ OutTypeOK(q) /\ CommandTypeOK(q))'
  <2>1. CASE q = p
    BY <1>1, <2>1 DEF LocalTypeOK, OutTypeOK, CommandTypeOK, Running, Ended
  <2>2. CASE q # p
    BY <1>1, <2>2 DEF LocalTypeOK, OutTypeOK, CommandTypeOK, Running
  <2> QED
    BY <2>1, <2>2
<1> QED
  BY <1>1, <1>2

LEMMA ExitSafe ==
  ASSUME SafetyInv, NEW p \in Shell, NEW code \in Ended, Exit(p, code),
         HistoryTypeOK', ValidMeansSigned', UNCHANGED <<fs, stored, published, signed>>
  PROVE  SafetyInv'
<1>1. TypeOK'
  BY ExitProcess DEF SafetyInv, TypeOK, FilesTypeOK
<1>2. \A q \in Shell : out'[q] = out[q] \/ out'[q] = <<>>
  BY DEF Exit, SafetyInv, TypeOK, ProcessTypeOK
<1>3. \A q \in Shell : \/ pc'[q] \in Ended
                       \/ pc'[q] = pc[q] /\ local'[q] = local[q]
  BY DEF Exit, SafetyInv, TypeOK, ProcessTypeOK
<1>4. SignaturesAreSigned'
  BY <1>2 DEF SafetyInv, SignaturesAreSigned
<1>5. ReadableIsPublished'
  BY <1>3 DEF SafetyInv, ReadableIsPublished, Ended
<1>6. BundleGoesFirst'
  <2>1. ASSUME NEW q \in Shell, NEW i \in DOMAIN out'[q], out'[q][i].doc.kind = "pem"
        PROVE  \/ out'[q][i].doc.pem.bytes.key \in stored'
               \/ \E j \in DOMAIN out'[q] :
                    /\ j < i /\ out'[q][j].doc.kind = "bundle"
                    /\ out'[q][j].doc.bundle.ciphertext.data.pk.key =
                         out'[q][i].doc.pem.bytes.key
    <3>1. out'[q] = out[q]
      BY <1>2, <2>1
    <3> QED
      BY <2>1, <3>1 DEF SafetyInv, BundleGoesFirst
  <2> QED
    BY <2>1 DEF BundleGoesFirst
<1>7. PublishedIsStored'
  BY DEF SafetyInv, PublishedIsStored
<1> QED
  BY <1>1, <1>4, <1>5, <1>6, <1>7 DEF SafetyInv

LEMMA FailSafe ==
  ASSUME SafetyInv, NEW p \in Shell, Fail(p)
  PROVE  SafetyInv'
<1>1. Exit(p, "exit1") /\ UNCHANGED <<fs, runs, draws, disturbed, history>>
  BY DEF Fail
<1>2. HistoryTypeOK'
  BY <1>1 DEF SafetyInv, TypeOK, HistoryTypeOK, history
<1>3. ValidMeansSigned'
  BY <1>1 DEF SafetyInv, ValidMeansSigned, history
<1> QED
  BY <1>1, <1>2, <1>3, ExitSafe DEF Ended, history

-----------------------------------------------------------------------------
(* Control of a process. *)

LEMMA OutputsType ==
  ASSUME NEW c \in Command
  PROVE  /\ Outputs(c) \in Seq(Path \ MsgPath)
         /\ c.name = "keygen" => Len(Outputs(c)) = 2 /\ c.algo \in Algo
         /\ c.name = "encapsulate" => Len(Outputs(c)) = 2 /\ c.key \in Path
         /\ c.name = "decapsulate" =>
              Len(Outputs(c)) = 1 /\ c.key \in Path /\ c.ct \in Path
         /\ c.name = "sign" => Len(Outputs(c)) = 1 /\ c.key \in Path /\ c.file \in MsgPath
         /\ c.name = "verify" => c.key \in Path /\ c.file \in MsgPath /\ c.sig \in Path
<1>1. Range(Outputs(c)) \cap MsgPath = {}
  BY PathAssumption
<1>2. /\ c.name = "keygen" => c \in KeygenCommand
      /\ c.name = "encapsulate" => c \in EncapsulateCommand
      /\ c.name = "decapsulate" => c \in DecapsulateCommand
      /\ c.name = "sign" => c \in SignCommand
      /\ c.name = "verify" => c \in VerifyCommand
      /\ c.name \in {"keygen", "encapsulate", "decapsulate", "sign", "verify", "inspect"}
  BY CommandAssumption
     DEF KeygenCommand, EncapsulateCommand, DecapsulateCommand, SignCommand, VerifyCommand,
         InspectCommand
<1>3. CASE c.name = "keygen"
  <2>1. Outputs(c) = <<c.out, PubPath[c.out]>>
    BY <1>3 DEF Outputs
  <2>2. c.out \in Path /\ PubPath[c.out] \in Path /\ c.algo \in Algo
    BY <1>2, <1>3, PathAssumption DEF KeygenCommand
  <2>3. c.out \notin MsgPath /\ PubPath[c.out] \notin MsgPath
    BY <1>1, <2>1 DEF Range
  <2> QED
    BY <1>3, <2>1, <2>2, <2>3
<1>4. CASE c.name = "encapsulate"
  <2>1. Outputs(c) = <<c.ct_out, c.secret_out>>
    BY <1>4 DEF Outputs
  <2>2. c.ct_out \in Path /\ c.secret_out \in Path /\ c.key \in Path
    BY <1>2, <1>4 DEF EncapsulateCommand
  <2>3. c.ct_out \notin MsgPath /\ c.secret_out \notin MsgPath
    BY <1>1, <2>1 DEF Range
  <2> QED
    BY <1>4, <2>1, <2>2, <2>3
<1>5. CASE c.name = "decapsulate"
  <2>1. Outputs(c) = <<c.secret_out>>
    BY <1>5 DEF Outputs
  <2>2. c.secret_out \in Path /\ c.key \in Path /\ c.ct \in Path
    BY <1>2, <1>5 DEF DecapsulateCommand
  <2>3. c.secret_out \notin MsgPath
    BY <1>1, <2>1 DEF Range
  <2> QED
    BY <1>5, <2>1, <2>2, <2>3
<1>6. CASE c.name = "sign"
  <2>1. Outputs(c) = <<c.sig_out>>
    BY <1>6 DEF Outputs
  <2>2. c.sig_out \in Path /\ c.key \in Path /\ c.file \in MsgPath
    BY <1>2, <1>6 DEF SignCommand
  <2>3. c.sig_out \notin MsgPath
    BY <1>1, <2>1 DEF Range
  <2> QED
    BY <1>6, <2>1, <2>2, <2>3
<1>7. CASE c.name = "verify"
  BY <1>2, <1>7 DEF Outputs, VerifyCommand
<1>8. CASE c.name = "inspect"
  BY <1>8 DEF Outputs
<1> QED
  BY <1>2, <1>3, <1>4, <1>5, <1>6, <1>7, <1>8

\* The points between a command's steps, and what it may hold there.
HoldingOK(p, to, holding) ==
  \/ to = "prompt" /\ holding \in FileType /\ cmd[p].name \in {"decapsulate", "sign"}
  \/ to = "unsealed" /\ holding \in KeyPair
  \/ to = "file" /\ holding \in PublicKey /\ cmd[p].name = "verify"
  \/ to = "sig" /\ holding \in [pub : PublicKey, msg : Message] /\ cmd[p].name = "verify"

LEMMA ProceedProcess ==
  ASSUME ProcessTypeOK, NEW p \in Shell, Running(p), NEW to, NEW holding,
         HoldingOK(p, to, holding), Proceed(p, to, holding)
  PROVE  ProcessTypeOK'
<1> USE DEF ProcessTypeOK
<1>1. /\ pc' = [pc EXCEPT ![p] = to] /\ local' = [local EXCEPT ![p] = holding]
      /\ cmd' = cmd /\ out' = out
  BY DEF Proceed
<1>2. to \in {"prompt", "unsealed", "file", "sig"}
  BY DEF HoldingOK
<1>3. ASSUME NEW q \in Shell PROVE (LocalTypeOK(q) /\ OutTypeOK(q) /\ CommandTypeOK(q))'
  <2>1. CASE q = p
    <3>1. LocalTypeOK(p)'
      BY <1>1 DEF HoldingOK, LocalTypeOK
    <3>2. OutTypeOK(p)'
      BY <1>1, <1>2 DEF OutTypeOK
    <3>3. CommandTypeOK(p)'
      BY <1>1, <1>2 DEF HoldingOK, CommandTypeOK, Running
    <3> QED
      BY <2>1, <3>1, <3>2, <3>3
  <2>2. CASE q # p
    BY <1>1, <2>2 DEF LocalTypeOK, OutTypeOK, CommandTypeOK, Running
  <2> QED
    BY <2>1, <2>2
<1> QED
  BY <1>1, <1>2, <1>3

LEMMA StartWritingProcess ==
  ASSUME ProcessTypeOK, NEW p \in Shell, Running(p),
         NEW docs \in Seq(OutDocType), docs # <<>>, Len(docs) = Len(Outputs(cmd[p])),
         StartWriting(p, docs)
  PROVE  /\ ProcessTypeOK'
         /\ Len(out'[p]) = Len(docs)
         /\ \A i \in DOMAIN out'[p] : out'[p][i].doc = docs[i]
         /\ \A q \in Shell \ {p} :
              out'[q] = out[q] /\ pc'[q] = pc[q] /\ local'[q] = local[q]
         /\ pc'[p] = "open"
<1> USE DEF ProcessTypeOK
<1> DEFINE listed == [i \in DOMAIN docs |-> [path |-> Outputs(cmd[p])[i], doc |-> docs[i]]]
<1>1. /\ pc' = [pc EXCEPT ![p] = "open"] /\ local' = [local EXCEPT ![p] = <<>>]
      /\ cmd' = cmd /\ out' = [out EXCEPT ![p] = listed]
  BY DEF StartWriting
<1>2. cmd[p] \in Command
  BY DEF CommandTypeOK
<1>3. Outputs(cmd[p]) \in Seq(Path \ MsgPath)
  BY <1>2, OutputsType
<1>4. \A i \in 1..Len(docs) : Outputs(cmd[p])[i] \in Path \ MsgPath /\ docs[i] \in OutDocType
  BY <1>3
<1>5. listed \in Seq([path : Path \ MsgPath, doc : OutDocType]) /\ Len(listed) = Len(docs)
  <2> DEFINE T == [path : Path \ MsgPath, doc : OutDocType]
  <2>1. DOMAIN docs = 1..Len(docs) /\ Len(docs) \in Nat
    OBVIOUS
  <2>2. listed \in [1..Len(docs) -> T]
    BY <1>4, <2>1
  <2>3. DOMAIN listed = 1..Len(docs)
    BY <2>2
  <2> HIDE DEF T, listed
  <2>4. listed \in Seq(T)
    BY <2>1, <2>2
  <2>5. Len(listed) = Len(docs)
    BY <2>1, <2>3, <2>4, LenProperties
  <2> QED
    BY <2>4, <2>5 DEF T
<1>6. listed # <<>>
  BY <1>5
<1>7. ASSUME NEW q \in Shell PROVE (LocalTypeOK(q) /\ OutTypeOK(q) /\ CommandTypeOK(q))'
  <2>1. CASE q = p
    BY <1>1, <1>2, <1>5, <1>6, <2>1 DEF LocalTypeOK, OutTypeOK, CommandTypeOK, Running
  <2>2. CASE q # p
    BY <1>1, <2>2 DEF LocalTypeOK, OutTypeOK, CommandTypeOK, Running
  <2> QED
    BY <2>1, <2>2
<1>8. ProcessTypeOK'
  BY <1>1, <1>7
<1> QED
  BY <1>1, <1>5, <1>8

LEMMA StartSafe ==
  ASSUME SafetyInv, NEW p \in Shell, NEW c \in Command, Start(p, c)
  PROVE  SafetyInv'
<1> USE DEF SafetyInv, TypeOK
<1>1. /\ pc' = [pc EXCEPT ![p] = "begin"] /\ cmd' = [cmd EXCEPT ![p] = c]
      /\ UNCHANGED <<fs, local, out, draws, disturbed, history>>
  BY DEF Start
<1>2. ASSUME NEW q \in Shell PROVE (LocalTypeOK(q) /\ OutTypeOK(q) /\ CommandTypeOK(q))'
  <2>1. CASE q = p
    BY <1>1, <2>1 DEF ProcessTypeOK, LocalTypeOK, OutTypeOK, CommandTypeOK, Running
  <2>2. CASE q # p
    BY <1>1, <2>2 DEF ProcessTypeOK, LocalTypeOK, OutTypeOK, CommandTypeOK, Running
  <2> QED
    BY <2>1, <2>2
<1>3. ProcessTypeOK'
  BY <1>1, <1>2 DEF ProcessTypeOK
<1>4. runs' \in 0..MaxCommands
  BY BoundAssumption DEF Start, HistoryTypeOK
<1>5. TypeOK'
  BY <1>1, <1>3, <1>4 DEF FilesTypeOK, HistoryTypeOK, history
<1>6. \A q \in Shell : pc'[q] = pc[q] \/ pc'[q] = "begin"
  BY <1>1 DEF ProcessTypeOK
<1>7. ReadableIsPublished'
  BY <1>1, <1>6 DEF ReadableIsPublished, history
<1>8. SignaturesAreSigned'
  BY <1>1 DEF SignaturesAreSigned, history
<1>9. BundleGoesFirst'
  BY <1>1 DEF BundleGoesFirst, history
<1>10. ValidMeansSigned' /\ PublishedIsStored'
  BY <1>1 DEF ValidMeansSigned, PublishedIsStored, history
<1> QED
  BY <1>5, <1>7, <1>8, <1>9, <1>10

LEMMA ProceedSafe ==
  ASSUME SafetyInv, NEW p \in Shell, Running(p), NEW to, NEW holding,
         HoldingOK(p, to, holding), Proceed(p, to, holding), UNCHANGED <<draws, history>>,
         to = "file" => holding.bytes.key \in published,
         to = "sig" => holding.pub.bytes.key \in published
  PROVE  SafetyInv'
<1> USE DEF SafetyInv, TypeOK
<1>1. /\ pc' = [pc EXCEPT ![p] = to] /\ local' = [local EXCEPT ![p] = holding]
      /\ UNCHANGED <<fs, cmd, out, runs, disturbed, draws, history>>
  BY DEF Proceed
<1>2. TypeOK'
  BY <1>1, ProceedProcess DEF FilesTypeOK, HistoryTypeOK, history
<1>3. ReadableIsPublished'
  <2>1. \A f \in Path : (pem_in(fs[f]).ok => fs[f].doc.pem.bytes.key \in published)'
    BY <1>1 DEF ReadableIsPublished, history
  <2>2. ASSUME NEW q \in Shell
        PROVE  (/\ pc[q] = "file" => local[q].bytes.key \in published
                /\ pc[q] = "sig" => local[q].pub.bytes.key \in published)'
    BY <1>1 DEF ReadableIsPublished, ProcessTypeOK, history
  <2> QED
    BY <2>1, <2>2 DEF ReadableIsPublished
<1>4. SignaturesAreSigned'
  BY <1>1 DEF SignaturesAreSigned, history
<1>5. BundleGoesFirst'
  BY <1>1 DEF BundleGoesFirst, history
<1>6. ValidMeansSigned' /\ PublishedIsStored'
  BY <1>1 DEF ValidMeansSigned, PublishedIsStored, history
<1> QED
  BY <1>2, <1>3, <1>4, <1>5, <1>6

\* Documents may be written when their signatures are signed and no public key comes
\* before its bundle.
LEMMA StartWritingSafe ==
  ASSUME SafetyInv, HistoryTypeOK', NEW p \in Shell, Running(p),
         NEW docs \in Seq(OutDocType), docs # <<>>, Len(docs) = Len(Outputs(cmd[p])),
         StartWriting(p, docs),
         UNCHANGED <<stored, published, verdicts>>, signed \subseteq signed',
         \A i \in DOMAIN docs : docs[i].kind = "hex" /\ docs[i].bytes.tag = "sig" =>
           [key |-> docs[i].bytes.sk.key, msg |-> docs[i].bytes.msg] \in signed',
         \A i \in DOMAIN docs : docs[i].kind = "pem" =>
           \E j \in DOMAIN docs :
             /\ j < i /\ docs[j].kind = "bundle"
             /\ docs[j].bundle.ciphertext.data.pk.key = docs[i].pem.bytes.key
  PROVE  SafetyInv'
<1> USE DEF SafetyInv, TypeOK
<1>1. /\ ProcessTypeOK'
      /\ Len(out'[p]) = Len(docs)
      /\ \A i \in DOMAIN out'[p] : out'[p][i].doc = docs[i]
      /\ \A q \in Shell \ {p} :
           out'[q] = out[q] /\ pc'[q] = pc[q] /\ local'[q] = local[q]
      /\ pc'[p] = "open"
  BY StartWritingProcess
<1>2. fs' = fs
  BY DEF StartWriting
<1>3. TypeOK'
  BY <1>1, <1>2 DEF FilesTypeOK
<1>4. DOMAIN out'[p] = DOMAIN docs
  BY <1>1, <1>3 DEF ProcessTypeOK, OutTypeOK
<1>5. SignaturesAreSigned'
  <2>1. ASSUME NEW f \in Path
        PROVE  fs'[f].doc.kind = "hex" /\ fs'[f].doc.bytes.tag = "sig" =>
                 [key |-> fs'[f].doc.bytes.sk.key, msg |-> fs'[f].doc.bytes.msg] \in signed'
    BY <1>2 DEF SignaturesAreSigned
  <2>2. ASSUME NEW q \in Shell, NEW i \in DOMAIN out'[q]
        PROVE  out'[q][i].doc.kind = "hex" /\ out'[q][i].doc.bytes.tag = "sig" =>
                 [key |-> out'[q][i].doc.bytes.sk.key, msg |-> out'[q][i].doc.bytes.msg]
                   \in signed'
    <3>1. CASE q = p
      BY <1>1, <1>4, <3>1
    <3>2. CASE q # p
      <4>1. out'[q] = out[q]
        BY <1>1, <3>2
      <4> QED
        BY <2>2, <4>1 DEF SignaturesAreSigned
    <3> QED
      BY <3>1, <3>2
  <2> QED
    BY <2>1, <2>2 DEF SignaturesAreSigned
<1>6. ReadableIsPublished'
  <2>1. \A f \in Path : (pem_in(fs[f]).ok => fs[f].doc.pem.bytes.key \in published)'
    BY <1>2 DEF ReadableIsPublished
  <2>2. ASSUME NEW q \in Shell
        PROVE  (/\ pc[q] = "file" => local[q].bytes.key \in published
                /\ pc[q] = "sig" => local[q].pub.bytes.key \in published)'
    BY <1>1 DEF ReadableIsPublished
  <2> QED
    BY <2>1, <2>2 DEF ReadableIsPublished
<1>7. BundleGoesFirst'
  <2>1. ASSUME NEW q \in Shell, NEW i \in DOMAIN out'[q], out'[q][i].doc.kind = "pem"
        PROVE  \/ out'[q][i].doc.pem.bytes.key \in stored'
               \/ \E j \in DOMAIN out'[q] :
                    /\ j < i /\ out'[q][j].doc.kind = "bundle"
                    /\ out'[q][j].doc.bundle.ciphertext.data.pk.key =
                         out'[q][i].doc.pem.bytes.key
    <3>1. CASE q = p
      <4>1. i \in DOMAIN docs /\ docs[i].kind = "pem" /\ out'[p][i].doc = docs[i]
        BY <1>1, <1>4, <2>1, <3>1
      <4>2. PICK j \in DOMAIN docs :
              /\ j < i /\ docs[j].kind = "bundle"
              /\ docs[j].bundle.ciphertext.data.pk.key = docs[i].pem.bytes.key
        BY <4>1
      <4>3. j \in DOMAIN out'[p] /\ out'[p][j].doc = docs[j]
        BY <1>1, <1>4
      <4> QED
        BY <3>1, <4>1, <4>2, <4>3
    <3>2. CASE q # p
      <4>1. out'[q] = out[q]
        BY <1>1, <3>2
      <4>2. i \in DOMAIN out[q] /\ out[q][i].doc.kind = "pem"
        BY <2>1, <4>1
      <4>3. \/ out[q][i].doc.pem.bytes.key \in stored
            \/ \E j \in DOMAIN out[q] :
                 /\ j < i /\ out[q][j].doc.kind = "bundle"
                 /\ out[q][j].doc.bundle.ciphertext.data.pk.key =
                      out[q][i].doc.pem.bytes.key
        BY <4>2 DEF BundleGoesFirst
      <4> QED
        BY <4>1, <4>3
    <3> QED
      BY <3>1, <3>2
  <2> QED
    BY <2>1 DEF BundleGoesFirst
<1>8. ValidMeansSigned'
  BY DEF ValidMeansSigned
<1>9. PublishedIsStored'
  BY <1>2 DEF PublishedIsStored
<1> QED
  BY <1>3, <1>5, <1>6, <1>7, <1>8, <1>9

-----------------------------------------------------------------------------
(* The commands. *)

LEMMA KeygenSafe ==
  ASSUME SafetyInv, NEW p \in Shell, cmd_keygen(p)
  PROVE  SafetyInv'
<1> USE DEF SafetyInv, TypeOK
<1> DEFINE level == parse_level(cmd[p].level)
           kp == generate(cmd[p].algo, level.val, draws)
           docs(pass) == <<BundleDoc(seal(kp, pass, draws)),
                           PemDoc(public_key_to_pem(public_key(kp)))>>
<1>1. pc[p] = "begin" /\ cmd[p].name = "keygen" /\ Running(p)
  BY DEF cmd_keygen, Running, Ended
<1>2. PICK pass, confirm \in Passphrase \cup {NoPassphrase} :
        \/ Fail(p)
        \/ /\ level.ok /\ prompt_new_passphrase(pass, confirm).ok
           /\ StartWriting(p, docs(prompt_new_passphrase(pass, confirm).val))
           /\ draws' = draws + 1 /\ UNCHANGED history
  BY Zenon DEF cmd_keygen
<1>3. CASE Fail(p)
  BY <1>3, FailSafe
<1>4. CASE /\ level.ok /\ prompt_new_passphrase(pass, confirm).ok
           /\ StartWriting(p, docs(prompt_new_passphrase(pass, confirm).val))
           /\ draws' = draws + 1 /\ UNCHANGED history
  <2>1. prompt_new_passphrase(pass, confirm).val = pass /\ pass \in Passphrase
    BY <1>4 DEF prompt_new_passphrase, Ok, Err
  <2>2. level.val \in SecurityLevel
    BY <1>4, ParsedLevel
  <2>3. cmd[p] \in Command /\ cmd[p].algo \in Algo /\ Len(Outputs(cmd[p])) = 2
    BY <1>1, OutputsType DEF ProcessTypeOK, CommandTypeOK
  <2>4. kp \in KeyPair
    BY <2>2, <2>3, GenerateType DEF HistoryTypeOK
  <2>5. /\ BundleDoc(seal(kp, pass, draws)) \in OutDocType
        /\ BundleDoc(seal(kp, pass, draws)).kind = "bundle"
        /\ BundleDoc(seal(kp, pass, draws)).bundle.ciphertext.data.pk = kp.pk_bytes
    BY <2>1, <2>4, SealType DEF BundleDoc, OutDocType, HistoryTypeOK
  <2>6. /\ PemDoc(public_key_to_pem(public_key(kp))) \in OutDocType
        /\ PemDoc(public_key_to_pem(public_key(kp))).kind = "pem"
        /\ PemDoc(public_key_to_pem(public_key(kp))).pem.bytes = kp.pk_bytes
    BY <2>4, PemDocType DEF PemDoc
  <2>7. HistoryTypeOK'
    BY <1>4 DEF HistoryTypeOK, StartWriting, history
  <2>8. docs(pass) \in Seq(OutDocType) /\ docs(pass) # <<>> /\ Len(docs(pass)) = 2
    BY <2>5, <2>6
  <2>9. \A i \in DOMAIN docs(pass) : docs(pass)[i].kind # "hex"
    BY <2>5, <2>6
  <2>10. \A i \in DOMAIN docs(pass) : docs(pass)[i].kind = "pem" =>
           \E j \in DOMAIN docs(pass) :
             /\ j < i /\ docs(pass)[j].kind = "bundle"
             /\ docs(pass)[j].bundle.ciphertext.data.pk.key = docs(pass)[i].pem.bytes.key
    <3>1. docs(pass)[1] = BundleDoc(seal(kp, pass, draws)) /\ DOMAIN docs(pass) = {1, 2}
      OBVIOUS
    <3>2. docs(pass)[2] = PemDoc(public_key_to_pem(public_key(kp)))
      OBVIOUS
    <3> HIDE DEF docs
    <3>3. ASSUME NEW i \in DOMAIN docs(pass), docs(pass)[i].kind = "pem"
          PROVE  i = 2
      BY <2>5, <3>1, <3>3
    <3>4. /\ 1 \in DOMAIN docs(pass) /\ 1 < 2 /\ docs(pass)[1].kind = "bundle"
          /\ docs(pass)[1].bundle.ciphertext.data.pk.key = docs(pass)[2].pem.bytes.key
      BY <2>5, <2>6, <3>1, <3>2
    <3> QED
      BY <3>3, <3>4
  <2>11. StartWriting(p, docs(pass)) /\ UNCHANGED <<stored, published, verdicts, signed>>
    BY <1>4, <2>1 DEF history
  <2> HIDE DEF docs
  <2> QED
    BY <1>1, <2>3, <2>7, <2>8, <2>9, <2>10, <2>11, StartWritingSafe
<1> QED
  BY <1>2, <1>3, <1>4

LEMMA EncapsulateSafe ==
  ASSUME SafetyInv, NEW p \in Shell, cmd_encapsulate(p)
  PROVE  SafetyInv'
<1> USE DEF SafetyInv, TypeOK
<1> DEFINE f   == fs[cmd[p].key]
           pem == pem_in(f)
           pub == public_key_from_pem("kem", pem.val)
           enc == encapsulate(pub.val, draws)
           docs == <<HexDoc(enc.val.ct), HexDoc(enc.val.secret)>>
<1>1. pc[p] = "begin" /\ cmd[p].name = "encapsulate" /\ Running(p)
  BY DEF cmd_encapsulate, Running, Ended
<1>2. CASE Fail(p)
  BY <1>2, FailSafe
<1>3. CASE /\ pem.ok /\ pub.ok /\ enc.ok
           /\ StartWriting(p, docs) /\ draws' = draws + 1
           /\ sent' = sent \cup {enc.val.secret}
           /\ UNCHANGED <<stored, published, signed, verdicts, recovered>>
  <2>1. cmd[p] \in Command /\ cmd[p].key \in Path /\ Len(Outputs(cmd[p])) = 2
    BY <1>1, OutputsType DEF ProcessTypeOK, CommandTypeOK
  <2>2. f \in FileType
    BY <2>1 DEF FilesTypeOK
  <2>3. pem.val \in PemType
    BY <1>3, <2>2, PemInType
  <2>4. pub.val \in PublicKey
    BY <1>3, <2>3, PublicKeyFromPemType DEF Algo
  <2>5. enc.val.ct \in CtString /\ enc.val.secret \in SsString
    BY <1>3, <2>4, EncapsulateType DEF HistoryTypeOK
  <2>6. HistoryTypeOK'
    <3> HIDE DEF enc
    <3>1. draws' \in Nat /\ sent' \subseteq SsString
      BY <1>3, <2>5 DEF HistoryTypeOK
    <3> QED
      BY <1>3, <3>1 DEF HistoryTypeOK, StartWriting
  <2>7. HexDoc(enc.val.ct) \in OutDocType /\ HexDoc(enc.val.secret) \in OutDocType
    BY <2>5 DEF HexDoc, OutDocType, ByteString, PlainString
  <2>8. docs \in Seq(OutDocType) /\ docs # <<>> /\ Len(docs) = 2
    BY <2>7
  <2>9. \A i \in DOMAIN docs : docs[i].kind = "hex" /\ docs[i].bytes.tag # "sig"
    <3>1. /\ HexDoc(enc.val.ct).kind = "hex" /\ HexDoc(enc.val.ct).bytes.tag = "ct"
          /\ HexDoc(enc.val.secret).kind = "hex" /\ HexDoc(enc.val.secret).bytes.tag = "ss"
      BY <2>5 DEF HexDoc, CtString, SsString
    <3>2. \A i \in DOMAIN docs : docs[i] \in {HexDoc(enc.val.ct), HexDoc(enc.val.secret)}
      BY PairMembers
    <3> HIDE DEF docs
    <3> QED
      BY <3>1, <3>2
  <2> HIDE DEF docs
  <2> QED
    BY <1>1, <1>3, <2>1, <2>6, <2>8, <2>9, StartWritingSafe
<1> QED
  BY <1>2, <1>3 DEF cmd_encapsulate

LEMMA ReadBundleSafe ==
  ASSUME SafetyInv, NEW p \in Shell, ReadBundle(p)
  PROVE  SafetyInv'
<1> USE DEF SafetyInv, TypeOK
<1>1. Running(p) /\ cmd[p].name \in {"decapsulate", "sign"}
  BY DEF ReadBundle, Running, Ended
<1>2. CASE Fail(p)
  BY <1>2, FailSafe
<1>3. CASE Proceed(p, "prompt", fs[cmd[p].key]) /\ UNCHANGED <<draws, history>>
  <2>1. cmd[p] \in Command
    BY <1>1 DEF ProcessTypeOK, CommandTypeOK
  <2>2. fs[cmd[p].key] \in FileType
    BY <1>1, <2>1, OutputsType DEF FilesTypeOK
  <2>3. HoldingOK(p, "prompt", fs[cmd[p].key])
    BY <1>1, <2>2 DEF HoldingOK
  <2> QED
    BY <1>1, <1>3, <2>3, ProceedSafe
<1> QED
  BY <1>2, <1>3 DEF ReadBundle

LEMMA UnsealSafe ==
  ASSUME SafetyInv, NEW p \in Shell, Unseal(p)
  PROVE  SafetyInv'
<1> USE DEF SafetyInv, TypeOK
<1> DEFINE bundle == from_json(local[p])
           kp(pass) == unseal(bundle.val, KeyType(cmd[p]), prompt_passphrase(pass).val)
<1>1. Running(p) /\ pc[p] = "prompt"
  BY DEF Unseal, Running, Ended
<1>2. PICK pass \in Passphrase \cup {NoPassphrase} :
        \/ Fail(p)
        \/ /\ bundle.ok /\ kp(pass).ok
           /\ Proceed(p, "unsealed", kp(pass).val) /\ UNCHANGED <<draws, history>>
  BY Zenon DEF Unseal
<1>3. CASE Fail(p)
  BY <1>3, FailSafe
<1>4. CASE /\ bundle.ok /\ kp(pass).ok
           /\ Proceed(p, "unsealed", kp(pass).val) /\ UNCHANGED <<draws, history>>
  <2>1. local[p] \in FileType
    BY <1>1 DEF ProcessTypeOK, LocalTypeOK
  <2>2. bundle.val \in BundleType
    BY <1>4, <2>1, FromJsonType
  <2>3. KeyType(cmd[p]) \in Algo
    BY DEF KeyType, Algo
  <2>4. kp(pass).val \in KeyPair
    BY <1>4, <2>2, <2>3, UnsealType
  <2>5. HoldingOK(p, "unsealed", kp(pass).val)
    BY <2>4 DEF HoldingOK
  <2> HIDE DEF kp
  <2> QED
    BY <1>1, <1>4, <2>5, ProceedSafe
<1> QED
  BY <1>2, <1>3, <1>4

LEMMA DecapsulateSafe ==
  ASSUME SafetyInv, NEW p \in Shell, cmd_decapsulate(p)
  PROVE  SafetyInv'
<1> USE DEF SafetyInv, TypeOK
<1> DEFINE ct == hex_decode(fs[cmd[p].ct])
           secret == decapsulate(local[p], ct.val)
           docs == <<HexDoc(secret.val)>>
<1>1. pc[p] = "unsealed" /\ cmd[p].name = "decapsulate" /\ Running(p)
  BY DEF cmd_decapsulate, Running, Ended
<1>2. CASE Fail(p)
  BY <1>2, FailSafe
<1>3. CASE /\ ct.ok /\ secret.ok /\ StartWriting(p, docs)
           /\ recovered' = recovered \cup
                {[kp |-> local[p], ct |-> ct.val, secret |-> secret.val]}
           /\ UNCHANGED <<draws, stored, published, signed, verdicts, sent>>
  <2>1. cmd[p] \in Command /\ cmd[p].ct \in Path /\ Len(Outputs(cmd[p])) = 1
    BY <1>1, OutputsType DEF ProcessTypeOK, CommandTypeOK
  <2>2. ct.val \in ByteString
    BY <1>3, <2>1, HexDecodeType DEF FilesTypeOK
  <2>3. local[p] \in KeyPair
    BY <1>1 DEF ProcessTypeOK, LocalTypeOK
  <2>4. ct.val \in PlainString /\ secret.val \in ByteString /\ secret.val.tag # "sig"
    BY <1>3, <2>2, <2>3, DecapsulateType
  <2>5. HistoryTypeOK'
    BY <1>3, <2>3, <2>4 DEF HistoryTypeOK, StartWriting
  <2>6. HexDoc(secret.val) \in OutDocType
    BY <2>4 DEF HexDoc, OutDocType
  <2>7. docs \in Seq(OutDocType) /\ docs # <<>> /\ Len(docs) = 1
    BY <2>6
  <2>8. \A i \in DOMAIN docs : docs[i].kind = "hex" /\ docs[i].bytes.tag # "sig"
    BY <2>4 DEF HexDoc
  <2> HIDE DEF docs
  <2> QED
    BY <1>1, <1>3, <2>1, <2>5, <2>7, <2>8, StartWritingSafe
<1> QED
  BY <1>2, <1>3 DEF cmd_decapsulate

LEMMA SignSafe ==
  ASSUME SafetyInv, NEW p \in Shell, cmd_sign(p)
  PROVE  SafetyInv'
<1> USE DEF SafetyInv, TypeOK
<1> DEFINE message == fs[cmd[p].file].doc.msg
           signature == sign(local[p], message)
           docs == <<HexDoc(signature.val)>>
<1>1. pc[p] = "unsealed" /\ cmd[p].name = "sign" /\ Running(p)
  BY DEF cmd_sign, Running, Ended
<1>2. CASE Fail(p)
  BY <1>2, FailSafe
<1>3. CASE /\ signature.ok /\ StartWriting(p, docs)
           /\ signed' = signed \cup {[key |-> local[p].sk_bytes.key, msg |-> message]}
           /\ UNCHANGED <<draws, stored, published, verdicts, sent, recovered>>
  <2>1. cmd[p] \in Command /\ cmd[p].file \in MsgPath /\ Len(Outputs(cmd[p])) = 1
    BY <1>1, OutputsType DEF ProcessTypeOK, CommandTypeOK
  <2>2. fs[cmd[p].file] \in FileType /\ fs[cmd[p].file].doc.kind = "msg"
    BY <2>1, PathAssumption DEF FilesTypeOK
  <2>3. message \in Message
    BY <2>2, DocContent DEF FileType
  <2>4. local[p] \in KeyPair
    BY <1>1 DEF ProcessTypeOK, LocalTypeOK
  <2>5. /\ signature.val \in SigString
        /\ signature.val.sk = local[p].sk_bytes /\ signature.val.msg = message
    BY <1>3, <2>3, <2>4, SignType
  <2>6. local[p].sk_bytes.key \in Key
    BY <2>4 DEF KeyPair, SkString
  <2>7. HistoryTypeOK'
    BY <1>3, <2>3, <2>6 DEF HistoryTypeOK, StartWriting
  <2>8. HexDoc(signature.val) \in OutDocType
    BY <2>5 DEF HexDoc, OutDocType, ByteString, PlainString
  <2>9. docs \in Seq(OutDocType) /\ docs # <<>> /\ Len(docs) = 1
    BY <2>8
  <2>10. \A i \in DOMAIN docs :
           /\ docs[i].kind = "hex"
           /\ [key |-> docs[i].bytes.sk.key, msg |-> docs[i].bytes.msg] \in signed'
    <3>1. \A i \in DOMAIN docs : docs[i] = HexDoc(signature.val)
      OBVIOUS
    <3>2. [key |-> signature.val.sk.key, msg |-> signature.val.msg] \in signed'
      BY <1>3, <2>5
    <3> HIDE DEF docs, signature
    <3> QED
      BY <3>1, <3>2 DEF HexDoc
  <2> HIDE DEF docs
  <2> QED
    BY <1>1, <1>3, <2>1, <2>7, <2>9, <2>10, StartWritingSafe
<1> QED
  BY <1>2, <1>3 DEF cmd_sign

LEMMA VerifyReadKeySafe ==
  ASSUME SafetyInv, NEW p \in Shell, VerifyReadKey(p)
  PROVE  SafetyInv'
<1> USE DEF SafetyInv, TypeOK
<1> DEFINE f   == fs[cmd[p].key]
           pem == pem_in(f)
           pub == public_key_from_pem("dsa", pem.val)
<1>1. cmd[p].name = "verify" /\ Running(p)
  BY DEF VerifyReadKey, Running, Ended
<1>2. CASE Fail(p)
  BY <1>2, FailSafe
<1>3. CASE /\ pem.ok /\ pub.ok
           /\ Proceed(p, "file", pub.val) /\ UNCHANGED <<draws, history>>
  <2>1. cmd[p] \in Command /\ cmd[p].key \in Path
    BY <1>1, OutputsType DEF ProcessTypeOK, CommandTypeOK
  <2>2. f \in FileType
    BY <2>1 DEF FilesTypeOK
  <2>3. pem.val \in PemType /\ pem.val = f.doc.pem
    BY <1>3, <2>2, PemInType
  <2>4. pub.val \in PublicKey /\ pub.val.bytes = f.doc.pem.bytes
    BY <1>3, <2>3, PublicKeyFromPemType DEF Algo
  <2>5. pub.val.bytes.key \in published
    BY <1>3, <2>1, <2>4 DEF ReadableIsPublished
  <2>6. HoldingOK(p, "file", pub.val)
    BY <1>1, <2>4 DEF HoldingOK
  <2> HIDE DEF pub
  <2> QED
    BY <1>1, <1>3, <2>5, <2>6, ProceedSafe
<1> QED
  BY <1>2, <1>3 DEF VerifyReadKey

LEMMA VerifyReadFileSafe ==
  ASSUME SafetyInv, NEW p \in Shell, VerifyReadFile(p)
  PROVE  SafetyInv'
<1> USE DEF SafetyInv, TypeOK
<1> DEFINE held == [pub |-> local[p], msg |-> fs[cmd[p].file].doc.msg]
<1>1. pc[p] = "file" /\ Proceed(p, "sig", held) /\ UNCHANGED <<draws, history>> /\ Running(p)
  BY DEF VerifyReadFile, Running, Ended
<1>2. cmd[p] \in Command /\ cmd[p].name = "verify"
  BY <1>1 DEF ProcessTypeOK, CommandTypeOK
<1>3. cmd[p].file \in MsgPath /\ cmd[p].file \in Path
  BY <1>2, OutputsType, PathAssumption
<1>4. fs[cmd[p].file].doc.msg \in Message
  BY <1>3, DocContent DEF FilesTypeOK, FileType
<1>5. local[p] \in PublicKey /\ local[p].bytes.key \in published
  BY <1>1 DEF ProcessTypeOK, LocalTypeOK, ReadableIsPublished
<1>6. HoldingOK(p, "sig", held) /\ held.pub.bytes.key \in published
  BY <1>2, <1>4, <1>5 DEF HoldingOK
<1> HIDE DEF held
<1> QED
  BY <1>1, <1>6, ProceedSafe

LEMMA VerifySafe ==
  ASSUME SafetyInv, NEW p \in Shell, cmd_verify(p)
  PROVE  SafetyInv'
<1> USE DEF SafetyInv, TypeOK
<1> DEFINE sig == hex_decode(fs[cmd[p].sig])
           valid == verify_with_typed_key(local[p].pub, local[p].msg, sig.val).ok
           verdict == [pub |-> local[p].pub, msg |-> local[p].msg,
                       sig |-> sig.val, valid |-> valid]
<1>1. pc[p] = "sig" /\ Running(p)
  BY DEF cmd_verify, Running, Ended
<1>2. CASE Fail(p)
  BY <1>2, FailSafe
<1>3. CASE /\ sig.ok /\ Exit(p, IF valid THEN "exit0" ELSE "exit2")
           /\ verdicts' = verdicts \cup {verdict}
           /\ UNCHANGED <<fs, runs, draws, disturbed,
                          stored, published, signed, sent, recovered>>
  <2>1. cmd[p] \in Command /\ cmd[p].name = "verify" /\ cmd[p].sig \in Path
    BY <1>1, OutputsType DEF ProcessTypeOK, CommandTypeOK
  <2>2. /\ sig.val \in ByteString
        /\ sig.val.tag = "sig" => /\ fs[cmd[p].sig].doc.kind = "hex"
                                  /\ fs[cmd[p].sig].doc.bytes = sig.val
    BY <1>3, <2>1, HexDecodeType DEF FilesTypeOK
  <2>3. /\ local[p].pub \in PublicKey /\ local[p].msg \in Message
        /\ local[p].pub.bytes.key \in published
    BY <1>1 DEF ProcessTypeOK, LocalTypeOK, ReadableIsPublished
  <2>4. valid \in BOOLEAN
    BY DEF verify_with_typed_key, Ok, Err
  <2>5. valid => [key |-> local[p].pub.bytes.key, msg |-> local[p].msg] \in signed
    <3>1. valid => /\ sig.val.tag = "sig" /\ sig.val.sk.key = local[p].pub.bytes.key
                   /\ sig.val.msg = local[p].msg
      BY VerifiedIsSignature
    <3>2. sig.val.tag = "sig" => [key |-> sig.val.sk.key, msg |-> sig.val.msg] \in signed
      BY <2>1, <2>2 DEF SignaturesAreSigned
    <3> QED
      BY <3>1, <3>2
  <2> HIDE DEF valid, sig
  <2>6. HistoryTypeOK'
    BY <1>3, <2>2, <2>3, <2>4 DEF HistoryTypeOK
  <2>7. ValidMeansSigned'
    BY <1>3, <2>3, <2>5 DEF ValidMeansSigned
  <2> QED
    BY <1>3, <2>6, <2>7, ExitSafe DEF Ended
<1> QED
  BY <1>2, <1>3 DEF cmd_verify

LEMMA InspectSafe ==
  ASSUME SafetyInv, NEW p \in Shell, cmd_inspect(p)
  PROVE  SafetyInv'
<1>1. CASE Fail(p)
  BY <1>1, FailSafe
<1>2. CASE Exit(p, "exit0") /\ UNCHANGED <<fs, runs, draws, disturbed, history>>
  <2>1. HistoryTypeOK'
    BY <1>2 DEF SafetyInv, TypeOK, HistoryTypeOK, history
  <2>2. ValidMeansSigned'
    BY <1>2 DEF SafetyInv, ValidMeansSigned, history
  <2> QED
    BY <1>2, <2>1, <2>2, ExitSafe DEF Ended, history
<1> QED
  BY <1>1, <1>2 DEF cmd_inspect

LEMMA StopSafe ==
  ASSUME SafetyInv, NEW p \in Shell, NEW code \in Ended, Stop(p, code)
  PROVE  SafetyInv'
<1> USE DEF SafetyInv, TypeOK
<1>1. Running(p) /\ Exit(p, code) /\ UNCHANGED <<fs, runs, draws, history>>
  BY DEF Stop
<1>2. Outputs(cmd[p]) \in Seq(Path \ MsgPath)
  BY <1>1, OutputsType DEF ProcessTypeOK, CommandTypeOK
<1>3. Range(Outputs(cmd[p])) \subseteq Path
  BY <1>2 DEF Range
<1>4. disturbed' \subseteq Path
  BY <1>3 DEF Stop, HistoryTypeOK
<1>5. HistoryTypeOK'
  BY <1>1, <1>4 DEF HistoryTypeOK, history
<1>6. ValidMeansSigned'
  BY <1>1 DEF ValidMeansSigned, history
<1> QED
  BY <1>1, <1>5, <1>6, ExitSafe DEF history

-----------------------------------------------------------------------------
(* The steps of fs::write, and the user's edits. *)

\* A command that writes has a document to write to a path that is nobody's message.
LEMMA WritingType ==
  ASSUME ProcessTypeOK, NEW p \in Shell, pc[p] \in {"open", "write", "rest"}
  PROVE  /\ out[p] \in Seq([path : Path \ MsgPath, doc : OutDocType]) /\ out[p] # <<>>
         /\ 1 \in DOMAIN out[p]
         /\ OutPath(p) \in Path \ MsgPath /\ OutDoc(p) \in OutDocType
         /\ out[p][1].doc = OutDoc(p)
         /\ Running(p)
<1>1. out[p] \in Seq([path : Path \ MsgPath, doc : OutDocType]) /\ out[p] # <<>>
  BY DEF ProcessTypeOK, OutTypeOK
<1>2. 1 \in 1..Len(out[p]) /\ DOMAIN out[p] = 1..Len(out[p])
  BY <1>1, EmptySeq
<1>3. out[p][1] \in [path : Path \ MsgPath, doc : OutDocType]
  BY <1>1, <1>2, ElementOfSeq
<1> QED
  BY <1>1, <1>2, <1>3 DEF OutPath, OutDoc, Running, Ended

\* Replacing what a file holds keeps the files typed.
LEMMA FilesType ==
  ASSUME FilesTypeOK, NEW f \in Path, NEW file \in FileType,
         fs' = [fs EXCEPT ![f] = file], f \in MsgPath => file.doc.kind = "msg"
  PROVE  FilesTypeOK'
  BY PathAssumption DEF FilesTypeOK

LEMMA OpenOutSafe ==
  ASSUME SafetyInv, NEW p \in Shell, OpenOut(p)
  PROVE  SafetyInv'
<1> USE DEF SafetyInv, TypeOK
<1>1. /\ pc[p] = "open" /\ fs' = [fs EXCEPT ![OutPath(p)] = Truncated]
      /\ pc' = [pc EXCEPT ![p] = "write"]
      /\ UNCHANGED <<cmd, local, out, runs, draws, history>>
  BY DEF OpenOut
<1>2. OutPath(p) \in Path \ MsgPath /\ Running(p) /\ out[p] # <<>>
  BY <1>1, WritingType
<1>3. Truncated \in FileType /\ Truncated.doc = EmptyDoc
  BY DEF Truncated, File, FileType, DocType
<1>4. FilesTypeOK'
  BY <1>1, <1>2, <1>3, FilesType
<1>5. ProcessTypeOK'
  <2>1. ASSUME NEW q \in Shell PROVE (LocalTypeOK(q) /\ OutTypeOK(q) /\ CommandTypeOK(q))'
    <3>1. CASE q = p
      BY <1>1, <1>2, <3>1
         DEF ProcessTypeOK, LocalTypeOK, OutTypeOK, CommandTypeOK, Running, Ended
    <3>2. CASE q # p
      BY <1>1, <3>2 DEF ProcessTypeOK, LocalTypeOK, OutTypeOK, CommandTypeOK, Running
    <3> QED
      BY <3>1, <3>2
  <2> QED
    BY <1>1, <2>1 DEF ProcessTypeOK
<1>6. disturbed' \subseteq Path
  <2>1. \A q \in Shell : Running(q) => Range(Outputs(cmd[q])) \subseteq Path
    BY OutputsType DEF ProcessTypeOK, CommandTypeOK, Range
  <2>2. \A q \in Disturbs(p) \cup {p} : q \in Shell /\ Running(q)
    BY <1>2 DEF Disturbs, HalfWay, Running, Ended
  <2>3. UNION {Range(Outputs(cmd[q])) : q \in Disturbs(p) \cup {p}} \subseteq Path
    BY <2>1, <2>2
  <2> QED
    BY <2>3 DEF OpenOut, DisturbedBy, HistoryTypeOK
<1>7. HistoryTypeOK'
  BY <1>1, <1>6 DEF HistoryTypeOK, history
<1>8. \A f \in Path : fs'[f] = fs[f] \/ fs'[f] = Truncated
  BY <1>1 DEF FilesTypeOK
<1>9. SignaturesAreSigned'
  BY <1>1, <1>3, <1>8 DEF SignaturesAreSigned, history, EmptyDoc
<1>10. ReadableIsPublished'
  <2>1. ~pem_in(Truncated).ok
    BY <1>3 DEF pem_in, EmptyDoc, Err
  <2>2. \A q \in Shell : pc'[q] = "write" \/ pc'[q] = pc[q]
    BY <1>1 DEF ProcessTypeOK
  <2> QED
    BY <1>1, <1>8, <2>1, <2>2 DEF ReadableIsPublished, history
<1>11. BundleGoesFirst'
  BY <1>1 DEF BundleGoesFirst, history
<1>12. ValidMeansSigned'
  BY <1>1 DEF ValidMeansSigned, history
<1>13. PublishedIsStored'
  BY <1>1, <1>3, <1>8 DEF PublishedIsStored, history, EmptyDoc
<1> QED
  BY <1>4, <1>5, <1>7, <1>9, <1>10, <1>11, <1>12, <1>13

LEMMA WriteFirstBlockSafe ==
  ASSUME SafetyInv, NEW p \in Shell, WriteFirstBlock(p)
  PROVE  SafetyInv'
<1> USE DEF SafetyInv, TypeOK
<1> DEFINE file == FirstBlockOver(fs[OutPath(p)], OutDoc(p))
<1>1. /\ pc[p] = "write" /\ DocLen(OutDoc(p)) > BLOCK
      /\ fs' = [fs EXCEPT ![OutPath(p)] = file]
      /\ pc' = [pc EXCEPT ![p] = "rest"]
      /\ UNCHANGED <<cmd, local, out, runs, draws, disturbed, history>>
  BY DEF WriteFirstBlock
<1>2. /\ OutPath(p) \in Path \ MsgPath /\ Running(p)
      /\ OutDoc(p) \in OutDocType /\ out[p][1].doc = OutDoc(p) /\ 1 \in DOMAIN out[p]
      /\ out[p] # <<>>
  BY <1>1, WritingType
<1>3. /\ file \in FileType /\ file.doc \in {OutDoc(p), MixedDoc}
      /\ pem_in(file).ok =>
           pem_in(fs[OutPath(p)]).ok /\ file.doc = fs[OutPath(p)].doc
  BY <1>1, <1>2, WriteType, FirstBlockUnreadable DEF FilesTypeOK
<1> HIDE DEF file
<1>4. FilesTypeOK'
  BY <1>1, <1>2, <1>3, FilesType
<1>5. ProcessTypeOK'
  <2>1. ASSUME NEW q \in Shell PROVE (LocalTypeOK(q) /\ OutTypeOK(q) /\ CommandTypeOK(q))'
    <3>1. CASE q = p
      BY <1>1, <1>2, <3>1
         DEF ProcessTypeOK, LocalTypeOK, OutTypeOK, CommandTypeOK, Running, Ended
    <3>2. CASE q # p
      BY <1>1, <3>2 DEF ProcessTypeOK, LocalTypeOK, OutTypeOK, CommandTypeOK, Running
    <3> QED
      BY <3>1, <3>2
  <2> QED
    BY <1>1, <2>1 DEF ProcessTypeOK
<1>6. HistoryTypeOK'
  BY <1>1 DEF HistoryTypeOK, history
<1>7. \A f \in Path : fs'[f] = fs[f] \/ fs'[f] = file
  BY <1>1 DEF FilesTypeOK
<1>8. SignaturesAreSigned'
  <2>1. file.doc.kind = "hex" /\ file.doc.bytes.tag = "sig" =>
          [key |-> file.doc.bytes.sk.key, msg |-> file.doc.bytes.msg] \in signed
    BY <1>2, <1>3 DEF SignaturesAreSigned, MixedDoc
  <2> QED
    BY <1>1, <1>7, <2>1 DEF SignaturesAreSigned, history
<1>9. ReadableIsPublished'
  <2>1. \A q \in Shell : pc'[q] = "rest" \/ pc'[q] = pc[q]
    BY <1>1 DEF ProcessTypeOK
  <2>2. pem_in(file).ok => file.doc.pem.bytes.key \in published
    BY <1>2, <1>3 DEF ReadableIsPublished
  <2>3. \A f \in Path : (pem_in(fs[f]).ok => fs[f].doc.pem.bytes.key \in published)'
    BY <1>1, <1>7, <2>2 DEF ReadableIsPublished, history
  <2> QED
    BY <1>1, <2>1, <2>3 DEF ReadableIsPublished, history
<1>10. BundleGoesFirst'
  BY <1>1 DEF BundleGoesFirst, history
<1>11. ValidMeansSigned'
  BY <1>1 DEF ValidMeansSigned, history
<1>12. PublishedIsStored'
  <2>1. file.doc.kind = "pem" => file.doc.pem.bytes.key \in stored
    <3>1. OutDoc(p).kind = "pem" => OutDoc(p).pem.bytes.key \in stored
      <4>1. \A j \in DOMAIN out[p] : ~(j < 1)
        BY <1>1 DEF ProcessTypeOK, OutTypeOK
      <4> QED
        BY <1>2, <4>1 DEF BundleGoesFirst
    <3> QED
      BY <1>3, <3>1 DEF MixedDoc
  <2> QED
    BY <1>1, <1>7, <2>1 DEF PublishedIsStored, history
<1> QED
  BY <1>4, <1>5, <1>6, <1>8, <1>9, <1>10, <1>11, <1>12

\* What is left to write after a document that is completely written is still in order.
LEMMA TailInOrder ==
  ASSUME SafetyInv, NEW p \in Shell, pc[p] \in {"open", "write", "rest"}, Written(OutDoc(p)),
         NEW i \in DOMAIN Tail(out[p]), Tail(out[p])[i].doc.kind = "pem"
  PROVE  \/ Tail(out[p])[i].doc.pem.bytes.key \in stored'
         \/ \E j \in DOMAIN Tail(out[p]) :
              /\ j < i /\ Tail(out[p])[j].doc.kind = "bundle"
              /\ Tail(out[p])[j].doc.bundle.ciphertext.data.pk.key =
                   Tail(out[p])[i].doc.pem.bytes.key
<1>1. /\ out[p] \in Seq([path : Path \ MsgPath, doc : OutDocType]) /\ out[p] # <<>>
      /\ out[p][1].doc = OutDoc(p)
  BY WritingType DEF SafetyInv, TypeOK
<1>2. /\ Len(out[p]) \in Nat /\ DOMAIN out[p] = 1..Len(out[p])
      /\ DOMAIN Tail(out[p]) = 1..(Len(out[p]) - 1)
      /\ \A j \in DOMAIN Tail(out[p]) : Tail(out[p])[j] = out[p][j + 1]
  BY <1>1, HeadTailProperties, LenProperties
<1>3. i + 1 \in DOMAIN out[p] /\ out[p][i + 1].doc.kind = "pem"
  BY <1>2
<1>4. CASE out[p][i + 1].doc.pem.bytes.key \in stored
  BY <1>2, <1>4 DEF Written
<1>5. ASSUME NEW k \in DOMAIN out[p], k < i + 1, out[p][k].doc.kind = "bundle",
             out[p][k].doc.bundle.ciphertext.data.pk.key = out[p][i + 1].doc.pem.bytes.key
      PROVE  \/ Tail(out[p])[i].doc.pem.bytes.key \in stored'
             \/ \E j \in DOMAIN Tail(out[p]) :
                  /\ j < i /\ Tail(out[p])[j].doc.kind = "bundle"
                  /\ Tail(out[p])[j].doc.bundle.ciphertext.data.pk.key =
                       Tail(out[p])[i].doc.pem.bytes.key
  <2>1. CASE k = 1
    BY <1>1, <1>2, <1>5, <2>1 DEF Written
  <2>2. CASE k # 1
    <3>1. /\ k - 1 \in DOMAIN Tail(out[p]) /\ k - 1 < i
          /\ Tail(out[p])[k - 1] = out[p][k]
      BY <1>2, <1>5, <2>2
    <3> QED
      BY <1>2, <1>5, <3>1
  <2> QED
    BY <2>1, <2>2
<1>6. \/ out[p][i + 1].doc.pem.bytes.key \in stored
      \/ \E k \in DOMAIN out[p] :
           /\ k < i + 1 /\ out[p][k].doc.kind = "bundle"
           /\ out[p][k].doc.bundle.ciphertext.data.pk.key =
                out[p][i + 1].doc.pem.bytes.key
  BY <1>3 DEF SafetyInv, BundleGoesFirst
<1> QED
  BY <1>4, <1>5, <1>6

LEMMA WriteAllSafe ==
  ASSUME SafetyInv, NEW p \in Shell, WriteAll(p)
  PROVE  SafetyInv'
<1> USE DEF SafetyInv, TypeOK
<1> DEFINE file == WrittenOver(fs[OutPath(p)], OutDoc(p))
<1>1. /\ pc[p] \in {"write", "rest"} /\ fs' = [fs EXCEPT ![OutPath(p)] = file]
      /\ Written(OutDoc(p))
      /\ UNCHANGED <<runs, draws, disturbed>>
  BY DEF WriteAll
<1>2. \/ /\ Len(out[p]) > 1
         /\ pc' = [pc EXCEPT ![p] = "open"] /\ out' = [out EXCEPT ![p] = Tail(@)]
         /\ UNCHANGED <<cmd, local>>
      \/ Exit(p, "exit0")
  BY DEF WriteAll
<1>3. /\ OutPath(p) \in Path \ MsgPath /\ Running(p)
      /\ OutDoc(p) \in OutDocType /\ out[p][1].doc = OutDoc(p) /\ 1 \in DOMAIN out[p]
      /\ out[p] \in Seq([path : Path \ MsgPath, doc : OutDocType]) /\ out[p] # <<>>
  BY <1>1, WritingType
<1>4. file \in FileType /\ file.doc = OutDoc(p)
  BY <1>3, WriteType DEF FilesTypeOK
<1> HIDE DEF file
<1>5. FilesTypeOK'
  BY <1>1, <1>3, <1>4, FilesType
<1>6. ProcessTypeOK'
  <2>1. CASE Exit(p, "exit0")
    BY <2>1, ExitProcess DEF Ended
  <2>2. CASE /\ Len(out[p]) > 1
             /\ pc' = [pc EXCEPT ![p] = "open"] /\ out' = [out EXCEPT ![p] = Tail(@)]
             /\ UNCHANGED <<cmd, local>>
    <3>1. /\ Tail(out[p]) \in Seq([path : Path \ MsgPath, doc : OutDocType])
          /\ Len(Tail(out[p])) = Len(out[p]) - 1
      BY <1>3, HeadTailProperties
    <3>2. Tail(out[p]) # <<>>
      <4>1. Len(out[p]) \in Nat
        BY <1>3, LenProperties
      <4>2. Len(Tail(out[p])) # 0
        <5>1. \A n \in Nat : n > 1 => n - 1 # 0
          OBVIOUS
        <5>2. Len(out[p]) - 1 # 0
          BY <2>2, <4>1, <5>1, Zenon
        <5> QED
          BY <3>1, <5>2, Zenon
      <4>3. \A S : \A s \in Seq(S) : s = <<>> => Len(s) = 0
        BY EmptySeq
      <4> QED
        BY <3>1, <4>2, <4>3, Zenon
    <3>3. ASSUME NEW q \in Shell
          PROVE  (LocalTypeOK(q) /\ OutTypeOK(q) /\ CommandTypeOK(q))'
      <4>1. CASE q = p
        BY <1>3, <2>2, <3>1, <3>2, <4>1
           DEF ProcessTypeOK, LocalTypeOK, OutTypeOK, CommandTypeOK, Running, Ended
      <4>2. CASE q # p
        BY <2>2, <4>2 DEF ProcessTypeOK, LocalTypeOK, OutTypeOK, CommandTypeOK, Running
      <4> QED
        BY <4>1, <4>2
    <3> QED
      BY <2>2, <3>3 DEF ProcessTypeOK
  <2> QED
    BY <1>2, <2>1, <2>2
<1>7. OutDoc(p).kind = "bundle" => OutDoc(p).bundle.ciphertext.data.pk.key \in Key
  BY <1>3, DocContent
     DEF DocType, BundleType, CiphertextType, PlaintextType, PkString
<1>8. OutDoc(p).kind = "pem" => OutDoc(p).pem.bytes.key \in Key
  BY <1>3, DocContent DEF DocType, PemType, PkString
<1>9. HistoryTypeOK'
  BY <1>1, <1>7, <1>8 DEF HistoryTypeOK, Written
<1>10. \A f \in Path : fs'[f] = fs[f] \/ fs'[f] = file
  BY <1>1 DEF FilesTypeOK
<1>11. stored \subseteq stored' /\ published \subseteq published'
       /\ UNCHANGED <<signed, verdicts, sent, recovered>>
  BY <1>1 DEF Written
<1>12. /\ \A q \in Shell \ {p} :
            out'[q] = out[q] /\ pc'[q] = pc[q] /\ local'[q] = local[q]
       /\ out'[p] = <<>> \/ out'[p] = Tail(out[p])
       /\ pc'[p] \in {"open", "exit0"}
  BY <1>2 DEF Exit, ProcessTypeOK
<1>13. SignaturesAreSigned'
  <2>1. file.doc.kind = "hex" /\ file.doc.bytes.tag = "sig" =>
          [key |-> file.doc.bytes.sk.key, msg |-> file.doc.bytes.msg] \in signed
    BY <1>3, <1>4 DEF SignaturesAreSigned
  <2>2. \A f \in Path :
          fs'[f].doc.kind = "hex" /\ fs'[f].doc.bytes.tag = "sig" =>
            [key |-> fs'[f].doc.bytes.sk.key, msg |-> fs'[f].doc.bytes.msg] \in signed'
    BY <1>10, <1>11, <2>1 DEF SignaturesAreSigned
  <2>3. \A i \in DOMAIN Tail(out[p]) : \E j \in DOMAIN out[p] : Tail(out[p])[i] = out[p][j]
    BY <1>3, HeadTailProperties, LenProperties
  <2>4. ASSUME NEW q \in Shell, NEW i \in DOMAIN out'[q]
        PROVE  out'[q][i].doc.kind = "hex" /\ out'[q][i].doc.bytes.tag = "sig" =>
                 [key |-> out'[q][i].doc.bytes.sk.key, msg |-> out'[q][i].doc.bytes.msg]
                   \in signed'
    <3>1. CASE q # p
      <4>1. out'[q] = out[q]
        BY <1>12, <3>1
      <4> QED
        BY <1>11, <2>4, <4>1 DEF SignaturesAreSigned
    <3>2. CASE q = p
      <4>1. out'[p] = Tail(out[p])
        <5>1. DOMAIN <<>> = {}
          OBVIOUS
        <5> QED
          BY <1>12, <2>4, <3>2, <5>1
      <4>2. PICK j \in DOMAIN out[p] : Tail(out[p])[i] = out[p][j]
        BY <2>3, <2>4, <3>2, <4>1
      <4> QED
        BY <1>11, <3>2, <4>1, <4>2 DEF SignaturesAreSigned
    <3> QED
      BY <3>1, <3>2
  <2> QED
    BY <2>2, <2>4 DEF SignaturesAreSigned
<1>14. ReadableIsPublished'
  <2>1. file.doc.kind = "pem" => file.doc.pem.bytes.key \in published'
    BY <1>1, <1>4 DEF Written
  <2>2. \A f \in Path : (pem_in(fs[f]).ok => fs[f].doc.pem.bytes.key \in published)'
    <3>1. pem_in(file).ok => file.doc.kind = "pem"
      BY DEF pem_in, Err
    <3> QED
      BY <1>10, <1>11, <2>1, <3>1 DEF ReadableIsPublished
  <2>3. ASSUME NEW q \in Shell
        PROVE  (/\ pc[q] = "file" => local[q].bytes.key \in published
                /\ pc[q] = "sig" => local[q].pub.bytes.key \in published)'
    BY <1>11, <1>12 DEF ReadableIsPublished
  <2> QED
    BY <2>2, <2>3 DEF ReadableIsPublished
<1>15. BundleGoesFirst'
  <2>1. ASSUME NEW q \in Shell, NEW i \in DOMAIN out'[q], out'[q][i].doc.kind = "pem"
        PROVE  \/ out'[q][i].doc.pem.bytes.key \in stored'
               \/ \E j \in DOMAIN out'[q] :
                    /\ j < i /\ out'[q][j].doc.kind = "bundle"
                    /\ out'[q][j].doc.bundle.ciphertext.data.pk.key =
                         out'[q][i].doc.pem.bytes.key
    <3>1. CASE q = p
      <4>1. out'[q] = Tail(out[p])
        BY <1>12, <2>1, <3>1
      <4> QED
        BY <1>1, <2>1, <4>1, TailInOrder
    <3>2. CASE q # p
      <4>1. out'[q] = out[q]
        BY <1>12, <3>2
      <4> QED
        BY <1>11, <2>1, <4>1 DEF BundleGoesFirst
    <3> QED
      BY <3>1, <3>2
  <2> QED
    BY <2>1 DEF BundleGoesFirst
<1>16. ValidMeansSigned'
  BY <1>11 DEF ValidMeansSigned
<1>17. PublishedIsStored'
  <2>1. OutDoc(p).kind = "pem" => OutDoc(p).pem.bytes.key \in stored
    <3>1. \A j \in DOMAIN out[p] : ~(j < 1)
      BY <1>3
    <3> QED
      BY <1>3, <3>1 DEF BundleGoesFirst
  <2>2. published' \subseteq stored'
    BY <1>1, <1>11, <2>1 DEF Written, PublishedIsStored
  <2> QED
    BY <1>4, <1>10, <1>11, <2>1, <2>2 DEF PublishedIsStored
<1> QED
  BY <1>5, <1>6, <1>9, <1>13, <1>14, <1>15, <1>16, <1>17

LEMMA EditMessageSafe ==
  ASSUME SafetyInv, NEW f \in MsgPath, NEW m \in Message, EditMessage(f, m)
  PROVE  SafetyInv'
<1> USE DEF SafetyInv, TypeOK
<1> DEFINE file == Whole(MsgDoc(m))
<1>1. /\ fs' = [fs EXCEPT ![f] = file] /\ f \in Path
      /\ UNCHANGED <<pc, cmd, local, out, runs, draws, disturbed, history>>
  BY PathAssumption DEF EditMessage, process
<1>2. file \in FileType /\ file.doc.kind = "msg"
  BY DEF Whole, MsgDoc, File, DocLen, FileType, DocType
<1> HIDE DEF file
<1>3. FilesTypeOK'
  BY <1>1, <1>2, FilesType
<1>4. ProcessTypeOK'
  BY <1>1 DEF ProcessTypeOK, LocalTypeOK, OutTypeOK, CommandTypeOK, Running
<1>5. HistoryTypeOK'
  BY <1>1 DEF HistoryTypeOK, history
<1>6. \A g \in Path : fs'[g] = fs[g] \/ fs'[g] = file
  BY <1>1 DEF FilesTypeOK
<1>7. SignaturesAreSigned'
  BY <1>1, <1>2, <1>6 DEF SignaturesAreSigned, history
<1>8. ReadableIsPublished'
  <2>1. ~pem_in(file).ok
    BY <1>2 DEF pem_in, Err
  <2> QED
    BY <1>1, <1>6, <2>1 DEF ReadableIsPublished, history
<1>9. BundleGoesFirst'
  BY <1>1 DEF BundleGoesFirst, history
<1>10. ValidMeansSigned'
  BY <1>1 DEF ValidMeansSigned, history
<1>11. PublishedIsStored'
  BY <1>1, <1>2, <1>6 DEF PublishedIsStored, history
<1> QED
  BY <1>3, <1>4, <1>5, <1>7, <1>8, <1>9, <1>10, <1>11

-----------------------------------------------------------------------------
(* The invariant and what follows from it. *)

LEMMA InitSafe == Init => SafetyInv
<1> SUFFICES ASSUME Init PROVE SafetyInv
  OBVIOUS
<1> USE DEF SafetyInv, TypeOK
<1>1. PICK content \in [MsgPath -> Message] :
        fs = [f \in Path |-> IF f \in MsgPath THEN Whole(MsgDoc(content[f])) ELSE NoFile]
  BY DEF Init
<1>2. \A m \in Message : Whole(MsgDoc(m)) \in FileType /\ Whole(MsgDoc(m)).doc.kind = "msg"
  BY DEF Whole, MsgDoc, File, DocLen, FileType, DocType
<1>3. NoFile \in FileType /\ NoFile.doc.kind = "missing"
  BY DEF NoFile, File, FileType, DocType, MissingDoc
<1>4. \A f \in Path : /\ fs[f] \in FileType
                      /\ fs[f].doc.kind = IF f \in MsgPath THEN "msg" ELSE "missing"
  BY <1>1, <1>2, <1>3
<1>5. FilesTypeOK
  BY <1>1, <1>4, PathAssumption DEF FilesTypeOK
<1>6. ProcessTypeOK
  <2>1. \A p \in Shell : pc[p] = "new" /\ cmd[p] = NoCommand /\ local[p] = <<>> /\ out[p] = <<>>
    BY DEF Init
  <2>2. \A p \in Shell : LocalTypeOK(p)
    BY <2>1 DEF LocalTypeOK
  <2>3. \A p \in Shell : OutTypeOK(p)
    <3>1. <<>> \in Seq([path : Path \ MsgPath, doc : OutDocType])
      BY EmptySeq
    <3> QED
      BY <2>1, <3>1 DEF OutTypeOK
  <2>4. \A p \in Shell : CommandTypeOK(p)
    BY <2>1 DEF CommandTypeOK, Running, Ended
  <2> QED
    BY <2>2, <2>3, <2>4 DEF Init, ProcessTypeOK, Ended
<1>7. HistoryTypeOK
  BY BoundAssumption DEF Init, HistoryTypeOK
<1>8. SignaturesAreSigned
  BY <1>4 DEF Init, SignaturesAreSigned
<1>9. ReadableIsPublished
  BY <1>4 DEF Init, ReadableIsPublished, pem_in, Err
<1>10. BundleGoesFirst /\ ValidMeansSigned
  BY DEF Init, BundleGoesFirst, ValidMeansSigned
<1>11. PublishedIsStored
  BY <1>4 DEF Init, PublishedIsStored
<1> QED
  BY <1>5, <1>6, <1>7, <1>8, <1>9, <1>10, <1>11

LEMMA NextSafe == SafetyInv /\ [Next]_vars => SafetyInv'
<1> SUFFICES ASSUME SafetyInv, [Next]_vars PROVE SafetyInv'
  OBVIOUS
<1>1. ASSUME NEW p \in Shell, NEW c \in Command, Start(p, c) PROVE SafetyInv'
  BY <1>1, StartSafe
<1>2. ASSUME NEW p \in Shell, Step(p) PROVE SafetyInv'
  BY <1>2, KeygenSafe, EncapsulateSafe, ReadBundleSafe, UnsealSafe, DecapsulateSafe, SignSafe,
     VerifyReadKeySafe, VerifyReadFileSafe, VerifySafe, InspectSafe, OpenOutSafe,
     WriteFirstBlockSafe, WriteAllSafe DEF Step
<1>3. ASSUME NEW p \in Shell, IoError(p) \/ Kill(p) PROVE SafetyInv'
  BY <1>3, StopSafe DEF IoError, Kill, Ended
<1>4. ASSUME NEW f \in MsgPath, NEW m \in Message, EditMessage(f, m) PROVE SafetyInv'
  BY <1>4, EditMessageSafe
<1>5. CASE UNCHANGED vars
  <2>1. /\ fs' = fs /\ pc' = pc /\ cmd' = cmd /\ local' = local /\ out' = out
        /\ runs' = runs /\ draws' = draws /\ disturbed' = disturbed
        /\ stored' = stored /\ published' = published /\ signed' = signed
        /\ verdicts' = verdicts /\ sent' = sent /\ recovered' = recovered
    BY <1>5 DEF vars, process, history
  <2>2. FilesTypeOK'
    BY <2>1 DEF FilesTypeOK, SafetyInv, TypeOK
  <2>3. ProcessTypeOK'
    BY <2>1 DEF ProcessTypeOK, LocalTypeOK, OutTypeOK, CommandTypeOK, Running, SafetyInv, TypeOK
  <2>4. HistoryTypeOK'
    BY <2>1 DEF HistoryTypeOK, SafetyInv, TypeOK
  <2>5. SignaturesAreSigned'
    BY <2>1 DEF SignaturesAreSigned, SafetyInv
  <2>6. ReadableIsPublished'
    BY <2>1 DEF ReadableIsPublished, SafetyInv
  <2>7. BundleGoesFirst'
    BY <2>1 DEF BundleGoesFirst, SafetyInv
  <2>8. ValidMeansSigned' /\ PublishedIsStored'
    BY <2>1 DEF ValidMeansSigned, PublishedIsStored, SafetyInv
  <2> QED
    BY <2>2, <2>3, <2>4, <2>5, <2>6, <2>7, <2>8 DEF SafetyInv, TypeOK
<1> QED
  BY <1>1, <1>2, <1>3, <1>4, <1>5 DEF Next

\* SafetyInv holds in every reachable state: the inductive invariant of the commands.
THEOREM Safety == Spec => []SafetyInv
  BY InitSafe, NextSafe, PTL DEF Spec

\* Every variable always holds a value of its type, for any commands and any failures.
THEOREM TypeCorrect == Spec => []TypeOK
<1>1. SafetyInv => TypeOK
  BY DEF SafetyInv
<1> QED
  BY <1>1, Safety, PTL

\* verify prints "Signature valid." (pqc-vault.rs:317) only for a message that was signed
\* with the private half of a published key, however the commands are interleaved, killed
\* and retried.
THEOREM ValidSignaturesWereMade == Spec => []ValidMeansSigned
<1>1. SafetyInv => ValidMeansSigned
  BY DEF SafetyInv
<1> QED
  BY <1>1, Safety, PTL

\* No public key gets to disk before its private key was completely written there
\* (pqc-vault.rs:198,204 and 216,222), wherever a keygen is killed.
THEOREM NoKeyBeforeItsBundle == Spec => []PublishedIsStored
<1>1. SafetyInv => PublishedIsStored
  BY DEF SafetyInv
<1> QED
  BY <1>1, Safety, PTL
=============================================================================
