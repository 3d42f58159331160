------------------------------ MODULE Primitives ------------------------------
(***************************************************************************)
(* src/kem.rs and src/dsa.rs: typed ML-KEM and ML-DSA keys over the        *)
(* pqcrypto crates.  The two files are much the same code over two crates; *)
(* an operator with an `algo` argument chooses as the Rust type does.      *)
(*                                                                         *)
(* A byte string is abstracted to what the code and its callers can tell   *)
(* apart: its length, and what it is (the public key of k, a ciphertext    *)
(* made for k with randomness rnd, ...).  The cryptography itself is       *)
(* external and ideal: nothing but the private key of k signs for k or     *)
(* recovers what was encapsulated to k.  The only validation the crates do *)
(* in from_bytes is of the length.                                         *)
(***************************************************************************)
EXTENDS Naturals

SecurityLevel == {"Level1", "Level3", "Level5"}

\* The Rust type of a key: KemKeyPair or DsaKeyPair, KemPublicKey or DsaPublicKey.
Algo == {"kem", "dsa"}

KemSizes ==
  [Level1 |-> [public_key |-> 800,  private_key |-> 1632, product |-> 768],
   Level3 |-> [public_key |-> 1184, private_key |-> 2400, product |-> 1088],
   Level5 |-> [public_key |-> 1568, private_key |-> 3168, product |-> 1568]]

DsaSizes ==
  [Level1 |-> [public_key |-> 1312, private_key |-> 2528, product |-> 2420],
   Level3 |-> [public_key |-> 1952, private_key |-> 4000, product |-> 3293],
   Level5 |-> [public_key |-> 2592, private_key |-> 4864, product |-> 4595]]

SHARED_SECRET == 32

\* "product" is what the algorithm outputs: a ciphertext or a detached signature.
SizeOf(algo, level) == IF algo = "kem" THEN KemSizes[level] ELSE DsaSizes[level]

-----------------------------------------------------------------------------
(* Results: Rust's Ok and Err. *)

Ok(v)  == [ok |-> TRUE, val |-> v]
Err(e) == [ok |-> FALSE, err |-> e]

-----------------------------------------------------------------------------
(* Byte strings. *)

\* The identity of a generated key pair; `id` is the entropy it was drawn from.
KeyOf(algo, level, id) == [algo |-> algo, level |-> level, id |-> id]

PkBytes(k) ==
  [tag |-> "pk", key |-> k, len |-> SizeOf(k.algo, k.level).public_key]
SkBytes(k) ==
  [tag |-> "sk", key |-> k, len |-> SizeOf(k.algo, k.level).private_key]

\* n bytes that are none of the byte strings an operation of the library made.
Junk(n) == [tag |-> "junk", len |-> n]

\* What kyber's encapsulate returns for public key bytes pk: a ciphertext and a secret.
CtBytes(pk, level, rnd) ==
  [tag |-> "ct", pk |-> pk, rnd |-> rnd, len |-> KemSizes[level].product]
SsBytes(pk, rnd) == [tag |-> "ss", pk |-> pk, rnd |-> rnd, len |-> SHARED_SECRET]

\* kyber's decapsulate never fails on a ciphertext of the right length: one that was not
\* made for this key gives a secret that depends on the private key (implicit rejection).
kyber_decapsulate(ct, sk) ==
  IF ct.tag = "ct" /\ sk.tag = "sk" /\ ct.pk = PkBytes(sk.key)
    THEN SsBytes(ct.pk, ct.rnd)
    ELSE [tag |-> "rejected", sk |-> sk, ct |-> ct, len |-> SHARED_SECRET]

SigBytes(sk, level, m) ==
  [tag |-> "sig", sk |-> sk, msg |-> m, len |-> DsaSizes[level].product]

\* dilithium's verify_detached_signature.
dilithium_verifies(sig, m, pk) ==
  /\ sig.tag = "sig" /\ pk.tag = "pk"
  /\ sig.sk = SkBytes(pk.key)
  /\ sig.msg = m

-----------------------------------------------------------------------------
(* Key pairs and public keys. *)

kem_generate(level, id) ==
  LET k == KeyOf("kem", level, id)
  IN  [algo |-> "kem", level |-> level, pk_bytes |-> PkBytes(k), sk_bytes |-> SkBytes(k)]

dsa_generate(level, id) ==
  LET k == KeyOf("dsa", level, id)
  IN  [algo |-> "dsa", level |-> level, pk_bytes |-> PkBytes(k), sk_bytes |-> SkBytes(k)]

generate(algo, level, id) ==
  IF algo = "kem" THEN kem_generate(level, id) ELSE dsa_generate(level, id)

public_key(kp) == [algo |-> kp.algo, level |-> kp.level, bytes |-> kp.pk_bytes]

\* KemKeyPair::export: what is handed to the encoder of a bundle.
export(kp) ==
  [level |-> kp.level, public_key |-> kp.pk_bytes, secret_key |-> kp.sk_bytes]

\* Mutation: the lengths are not checked.
kem_from_bytes_unvalidated(level, pk, sk) ==
  Ok([algo |-> "kem", level |-> level, pk_bytes |-> pk, sk_bytes |-> sk])

\* Mutation: the keys are stored in each other's place.
kem_from_bytes_swapped(level, pk, sk) ==
  IF \/ pk.len # KemSizes[level].public_key
     \/ sk.len # KemSizes[level].private_key
    THEN Err("InvalidKey")
    ELSE Ok([algo |-> "kem", level |-> level, pk_bytes |-> sk, sk_bytes |-> pk])

\* The public key is parsed first, then the secret key; nothing relates the one to the other.
kem_from_bytes(level, pk, sk) ==
  IF \/ pk.len # KemSizes[level].public_key
     \/ sk.len # KemSizes[level].private_key
    THEN Err("InvalidKey")
    ELSE Ok([algo |-> "kem", level |-> level, pk_bytes |-> pk, sk_bytes |-> sk])

dsa_from_bytes(level, pk, sk) ==
  IF \/ pk.len # DsaSizes[level].public_key
     \/ sk.len # DsaSizes[level].private_key
    THEN Err("InvalidKey")
    ELSE Ok([algo |-> "dsa", level |-> level, pk_bytes |-> pk, sk_bytes |-> sk])

\* KemKeyData::into_keypair and DsaKeyData::into_keypair.
into_keypair(algo, level, pk, sk) ==
  IF algo = "kem" THEN kem_from_bytes(level, pk, sk) ELSE dsa_from_bytes(level, pk, sk)

kem_from_validated(level, bytes) ==
  IF bytes.len # KemSizes[level].public_key
    THEN Err("InvalidKey")
    ELSE Ok([algo |-> "kem", level |-> level, bytes |-> bytes])

dsa_from_validated(level, bytes) ==
  IF bytes.len # DsaSizes[level].public_key
    THEN Err("InvalidKey")
    ELSE Ok([algo |-> "dsa", level |-> level, bytes |-> bytes])

from_validated(algo, level, bytes) ==
  IF algo = "kem" THEN kem_from_validated(level, bytes) ELSE dsa_from_validated(level, bytes)

-----------------------------------------------------------------------------
(* Operations. *)

encapsulate(pub, rnd) ==
  IF pub.bytes.len # KemSizes[pub.level].public_key
    THEN Err("InvalidKey")
    ELSE Ok([ct     |-> CtBytes(pub.bytes, pub.level, rnd),
             secret |-> SsBytes(pub.bytes, rnd)])

decapsulate(kp, ct) ==
  IF kp.sk_bytes.len # KemSizes[kp.level].private_key THEN Err("InvalidKey")
  ELSE IF ct.len # KemSizes[kp.level].product THEN Err("InvalidCiphertext")
  ELSE Ok(kyber_decapsulate(ct, kp.sk_bytes))

sign(kp, m) ==
  IF kp.sk_bytes.len # DsaSizes[kp.level].private_key
    THEN Err("InvalidKey")
    ELSE Ok(SigBytes(kp.sk_bytes, kp.level, m))

\* Mutation: any signature is taken for one of this message by this key.
verify_unbound(pub, m, sig) ==
  IF sig.len # DsaSizes[pub.level].product
    THEN Err("InvalidSignature")
    ELSE IF sig.tag = "sig" THEN Ok("verified") ELSE Err("VerificationFailed")

verify_with_typed_key(pub, m, sig) ==
  IF pub.bytes.len # DsaSizes[pub.level].public_key THEN Err("InvalidKey")
  ELSE IF sig.len # DsaSizes[pub.level].product THEN Err("InvalidSignature")
  ELSE IF dilithium_verifies(sig, m, pub.bytes)
    THEN Ok("verified")
    ELSE Err("VerificationFailed")
=============================================================================
