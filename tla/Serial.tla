-------------------------------- MODULE Serial --------------------------------
(***************************************************************************)
(* src/serial.rs: the encrypted key bundle.  A bundle is a JSON record of  *)
(* a plain header (version, kind, level), a salt, a nonce and the key pair *)
(* encrypted with AES-256-GCM under an Argon2id key.  Only the ciphertext  *)
(* is authenticated: the header is not passed to the cipher.               *)
(*                                                                         *)
(* A hex-encoded field keeps whether it is hex at all, the length of its   *)
(* bytes and what they are.  AES-GCM is external and ideal: a ciphertext   *)
(* opens only as it was made, under the key and nonce it was made with.    *)
(***************************************************************************)
EXTENDS Primitives

BUNDLE_VERSION == 1

\* Mutation: a wrong arm of the match.
level_to_u8_arm(level) == [Level1 |-> 1, Level3 |-> 3, Level5 |-> 3][level]
level_to_u8(level) == [Level1 |-> 1, Level3 |-> 3, Level5 |-> 5][level]

u8_to_level(n) ==
  CASE n = 1 -> Ok("Level1")
    [] n = 3 -> Ok("Level3")
    [] n = 5 -> Ok("Level5")
    [] OTHER -> Err("Unknown security level")

-----------------------------------------------------------------------------
(* Key encoding: a four-byte length of the public key, then both keys. *)

encode_plaintext(data) ==
  [pk_len |-> data.public_key.len, pk |-> data.public_key, sk |-> data.secret_key]

PlaintextLen(data) == 4 + data.pk.len + data.sk.len

\* The split is made where pk_len says; anywhere but between the two keys it gives
\* strings that are neither.
decode_plaintext(data) ==
  IF PlaintextLen(data) < 4 + data.pk_len THEN Err("Truncated public key")
  ELSE IF data.pk_len = data.pk.len
    THEN Ok([pk |-> data.pk, sk |-> data.sk])
    ELSE Ok([pk |-> Junk(data.pk_len), sk |-> Junk(PlaintextLen(data) - 4 - data.pk_len)])

-----------------------------------------------------------------------------
(* Encryption.  `rnd` is the entropy the salt and the nonce are drawn from. *)

HexField(len, val) == [hex |-> TRUE, len |-> len, val |-> val]

GCM_TAG == 16
MIN_SALT == 8      \* argon2 refuses a shorter salt
NONCE == 12

derive_key(pass, salt) ==
  IF salt.len < MIN_SALT
    THEN Err("Argon2 KDF failed")
    ELSE Ok([pass |-> pass, salt_len |-> salt.len, salt |-> salt.val])

encrypt(data, pass, rnd) ==
  LET salt  == HexField(16, rnd)
      nonce == HexField(NONCE, rnd)
  IN  [salt |-> salt, nonce |-> nonce,
       ciphertext |-> [hex |-> TRUE, authentic |-> TRUE, data |-> data,
                       key |-> derive_key(pass, salt).val, nonce |-> nonce.val]]

\* Nonce::from_slice asserts the length: the process panics, no Err is returned.
Panic == Err("panic")

\* Mutation: the ciphertext opens under any passphrase.
decrypt_any_pass(b, pass) ==
  IF ~(b.salt.hex /\ b.nonce.hex /\ b.ciphertext.hex) THEN Err("Invalid encoding")
  ELSE IF b.ciphertext.authentic /\ b.ciphertext.nonce = b.nonce.val
    THEN Ok(b.ciphertext.data)
    ELSE Err("Decryption failed")

decrypt(b, pass) ==
  LET aes_key == derive_key(pass, b.salt)
      ct == b.ciphertext
  IN  IF ~b.salt.hex THEN Err("Invalid salt encoding")
      ELSE IF ~b.nonce.hex THEN Err("Invalid nonce encoding")
      ELSE IF ~ct.hex THEN Err("Invalid ciphertext encoding")
      ELSE IF ~aes_key.ok THEN aes_key
      ELSE IF b.nonce.len # NONCE THEN Panic
      ELSE IF ct.authentic /\ ct.key = aes_key.val /\ ct.nonce = b.nonce.val
        THEN Ok(ct.data)
        ELSE Err("Decryption failed")

-----------------------------------------------------------------------------
(* EncryptedKeyBundle. *)

\* seal_kem and seal_dsa: kind is the type of the key pair.
seal(kp, pass, rnd) ==
  LET e == encrypt(encode_plaintext(export(kp)), pass, rnd)
  IN  [version |-> BUNDLE_VERSION, kind |-> kp.algo, level |-> level_to_u8(kp.level),
       salt |-> e.salt, nonce |-> e.nonce, ciphertext |-> e.ciphertext]

\* Mutation: the level is taken from the key, the header's is not looked at.
unseal_level_of_key(b, algo, pass) ==
  IF b.kind # algo THEN Err("Bundle is not such a key")
  ELSE LET data == decrypt(b, pass)
       IN  IF ~data.ok THEN data
           ELSE into_keypair(algo, data.val.pk.key.level, data.val.pk, data.val.sk)

\* unseal_kem and unseal_dsa, decode and into_keypair included.
unseal(b, algo, pass) ==
  IF b.kind # algo THEN Err("Bundle is not such a key")
  ELSE IF b.version # BUNDLE_VERSION THEN Err("Unsupported bundle version")
  ELSE LET level == u8_to_level(b.level)
           data  == decrypt(b, pass)
       IN  IF ~level.ok THEN level
           ELSE IF ~data.ok THEN data
           ELSE LET keys == decode_plaintext(data.val)
                IN  IF ~keys.ok THEN keys
                    ELSE into_keypair(algo, level.val, keys.val.pk, keys.val.sk)

\* What `pqc-vault inspect` prints of a bundle: it believes the header.
inspect(b) ==
  [algo  |-> IF b.kind \in Algo THEN b.kind ELSE "Unknown",
   level |-> b.level,
   variant |-> IF b.kind \in Algo /\ u8_to_level(b.level).ok
                 THEN <<b.kind, b.level>>
                 ELSE <<"Unknown", 0>>]
=============================================================================
