------------------------------- MODULE KeyCodec -------------------------------
(***************************************************************************)
(* src/serial.rs, the plaintext of a bundle byte by byte: four bytes with  *)
(* the length of the public key, the public key, the secret key.  The      *)
(* module Serial takes the place of the split for granted; here it is      *)
(* computed from the prefix, in arithmetic of the width the code has.      *)
(*                                                                         *)
(* A plaintext that reaches the decoder was sealed with the passphrase, by *)
(* this code or by another program that writes bundles.                    *)
(***************************************************************************)
EXTENDS Integers, Sequences

CONSTANTS
  Base,      \* number of values of a byte
  Usize,     \* number of values of a usize
  Sizes,     \* level to the lengths of its keys: [public_key, private_key]
  MaxLength  \* bound: length of a plaintext

PREFIX == 4
U32 == Base * Base * Base * Base
Byte == 0..(Base - 1)
Level == DOMAIN Sizes

\* usize holds a u32 (a 32-bit or wider target), and every public key length is one.
ASSUME CodecAssumption ==
  /\ Base \in Nat /\ Base > 1 /\ MaxLength \in Nat
  /\ Usize \in Nat /\ Usize >= U32
  /\ Sizes \in [Level -> [public_key : 0..(U32 - PREFIX - 1), private_key : Nat]]

-----------------------------------------------------------------------------
(* Results: Rust's Ok and Err. *)

Ok(v)  == [ok |-> TRUE, val |-> v]
Err(e) == [ok |-> FALSE, err |-> e]
Panic  == Err("panic")

-----------------------------------------------------------------------------
(* The codec. *)

\* Mutation: the digits are not cut to a byte.
to_le_bytes_unreduced(n) ==
  <<n, n \div Base, (n \div Base) \div Base, ((n \div Base) \div Base) \div Base>>

\* The length as a u32, least significant byte first.
to_le_bytes(n) ==
  <<n % Base, (n \div Base) % Base, ((n \div Base) \div Base) % Base,
    (((n \div Base) \div Base) \div Base) % Base>>

from_le_bytes(b) == b[1] + Base * (b[2] + Base * (b[3] + Base * b[4]))

encode_plaintext(keys) ==
  to_le_bytes(Len(keys.public_key)) \o keys.public_key \o keys.secret_key

\* Mutation: the first byte only is the length.
decode_plaintext_one_byte(data) ==
  LET end == PREFIX + data[1]
  IN  IF Len(data) < PREFIX THEN Err("Truncated key data")
      ELSE IF Len(data) < end THEN Err("Truncated public key")
      ELSE Ok([public_key |-> SubSeq(data, PREFIX + 1, end),
               secret_key |-> SubSeq(data, end + 1, Len(data))])

\* Mutation: the prefix is taken as the place of the split.
decode_plaintext_no_offset(data) ==
  LET end == from_le_bytes(data)
  IN  IF Len(data) < PREFIX THEN Err("Truncated key data")
      ELSE IF Len(data) < end THEN Err("Truncated public key")
      ELSE IF end < PREFIX THEN Panic
      ELSE Ok([public_key |-> SubSeq(data, PREFIX + 1, end),
               secret_key |-> SubSeq(data, end + 1, Len(data))])

\* 4 + pk_len is computed in usize.  When it wraps, a build with overflow checks panics at
\* the addition, and one without them at the slice, whose end is before its start.
decode_plaintext(data) ==
  LET end == (PREFIX + from_le_bytes(data)) % Usize
  IN  IF Len(data) < PREFIX THEN Err("Truncated key data")
      ELSE IF Len(data) < end THEN Err("Truncated public key")
      ELSE IF end < PREFIX THEN Panic
      ELSE Ok([public_key |-> SubSeq(data, PREFIX + 1, end),
               secret_key |-> SubSeq(data, end + 1, Len(data))])

\* into_keypair, which is from_bytes: both lengths are those of the level.
into_keypair(level, keys) ==
  IF \/ Len(keys.public_key) # Sizes[level].public_key
     \/ Len(keys.secret_key) # Sizes[level].private_key
    THEN Err("InvalidKey")
    ELSE Ok(keys)

\* What unseal does with the plaintext it decrypted.
unseal_plaintext(level, data) ==
  LET keys == decode_plaintext(data)
  IN  IF keys.ok THEN into_keypair(level, keys.val) ELSE keys

-----------------------------------------------------------------------------
VARIABLES
  data,    \* the plaintext
  sealed   \* the key pair it was encoded from: a sequence of one, or of none

vars == <<data, sealed>>

ByteStrings == Seq(Byte)

Init == data = <<>> /\ sealed = <<>>

\* seal_kem or seal_dsa of a key pair of a level.
Encode(level, pk, sk) ==
  LET keys == [public_key |-> pk, secret_key |-> sk]
  IN  /\ into_keypair(level, keys).ok
      /\ data' = encode_plaintext(keys)
      /\ sealed' = <<[level |-> level, keys |-> keys]>>

\* Another program writes a plaintext, one byte after the other.
WriteByte(b) ==
  /\ Len(data) < MaxLength
  /\ data' = Append(data, b)
  /\ sealed' = <<>>

\* It starts anew.
Clear == data' = <<>> /\ sealed' = <<>>

Next ==
  \/ \E level \in Level :
       \E pk \in [1..Sizes[level].public_key -> Byte],
          sk \in [1..Sizes[level].private_key -> Byte] : Encode(level, pk, sk)
  \/ \E b \in Byte : WriteByte(b)
  \/ Clear

Spec == Init /\ [][Next]_vars

-----------------------------------------------------------------------------
KeyBytes == [public_key : ByteStrings, secret_key : ByteStrings]

\* A plaintext is a byte string, and what is decoded from one are byte strings.
TypeOK ==
  /\ data \in ByteStrings
  /\ sealed \in Seq([level : Level, keys : KeyBytes])
  /\ LET keys == decode_plaintext(data)
     IN  keys.ok => keys.val \in KeyBytes

-----------------------------------------------------------------------------
(* Safety. *)

\* What was sealed at a level is unsealed at that level, byte for byte (serial.rs:273-321).
RoundTrip ==
  sealed # <<>> =>
    unseal_plaintext(sealed[1].level, data) = Ok(sealed[1].keys)

\* Whoever wrote it: a plaintext that decodes is the encoding of what it decodes to.  No
\* prefix is ignored, no byte is skipped, and no key pair has two plaintexts.
DecodeIsInverse ==
  LET keys == decode_plaintext(data)
  IN  keys.ok => encode_plaintext(keys.val) = data

\* The wrap of 4 + pk_len (serial.rs:288) bites only on a prefix that is the length of no
\* public key: no plaintext of this code, whatever its level, makes the decoder panic.
OnlyHugePrefixesPanic ==
  decode_plaintext(data) = Panic =>
    \A level \in Level : from_le_bytes(data) # Sizes[level].public_key
=============================================================================
