---------------------------------- MODULE Pem ----------------------------------
(***************************************************************************)
(* src/pem.rs: public keys as text.  A document is its label, the level    *)
(* its header line names and the bytes of its base64 body; the level is    *)
(* read from the header, never from the length of the body, and            *)
(* from_validated is what relates the two.                                 *)
(***************************************************************************)
EXTENDS Primitives

\* KEM_LABEL and DSA_LABEL are named by the algorithm they label.
public_key_to_pem(pub) ==
  [label |-> pub.algo, header |-> pub.level, bytes |-> pub.bytes]

decode_pem(pem, expected_label) ==
  IF pem.label # expected_label
    THEN Err("Missing PEM header")
    ELSE Ok([level |-> pem.header, bytes |-> pem.bytes])

public_key_from_pem(algo, pem) ==
  LET decoded == decode_pem(pem, algo)
  IN  IF decoded.ok
        THEN from_validated(algo, decoded.val.level, decoded.val.bytes)
        ELSE decoded

-----------------------------------------------------------------------------
(* The length of the text: two label lines, the header line and the base64 *)
(* body wrapped at 64 characters.                                          *)

VariantLen(algo, level) ==
  IF algo = "kem" THEN (IF level = "Level5" THEN 9 ELSE 8) ELSE 10

Base64Len(n) == 4 * ((n + 2) \div 3)

PemLen(pem) ==
  LET b64 == Base64Len(pem.bytes.len)
  IN  111 + VariantLen(pem.label, pem.header) + b64 + (b64 - 1) \div 64
=============================================================================
