--------------------------------- MODULE Files ---------------------------------
(***************************************************************************)
(* What the commands write and read, and std::fs::write under them.        *)
(*                                                                         *)
(* fs::write (external) creates or truncates the file, then writes it from *)
(* offset 0.  Neither step waits for the other processes and nothing is    *)
(* renamed into place, so a file is a document and a length: the length is *)
(* that of the document, or shorter (the write is not over, or never       *)
(* ended), or longer (the tail of a longer document that another process   *)
(* wrote after the truncation is still there).                             *)
(***************************************************************************)
EXTENDS Serial, Pem

\* The unit in which a write reaches a file; a shorter document is written at once.
BLOCK == 4096

BundleDoc(b)  == [kind |-> "bundle", bundle |-> b]
PemDoc(pem)   == [kind |-> "pem", pem |-> pem]
HexDoc(bytes) == [kind |-> "hex", bytes |-> bytes]
MsgDoc(m)     == [kind |-> "msg", msg |-> m]

MissingDoc == [kind |-> "missing"]
EmptyDoc   == [kind |-> "empty"]
\* The beginning of one document followed by the rest of another of the same kind.
MixedDoc   == [kind |-> "mixed"]

CiphertextLen(b) == PlaintextLen(b.ciphertext.data) + GCM_TAG

DocLen(d) ==
  IF d.kind = "bundle" THEN 129 + 2 * CiphertextLen(d.bundle)
  ELSE IF d.kind = "pem" THEN PemLen(d.pem)
  ELSE IF d.kind = "hex" THEN 2 * d.bytes.len
  ELSE IF d.kind = "msg" THEN 1
  ELSE 0

File(d, len) == [doc |-> d, len |-> len]
NoFile  == File(MissingDoc, 0)
Whole(d) == File(d, DocLen(d))

-----------------------------------------------------------------------------
(* fs::write in steps. *)

Longer(m, n) == IF m > n THEN m ELSE n

Truncated == File(EmptyDoc, 0)

FirstBlockOver(f, d) ==
  File(IF f.len > BLOCK /\ f.doc # d THEN MixedDoc ELSE d, Longer(f.len, BLOCK))

WrittenOver(f, d) == File(d, Longer(f.len, DocLen(d)))

-----------------------------------------------------------------------------
(* Reading. *)

Exists(f) == f.doc.kind # "missing"
\* The file is one document, whole and with nothing after it.
Intact(f) ==
  f.doc.kind \in {"bundle", "pem", "hex", "msg"} /\ f.len = DocLen(f.doc)

\* EncryptedKeyBundle::from_json: a truncated bundle, and one with trailing characters,
\* is not JSON.  (Two halves of bundles may be, but then do not decrypt: exit code 1 too.)
from_json(f) ==
  IF f.doc.kind = "bundle" /\ Intact(f) THEN Ok(f.doc.bundle) ELSE Err("Invalid bundle JSON")

\* Whether serde_json makes a value of the text: two halves of bundles, and what the user
\* wrote, may be JSON or not.
may_be_json(f) ==
  IF f.doc.kind \in {"mixed", "msg"} THEN BOOLEAN ELSE {from_json(f).ok}

\* A PEM document is looked for in the text: what follows its footer is ignored.
pem_in(f) ==
  IF f.doc.kind = "pem" /\ f.len >= DocLen(f.doc) THEN Ok(f.doc.pem) ELSE Err("Missing PEM")

\* hex::decode of the trimmed text; an empty file decodes to no bytes.
hex_decode(f) ==
  IF f.doc.kind = "hex" /\ Intact(f) THEN Ok(f.doc.bytes)
  ELSE IF f.doc.kind \in {"hex", "mixed", "empty"} THEN Ok(Junk(f.len \div 2))
  ELSE Err("Hex decode error")
=============================================================================
