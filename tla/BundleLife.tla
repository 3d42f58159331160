------------------------------ MODULE BundleLife ------------------------------
(***************************************************************************)
(* The life of encrypted bundles outside the vault: key pairs are sealed,  *)
(* sealed again under another passphrase, and the JSON on disk is damaged  *)
(* or edited field by field, or spliced from two bundles, before somebody  *)
(* inspects and unseals it.  What unseal answers is checked against what   *)
(* was sealed.  The header is not authenticated by the cipher, so what     *)
(* keeps a changed header from giving a changed key is the rest of unseal. *)
(***************************************************************************)
EXTENDS Serial, Sequences

CONSTANTS
  Slot,        \* the bundles
  Passphrase,
  MaxSeals,    \* bound: seals in a behaviour
  MaxDamage    \* bound: fields changed in a behaviour

ASSUME BundleAssumption == MaxSeals \in Nat /\ MaxDamage \in Nat

VARIABLES
  bundle,      \* what each slot holds: a sequence of one bundle, or of none
  sealings,    \* every sealing so far: [kp, pass, bundle]
  answer,      \* of the unseal just made, if it was the last step: [bundle, algo, pass, result]
  seals, damage

vars == <<bundle, sealings, answer, seals, damage>>

Init ==
  /\ bundle = [s \in Slot |-> <<>>]
  /\ sealings = {} /\ answer = <<>>
  /\ seals = 0 /\ damage = 0

Put(s, b) == bundle' = [bundle EXCEPT ![s] = <<b>>]

SealKeyPair(s, kp, pass) ==
  /\ seals < MaxSeals
  /\ seals' = seals + 1
  /\ LET b == seal(kp, pass, seals)
     IN  /\ Put(s, b)
         /\ sealings' = sealings \cup {[kp |-> kp, pass |-> pass, bundle |-> b]}
  /\ answer' = <<>>
  /\ UNCHANGED damage

\* seal_kem or seal_dsa of a generated key pair.
Seal(s, algo, level, pass) == SealKeyPair(s, generate(algo, level, seals), pass)

\* Change of passphrase: unseal, then seal what came out.
Reseal(s, t, algo, old, new) ==
  /\ bundle[s] # <<>>
  /\ unseal(bundle[s][1], algo, old).ok
  /\ SealKeyPair(t, unseal(bundle[s][1], algo, old).val, new)

Unseal(s, algo, pass) ==
  /\ bundle[s] # <<>>
  /\ answer' = <<[bundle |-> bundle[s][1], algo |-> algo, pass |-> pass,
                  result |-> unseal(bundle[s][1], algo, pass)]>>
  /\ UNCHANGED <<bundle, sealings, seals, damage>>

-----------------------------------------------------------------------------
(* What can happen to the JSON that leaves it a BundleJson (from_json accepts it). *)

\* Header fields changed to another value their type allows.
DamagedHeaders(b) ==
  {[b EXCEPT !.kind = k] : k \in (Algo \cup {"other"}) \ {b.kind}}
    \cup {[b EXCEPT !.version = 2]}
    \cup {[b EXCEPT !.level = n] : n \in (0..5) \ {b.level}}

\* A hex field that is not hex, or is of other bytes, or is shorter.
DamagedFields(b) ==
  {[b EXCEPT !.salt = f] :
     f \in {[b.salt EXCEPT !.hex = FALSE], [b.salt EXCEPT !.val = @ + MaxSeals],
            [b.salt EXCEPT !.len = MIN_SALT - 1, !.val = @ + MaxSeals]}}
    \cup
  {[b EXCEPT !.nonce = f] :
     f \in {[b.nonce EXCEPT !.hex = FALSE], [b.nonce EXCEPT !.val = @ + MaxSeals],
            [b.nonce EXCEPT !.len = NONCE - 1, !.val = @ + MaxSeals]}}
    \cup
  {[b EXCEPT !.ciphertext.hex = FALSE], [b EXCEPT !.ciphertext.authentic = FALSE]}

\* Fields of bundle c in bundle b.
Splices(b, c) ==
  {[b EXCEPT !.ciphertext = c.ciphertext],
   [b EXCEPT !.salt = c.salt, !.nonce = c.nonce],
   [b EXCEPT !.salt = c.salt, !.nonce = c.nonce, !.ciphertext = c.ciphertext]}

Damage(s) ==
  /\ damage < MaxDamage
  /\ damage' = damage + 1
  /\ bundle[s] # <<>>
  /\ \/ \E b \in DamagedHeaders(bundle[s][1]) \cup DamagedFields(bundle[s][1]) : Put(s, b)
     \/ \E t \in Slot \ {s} :
          /\ bundle[t] # <<>>
          /\ \E b \in Splices(bundle[s][1], bundle[t][1]) : Put(s, b)
  /\ answer' = <<>>
  /\ UNCHANGED <<sealings, seals>>

Next ==
  \E s \in Slot :
    \/ Damage(s)
    \/ \E algo \in Algo, pass \in Passphrase :
         \/ Unseal(s, algo, pass)
         \/ \E level \in SecurityLevel : Seal(s, algo, level, pass)
         \/ \E t \in Slot, new \in Passphrase : Reseal(s, t, algo, pass, new)

Spec == Init /\ [][Next]_vars

-----------------------------------------------------------------------------
(* Types. *)

HexFields == [hex : BOOLEAN, len : Nat, val : Nat]
Keys == [algo : Algo, level : SecurityLevel, id : Nat]
KeyPairs ==
  [algo : Algo, level : SecurityLevel,
   pk_bytes : [tag : {"pk"}, key : Keys, len : Nat],
   sk_bytes : [tag : {"sk"}, key : Keys, len : Nat]]

BundleJson(b) ==
  /\ b.version \in 0..255 /\ b.level \in 0..255 /\ b.kind \in Algo \cup {"other"}
  /\ b.salt \in HexFields /\ b.nonce \in HexFields
  /\ b.ciphertext.key.pass \in Passphrase /\ b.ciphertext.nonce \in Nat

\* The answer of the last unseal, when there is one, and what it is compared with.
Answers  == {answer[i] : i \in DOMAIN answer}
Restored == {a \in Answers : a.result.ok}

\* Every bundle can be written as the JSON of serial.rs:97-110; a key pair is typed.
TypeOK ==
  /\ \A s \in Slot : bundle[s] # <<>> => BundleJson(bundle[s][1])
  /\ seals \in 0..MaxSeals /\ damage \in 0..MaxDamage
  /\ \A x \in sealings : x.kp \in KeyPairs /\ x.pass \in Passphrase
  /\ \A a \in Restored : a.result.val \in KeyPairs

-----------------------------------------------------------------------------
(* Safety. *)

\* Whatever was changed in the JSON, a key pair that comes out is exactly one that went
\* in: same bytes, same algorithm, same level, under the passphrase it was sealed with
\* (serial.rs:169-198).  An edited kind or level never gives a key of another type.
UnsealedWasSealed ==
  \A a \in Restored :
    /\ \E x \in sealings : x.kp = a.result.val /\ x.pass = a.pass
    /\ a.result.val.algo = a.algo

\* An untouched bundle always opens with its passphrase and its kind, and with nothing
\* else, however often the key pair was sealed again under other passphrases.
UntouchedOpens ==
  \A a \in Answers, x \in sealings :
    a.bundle = x.bundle =>
      (a.result.ok <=> a.pass = x.pass /\ a.algo = x.kp.algo)

\* `inspect` and unseal agree: the algorithm and variant printed without a passphrase are
\* those of the key pair that comes out, for every bundle that opens, damaged or not.
InspectAgrees ==
  \A a \in Restored :
    inspect(a.bundle).variant = <<a.result.val.algo, level_to_u8(a.result.val.level)>>

\* serial.rs:253 and pqc-vault.rs:264: a corrupted bundle gives the error "wrong
\* passphrase or corrupted bundle".
CorruptionIsAnError == \A a \in Answers : a.result # Panic
=============================================================================
