-------------------------------- MODULE Hybrid --------------------------------
(***************************************************************************)
(* src/hybrid.rs: the X25519 + ML-KEM exchange, between key holders that   *)
(* replace their key pairs and senders that may still have an old public   *)
(* key.  A ciphertext travels as one line of hex, with no checksum: the    *)
(* network may lose it, deliver it many times and in any order, cut it,    *)
(* change it, or join the halves of two.                                   *)
(*                                                                         *)
(* X25519 and HKDF are external and ideal.  X25519 ignores the top bit of  *)
(* a public key, and every 32 bytes are a public key.                      *)
(***************************************************************************)
EXTENDS Primitives, FiniteSets

CONSTANTS
  Holder,      \* who has a hybrid key pair
  Level,       \* the levels they choose from
  MaxDraws,    \* bound: key pairs and encapsulations in a behaviour
  MaxChanges,  \* bound: wires the network makes up from others
  MaxAnswers   \* bound: different decapsulations

ASSUME HybridAssumption ==
  /\ Level \subseteq SecurityLevel
  /\ MaxDraws \in Nat /\ MaxChanges \in Nat /\ MaxAnswers \in Nat

-----------------------------------------------------------------------------
(* X25519 and the combiner. *)

X25519_PUBLIC_KEY_LEN == 32

\* The public key of secret n.
X25519Bytes(n) ==
  [tag |-> "x25519", secret |-> n, top_bit |-> 0, len |-> X25519_PUBLIC_KEY_LEN]

diffie_hellman(n, public) ==
  IF public.tag = "x25519"
    THEN [tag |-> "shared", secrets |-> {n, public.secret}]
    ELSE [tag |-> "junk_shared", secret |-> n, public |-> public]

\* Mutations: one of the two secrets is left out.
combine_secrets_x25519_only(x25519, kyber) == [x25519 |-> x25519]
combine_secrets_kyber_only(x25519, kyber)  == [kyber |-> kyber]

\* HKDF of x25519 || kyber under HKDF_INFO: each of the two decides the output.
combine_secrets(x25519, kyber) == [x25519 |-> x25519, kyber |-> kyber]

-----------------------------------------------------------------------------
(* HybridKeyPair and HybridPublicKey. *)

hybrid_generate(level, n) ==
  [x25519_secret |-> n, x25519_public |-> X25519Bytes(n),
   kyber |-> kem_generate(level, n)]

hybrid_public_key(kp) == [x25519 |-> kp.x25519_public, kyber |-> public_key(kp.kyber)]

\* n is the entropy of the ephemeral key and of Kyber's encapsulation.
hybrid_encapsulate(remote_pub, n) ==
  LET enc == encapsulate(remote_pub.kyber, n)
  IN  IF ~enc.ok THEN enc
      ELSE Ok([ct     |-> [x25519_ephemeral |-> X25519Bytes(n), kyber_ct |-> enc.val.ct],
               secret |-> combine_secrets(diffie_hellman(n, remote_pub.x25519),
                                          enc.val.secret)])

\* Mutation: the error of Kyber is replaced by a secret from X25519 alone.
hybrid_decapsulate_fallback(kp, ct) ==
  LET kyber_shared == decapsulate(kp.kyber, ct.kyber_ct)
  IN  Ok(combine_secrets(diffie_hellman(kp.x25519_secret, ct.x25519_ephemeral),
                         IF kyber_shared.ok THEN kyber_shared.val ELSE Junk(0)))

\* The only error is Kyber's, for a key or a ciphertext of a wrong length.
hybrid_decapsulate(kp, ct) ==
  LET kyber_shared == decapsulate(kp.kyber, ct.kyber_ct)
  IN  IF ~kyber_shared.ok THEN kyber_shared
      ELSE Ok(combine_secrets(diffie_hellman(kp.x25519_secret, ct.x25519_ephemeral),
                              kyber_shared.val))

-----------------------------------------------------------------------------
(* HybridCiphertext as text.  A wire is what the text is ("hex", "padded" with white    *)
(* space around it, or "broken": not hex at all), and its bytes in two parts.           *)

Wire(text, x25519, kyber) == [text |-> text, x25519 |-> x25519, kyber |-> kyber]

to_hex(ct) == Wire("hex", ct.x25519_ephemeral, ct.kyber_ct)

WireLen(w) == w.x25519.len + w.kyber.len

\* The first 32 bytes are the X25519 part whatever they are.
from_hex(w) ==
  IF w.text = "broken" \/ WireLen(w) <= X25519_PUBLIC_KEY_LEN
    THEN Err("InvalidCiphertext")
    ELSE IF w.x25519.len = X25519_PUBLIC_KEY_LEN
      THEN Ok([x25519_ephemeral |-> w.x25519, kyber_ct |-> w.kyber])
      ELSE Ok([x25519_ephemeral |-> Junk(X25519_PUBLIC_KEY_LEN),
               kyber_ct |-> Junk(WireLen(w) - X25519_PUBLIC_KEY_LEN)])

-----------------------------------------------------------------------------
VARIABLES
  keypair,     \* the key pair each holder has now: a sequence of one, or of none
  generated,   \* every hybrid key pair there was
  announced,   \* the public keys handed out, old ones included
  net,         \* the wires: one that was sent can arrive at any later time, or never
  made,        \* every encapsulation: [pub, n, ct, secret]
  answers,     \* every decapsulation: [kp, wire, result]
  draws,       \* entropy drawn
  changes      \* wires the network made up

vars == <<keypair, generated, announced, net, made, answers, draws, changes>>

Init ==
  /\ keypair = [h \in Holder |-> <<>>]
  /\ generated = {} /\ announced = {} /\ net = {} /\ made = {} /\ answers = {}
  /\ draws = 0 /\ changes = 0

\* HybridKeyPair::generate, the first time or to replace a key pair.
Generate(h, level) ==
  /\ draws < MaxDraws
  /\ draws' = draws + 1
  /\ LET kp == hybrid_generate(level, draws)
     IN  /\ keypair' = [keypair EXCEPT ![h] = <<kp>>]
         /\ generated' = generated \cup {kp}
  /\ UNCHANGED <<announced, net, made, answers, changes>>

\* HybridKeyPair::public_key, handed out.
Announce(h) ==
  /\ keypair[h] # <<>>
  /\ announced' = announced \cup {hybrid_public_key(keypair[h][1])}
  /\ UNCHANGED <<keypair, generated, net, made, answers, draws, changes>>

\* Mutation: the ephemeral key comes from entropy that is used again.
Send_same_draw(pub) ==
  /\ draws < MaxDraws
  /\ LET enc == hybrid_encapsulate(pub, draws)
     IN  /\ enc.ok
         /\ net' = net \cup {to_hex(enc.val.ct)}
         /\ made' = made \cup
              {[pub |-> pub, n |-> draws, ct |-> enc.val.ct, secret |-> enc.val.secret]}
  /\ UNCHANGED <<keypair, generated, announced, answers, draws, changes>>

\* HybridKeyPair::encapsulate to a public key received at any earlier time, and to_hex.
Send(pub) ==
  /\ draws < MaxDraws
  /\ draws' = draws + 1
  /\ LET enc == hybrid_encapsulate(pub, draws)
     IN  /\ enc.ok
         /\ net' = net \cup {to_hex(enc.val.ct)}
         /\ made' = made \cup
              {[pub |-> pub, n |-> draws, ct |-> enc.val.ct, secret |-> enc.val.secret]}
  /\ UNCHANGED <<keypair, generated, announced, answers, changes>>

\* from_hex, then HybridKeyPair::decapsulate with the key pair the holder has now.
Deliver(h, w) ==
  /\ keypair[h] # <<>>
  /\ Cardinality(answers) < MaxAnswers
  /\ LET ct == from_hex(w)
         kp == keypair[h][1]
     IN  answers' = answers \cup
           {[kp |-> kp, wire |-> w,
             result |-> IF ct.ok THEN hybrid_decapsulate(kp, ct.val) ELSE ct]}
  /\ UNCHANGED <<keypair, generated, announced, net, made, draws, changes>>

\* What damage makes of a wire: its text padded or broken; the ignored bit or other bytes of
\* the X25519 part changed, or a byte of it lost, with one more at the end or not; the Kyber
\* part changed, one byte shorter or longer, or all but one byte or all of it gone.
Damaged(w) ==
  {[w EXCEPT !.text = t] : t \in {"padded", "broken"}}
    \cup {[w EXCEPT !.x25519 = Junk(n)] : n \in {X25519_PUBLIC_KEY_LEN - 1, X25519_PUBLIC_KEY_LEN}}
    \cup {[w EXCEPT !.x25519 = Junk(X25519_PUBLIC_KEY_LEN - 1), !.kyber = Junk(w.kyber.len + 1)]}
    \cup {[w EXCEPT !.kyber = Junk(n)] :
            n \in {0, 1, w.kyber.len - 1, w.kyber.len, w.kyber.len + 1} \cap Nat}
    \cup (IF w.x25519.tag = "x25519" THEN {[w EXCEPT !.x25519.top_bit = 1]} ELSE {})

Change(w) ==
  /\ changes < MaxChanges
  /\ changes' = changes + 1
  /\ \/ \E v \in Damaged(w) : net' = net \cup {v}
     \/ \E v \in net : net' = net \cup {[w EXCEPT !.kyber = v.kyber]}
  /\ UNCHANGED <<keypair, generated, announced, made, answers, draws>>

Next ==
  \/ \E h \in Holder :
       \/ \E level \in Level : Generate(h, level)
       \/ Announce(h)
       \/ \E w \in net : Deliver(h, w)
  \/ \E pub \in announced : Send(pub)
  \/ \E w \in net : Change(w)

Spec == Init /\ [][Next]_vars

-----------------------------------------------------------------------------
(* Types. *)

Key == [algo : {"kem"}, level : Level, id : Nat]
X25519Public ==
  [tag : {"x25519"}, secret : Nat, top_bit : {0, 1}, len : {X25519_PUBLIC_KEY_LEN}]
JunkString == [tag : {"junk"}, len : Nat]
KyberPk == [tag : {"pk"}, key : Key, len : Nat]
KyberCt == [tag : {"ct"}, pk : KyberPk, rnd : Nat, len : Nat]
HybridKeyPair ==
  [x25519_secret : Nat, x25519_public : X25519Public,
   kyber : [algo : {"kem"}, level : Level, pk_bytes : KyberPk,
            sk_bytes : [tag : {"sk"}, key : Key, len : Nat]]]
HybridPublicKey ==
  [x25519 : X25519Public, kyber : [algo : {"kem"}, level : Level, bytes : KyberPk]]
WireType ==
  [text : {"hex", "padded", "broken"}, x25519 : X25519Public \cup JunkString,
   kyber : KyberCt \cup JunkString]

\* Keys and wires are of their types; the key a holder has is one that was generated; an
\* ephemeral key is never one that was drawn before.
TypeOK ==
  /\ draws \in 0..MaxDraws /\ changes \in 0..MaxChanges
  /\ \A h \in Holder : keypair[h] # <<>> => keypair[h][1] \in generated
  /\ generated \subseteq HybridKeyPair /\ announced \subseteq HybridPublicKey
  /\ net \subseteq WireType
  /\ \A m \in made : m.pub \in announced /\ to_hex(m.ct) \in net
  /\ \A m \in made : \A kp \in generated : m.n # kp.x25519_secret

-----------------------------------------------------------------------------
(* Safety. *)

\* The wire is the text of this ciphertext, up to white space and to the bit of the X25519
\* public key that X25519 does not look at.
IsTextOf(w, ct) ==
  LET v == to_hex(ct)
  IN  /\ w.text # "broken"
      /\ w.kyber = v.kyber
      /\ w.x25519.tag = "x25519" /\ w.x25519.secret = v.x25519.secret

\* Both ends have the same secret exactly when the wire is that sender's ciphertext and the
\* key pair is the very one whose public key the sender used (hybrid.rs:149-172): never
\* after the holder replaced it, never for the halves of two ciphertexts, however often,
\* late or out of order a wire arrives.
AgreementIsExact ==
  \A a \in answers, m \in made :
    (a.result.ok /\ a.result.val = m.secret)
      <=> (IsTextOf(a.wire, m.ct) /\ hybrid_public_key(a.kp) = m.pub)

\* Between them from_hex (which accepts any 33 bytes, hybrid.rs:87) and decapsulate refuse a
\* text exactly when it is not hex or not of the length of the key's level: bytes that were
\* changed or moved are never an error, and bytes that were lost always are.
RefusedForItsLength ==
  \A a \in answers :
    ~a.result.ok <=>
      \/ a.wire.text = "broken"
      \/ WireLen(a.wire) # X25519_PUBLIC_KEY_LEN + KemSizes[a.kp.kyber.level].product

-----------------------------------------------------------------------------
(* Refinement of VaultService. *)

\* The encapsulation a wire or a secret is from, or the service's Foreign.
Origin(ms) == IF ms = {} THEN <<>> ELSE LET m == CHOOSE m \in ms : TRUE
                                        IN  <<m.pub.kyber.bytes.key, m.n>>

Service == INSTANCE VaultService WITH
  Keys      <- [algo : {"kem"}, level : Level, id : 0..MaxDraws],
  Messages  <- {},
  Draws     <- 0..MaxDraws,
  stored    <- {kp.kyber.sk_bytes.key : kp \in generated},
  published <- {pub.kyber.bytes.key : pub \in announced},
  signed    <- {},
  verdicts  <- {},
  sent      <- {<<m.pub.kyber.bytes.key, m.n>> : m \in made},
  recovered <- {[key    |-> a.kp.kyber.sk_bytes.key,
                 ct     |-> Origin({m \in made : IsTextOf(a.wire, m.ct)}),
                 secret |-> Origin({m \in made : m.secret = a.result.val})]
                  : a \in {a \in answers : a.result.ok}}

\* The hybrid exchange keeps the promise of the vault's own: a holder's key is its own, each
\* secret is fresh, and decapsulating gives the sender's secret to the right key and nobody's
\* to any other, over a network that loses, repeats, reorders and damages ciphertexts.
ExchangeImplementsService == Service!Spec
=============================================================================
