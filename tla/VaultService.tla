----------------------------- MODULE VaultService -----------------------------
(***************************************************************************)
(* What the vault promises, with no files and no processes: which keys     *)
(* exist in storage, which are published, what was signed, and what        *)
(* verifying and decapsulating may answer.                                 *)
(***************************************************************************)
CONSTANTS
  Keys,
  Messages,
  Draws       \* the entropy secrets are drawn from

VARIABLES
  stored,     \* keys whose sealed bundle was completely written
  published,  \* keys whose public PEM was completely written
  signed,     \* pairs <<key, message>> a sign command signed
  verdicts,   \* answers of verify: [key, msg, sig, valid]
  sent,       \* pairs <<key, n>>: the n-th secret, encapsulated to key
  recovered   \* answers of decapsulate: [key, ct, secret]

vars == <<stored, published, signed, verdicts, sent, recovered>>

\* A signature or ciphertext that no command made, and the secret it gives.
Foreign == <<>>

Init ==
  /\ stored = {} /\ published = {} /\ signed = {}
  /\ verdicts = {} /\ sent = {} /\ recovered = {}

Store(k) ==
  /\ stored' = stored \cup {k}
  /\ UNCHANGED <<published, signed, verdicts, sent, recovered>>

\* A public key goes out only after its private key is safe in storage.
Publish(k) ==
  /\ k \in stored
  /\ published' = published \cup {k}
  /\ UNCHANGED <<stored, signed, verdicts, sent, recovered>>

Sign(k, m) ==
  /\ k \in stored
  /\ signed' = signed \cup {<<k, m>>}
  /\ UNCHANGED <<stored, published, verdicts, sent, recovered>>

\* The answer is "valid" exactly for a signature of this message by this key.
Verify(k, m, s) ==
  /\ k \in published
  /\ s \in signed \cup {Foreign}
  /\ verdicts' = verdicts \cup
       {[key |-> k, msg |-> m, sig |-> s, valid |-> s = <<k, m>>]}
  /\ UNCHANGED <<stored, published, signed, sent, recovered>>

\* Each secret is fresh.
Send(k, n) ==
  /\ k \in published
  /\ \A s \in sent : s[2] # n
  /\ sent' = sent \cup {<<k, n>>}
  /\ UNCHANGED <<stored, published, signed, verdicts, recovered>>

\* The owner of the key gets the sender's secret; any other key gets nobody's.
Recover(k, c) ==
  /\ k \in stored
  /\ c \in sent \cup {Foreign}
  /\ recovered' = recovered \cup
       {[key |-> k, ct |-> c,
         secret |-> IF c # Foreign /\ c[1] = k THEN c ELSE Foreign]}
  /\ UNCHANGED <<stored, published, signed, verdicts, sent>>

Next ==
  \E k \in Keys :
    \/ Store(k) \/ Publish(k)
    \/ \E m \in Messages :
         \/ Sign(k, m)
         \/ \E s \in signed \cup {Foreign} : Verify(k, m, s)
    \/ \E n \in Draws : Send(k, n)
    \/ \E c \in sent \cup {Foreign} : Recover(k, c)

Spec == Init /\ [][Next]_vars
=============================================================================
