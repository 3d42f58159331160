------------------------------ MODULE VaultRefines ------------------------------
(***************************************************************************)
(* VaultCli implements VaultService, for every set of shells, paths and    *)
(* command lines and any number of commands.  SafetyInv does not say       *)
(* enough for that: the abstract steps speak of who made the bytes a       *)
(* command reads.  RefInv adds it: every document that is on disk, held or *)
(* about to be written was made of keys, secrets and signatures the        *)
(* service knows of, and the entropy drawn does not exceed the bound.      *)
(***************************************************************************)
EXTENDS VaultCliProofs, SerialProofs, FiniteSetTheorems

\* The keys of VaultService, and the key pair keygen generates with that identity.
VaultKey  == [algo : Algo, level : SecurityLevel, id : 0..MaxCommands]
PairOf(k) == generate(k.algo, k.level, k.id)
PubOf(k)  == public_key(PairOf(k))

\* By field.
LEMMA PairFields ==
  ASSUME NEW k \in VaultKey
  PROVE  /\ PairOf(k) = [algo |-> k.algo, level |-> k.level,
                         pk_bytes |-> PkBytes(k), sk_bytes |-> SkBytes(k)]
         /\ PubOf(k) = [algo |-> k.algo, level |-> k.level, bytes |-> PkBytes(k)]
         /\ PkBytes(k).key = k /\ SkBytes(k).key = k
         /\ PkBytes(k).tag = "pk" /\ SkBytes(k).tag = "sk"
         /\ PkBytes(k).len = SizeOf(k.algo, k.level).public_key
         /\ SkBytes(k).len = SizeOf(k.algo, k.level).private_key
         /\ PairOf(k) \in KeyPair /\ k \in Key
<1>1. k.algo \in Algo /\ k.level \in SecurityLevel /\ k.id \in 0..MaxCommands /\ k.id \in Nat
  BY BoundAssumption DEF VaultKey
<1>2. KeyOf(k.algo, k.level, k.id) = k
  BY DEF KeyOf, VaultKey
<1>3. /\ PairOf(k) = [algo |-> k.algo, level |-> k.level,
                      pk_bytes |-> PkBytes(k), sk_bytes |-> SkBytes(k)]
      /\ PkBytes(k) = [tag |-> "pk", key |-> k, len |-> SizeOf(k.algo, k.level).public_key]
      /\ SkBytes(k) = [tag |-> "sk", key |-> k, len |-> SizeOf(k.algo, k.level).private_key]
  BY <1>1, <1>2, GeneratedKeyPair DEF PairOf
<1>4. PairOf(k) \in KeyPair /\ k \in Key
  BY <1>1, <1>2, GenerateType DEF PairOf
<1>5. PubOf(k) = [algo |-> k.algo, level |-> k.level, bytes |-> PkBytes(k)]
  BY <1>3 DEF PubOf, public_key
<1> QED
  BY <1>3, <1>4, <1>5

-----------------------------------------------------------------------------
(* The invariant.  Its parts take the secrets sent and the keys stored as  *)
(* arguments: what is made stays made while the two grow.                  *)

\* A ciphertext was made for a key, with a secret that was sent; a signature by a key.
MadeBytes(b, sec) ==
  /\ b.tag = "ct" => \E k \in VaultKey : b.pk = PkBytes(k) /\ SsBytes(b.pk, b.rnd) \in sec
  /\ b.tag = "sig" => \E k \in VaultKey, m \in Message : b = SigBytes(SkBytes(k), k.level, m)

MadeBundle(b) == \E k \in VaultKey, pass \in Passphrase, n \in Nat : b = seal(PairOf(k), pass, n)

MadeDoc(d, sec) ==
  /\ d.kind = "bundle" => MadeBundle(d.bundle)
  /\ d.kind = "pem" => \E k \in VaultKey : d.pem = public_key_to_pem(PubOf(k))
  /\ d.kind = "hex" => MadeBytes(d.bytes, sec)

\* A bundle that can be read was completely written.
MadeFile(f, sec, keys) ==
  /\ MadeDoc(f.doc, sec)
  /\ from_json(f).ok => f.doc.bundle.ciphertext.data.pk.key \in keys

\* What a command holds at each point.
MadePub(v) == \E k \in VaultKey : v = PubOf(k) /\ k.algo = "dsa"
MadeHeld(at, v, sec, keys) ==
  /\ at = "prompt" => MadeFile(v, sec, keys)
  /\ at = "unsealed" => \E k \in VaultKey : v = PairOf(k) /\ k \in keys
  /\ at = "file" => MadePub(v)
  /\ at = "sig" => MadePub(v.pub)

\* A command draws entropy at most once, in its first step.
Beginning == {p \in Shell : pc[p] = "begin"}
EntropyBounded == IsFiniteSet(Beginning) /\ draws + Cardinality(Beginning) <= runs

SecretsAreOld == \A s \in sent : s.rnd < draws

RefInv ==
  /\ EntropyBounded
  /\ SecretsAreOld
  /\ stored \subseteq VaultKey
  /\ \A f \in Path : MadeFile(fs[f], sent, stored)
  /\ \A p \in Shell : MadeHeld(pc[p], local[p], sent, stored)
  /\ \A p \in Shell : \A i \in DOMAIN out[p] : MadeDoc(out[p][i].doc, sent)

-----------------------------------------------------------------------------
(* What keeps it. *)

LEMMA DocStaysMade ==
  ASSUME NEW sec, NEW sec2, sec \subseteq sec2, NEW d, MadeDoc(d, sec)
  PROVE  MadeDoc(d, sec2)
BY DEF MadeDoc, MadeBytes

LEMMA FileStaysMade ==
  ASSUME NEW sec, NEW sec2, sec \subseteq sec2, NEW keys, NEW keys2, keys \subseteq keys2,
         NEW f, MadeFile(f, sec, keys)
  PROVE  MadeFile(f, sec2, keys2)
BY DocStaysMade DEF MadeFile

LEMMA HeldStaysMade ==
  ASSUME NEW sec, NEW sec2, sec \subseteq sec2, NEW keys, NEW keys2, keys \subseteq keys2,
         NEW at, NEW v, MadeHeld(at, v, sec, keys)
  PROVE  MadeHeld(at, v, sec2, keys2)
BY FileStaysMade DEF MadeHeld

\* A step that draws nothing and begins no command.
LEMMA EntropyKept ==
  ASSUME SafetyInv, EntropyBounded, draws' = draws, runs' = runs,
         \A p \in Shell : pc'[p] = "begin" => pc[p] = "begin"
  PROVE  EntropyBounded'
<1> DEFINE B == {p \in Shell : pc[p] = "begin"}
           C == {p \in Shell : pc'[p] = "begin"}
<1>1. C \in SUBSET B /\ IsFiniteSet(B) /\ draws + Cardinality(B) <= runs
  BY DEF EntropyBounded, Beginning
<1> HIDE DEF B, C
<1>2. IsFiniteSet(C) /\ Cardinality(C) <= Cardinality(B)
  BY <1>1, FS_Subset
<1>3. Cardinality(B) \in Nat /\ Cardinality(C) \in Nat
  BY <1>1, <1>2, FS_CardinalityType
<1>4. draws \in Nat /\ runs \in Nat
  BY BoundAssumption DEF SafetyInv, TypeOK, HistoryTypeOK
<1>5. draws' + Cardinality(C) <= runs'
  BY <1>1, <1>2, <1>3, <1>4
<1> QED
  BY <1>2, <1>5 DEF EntropyBounded, Beginning, C

\* A step in which a command that began draws.
LEMMA EntropyDrawn ==
  ASSUME SafetyInv, EntropyBounded, NEW p \in Shell, pc[p] = "begin", pc'[p] # "begin",
         \A q \in Shell : pc'[q] = "begin" => pc[q] = "begin",
         draws' = draws + 1, runs' = runs
  PROVE  EntropyBounded' /\ draws \in 0..MaxCommands
<1> DEFINE B == {q \in Shell : pc[q] = "begin"}
           C == {q \in Shell : pc'[q] = "begin"}
<1>1. C \in SUBSET (B \ {p}) /\ p \in B /\ IsFiniteSet(B) /\ draws + Cardinality(B) <= runs
  BY DEF EntropyBounded, Beginning
<1> HIDE DEF B, C
<1>2. IsFiniteSet(B \ {p}) /\ Cardinality(B \ {p}) = Cardinality(B) - 1
  BY <1>1, FS_RemoveElement
<1>3. IsFiniteSet(C) /\ Cardinality(C) <= Cardinality(B \ {p})
  BY <1>1, <1>2, FS_Subset
<1>4. Cardinality(B) \in Nat /\ Cardinality(C) \in Nat /\ Cardinality(B \ {p}) \in Nat
  BY <1>1, <1>2, <1>3, FS_CardinalityType
<1>5. draws \in Nat /\ runs \in 0..MaxCommands
  BY DEF SafetyInv, TypeOK, HistoryTypeOK
<1>6. draws' + Cardinality(C) <= runs' /\ draws \in 0..MaxCommands
  BY <1>1, <1>2, <1>3, <1>4, <1>5, BoundAssumption
<1> QED
  BY <1>3, <1>6 DEF EntropyBounded, Beginning, C

\* What a step must leave made.
LEMMA StaysMade ==
  ASSUME RefInv, sent \subseteq sent', stored \subseteq stored', stored' \subseteq VaultKey,
         EntropyBounded', SecretsAreOld',
         \A f \in Path : fs'[f] = fs[f] \/ MadeFile(fs'[f], sent', stored'),
         \A p \in Shell : \/ pc'[p] = pc[p] /\ local'[p] = local[p]
                          \/ MadeHeld(pc'[p], local'[p], sent', stored'),
         \A p \in Shell : \A i \in DOMAIN out'[p] :
           \/ \E j \in DOMAIN out[p] : out'[p][i] = out[p][j]
           \/ MadeDoc(out'[p][i].doc, sent')
  PROVE  RefInv'
<1>1. \A f \in Path : MadeFile(fs'[f], sent', stored')
  BY FileStaysMade DEF RefInv
<1>2. \A p \in Shell : MadeHeld(pc'[p], local'[p], sent', stored')
  BY HeldStaysMade DEF RefInv
<1>3. \A p \in Shell : \A i \in DOMAIN out'[p] : MadeDoc(out'[p][i].doc, sent')
  BY DocStaysMade DEF RefInv
<1> QED
  BY <1>1, <1>2, <1>3 DEF RefInv

\* A command that ends.
LEMMA ExitMade ==
  ASSUME SafetyInv, RefInv, NEW p \in Shell, NEW code \in Ended, Exit(p, code),
         UNCHANGED <<fs, runs, draws, sent, stored>>
  PROVE  RefInv'
<1>1. \A q \in Shell : \/ pc'[q] \in Ended /\ out'[q] = <<>>
                       \/ pc'[q] = pc[q] /\ local'[q] = local[q] /\ out'[q] = out[q]
  BY DEF Exit, SafetyInv, TypeOK, ProcessTypeOK
<1>2. EntropyBounded'
  BY <1>1, EntropyKept DEF RefInv, Ended
<1>3. \A q \in Shell : pc'[q] \in Ended => MadeHeld(pc'[q], local'[q], sent', stored')
  BY DEF MadeHeld, Ended
<1>4. SecretsAreOld' /\ stored' \subseteq VaultKey
  BY DEF RefInv, SecretsAreOld
<1>5. \A q \in Shell : \A i \in DOMAIN out'[q] : \E j \in DOMAIN out[q] : out'[q][i] = out[q][j]
  BY <1>1
<1> QED
  BY <1>1, <1>2, <1>3, <1>4, <1>5, StaysMade

LEMMA FailMade ==
  ASSUME SafetyInv, RefInv, NEW p \in Shell, Fail(p)
  PROVE  RefInv'
BY ExitMade DEF Fail, Ended, history

\* A command that goes on to its next point.
LEMMA ProceedMade ==
  ASSUME SafetyInv, RefInv, NEW p \in Shell, NEW to, to # "begin", NEW holding,
         Proceed(p, to, holding), UNCHANGED <<draws, history>>,
         MadeHeld(to, holding, sent, stored)
  PROVE  RefInv'
<1>1. /\ \A q \in Shell : IF q = p THEN pc'[q] = to /\ local'[q] = holding
                                   ELSE pc'[q] = pc[q] /\ local'[q] = local[q]
      /\ UNCHANGED <<fs, out, runs, draws, sent, stored>>
  BY DEF Proceed, SafetyInv, TypeOK, ProcessTypeOK, history
<1>2. EntropyBounded'
  BY <1>1, EntropyKept DEF RefInv
<1>3. SecretsAreOld' /\ stored' \subseteq VaultKey
  BY <1>1 DEF RefInv, SecretsAreOld
<1>4. \A q \in Shell : \A i \in DOMAIN out'[q] : \E j \in DOMAIN out[q] : out'[q][i] = out[q][j]
  BY <1>1
<1> QED
  BY <1>1, <1>2, <1>3, <1>4, StaysMade

\* A command that has something to write.
LEMMA StartWritingMade ==
  ASSUME SafetyInv, RefInv, NEW p \in Shell, NEW docs, StartWriting(p, docs),
         \A i \in DOMAIN docs : MadeDoc(docs[i], sent'),
         sent \subseteq sent', stored' = stored, EntropyBounded', SecretsAreOld'
  PROVE  RefInv'
<1> DEFINE listed == [i \in DOMAIN docs |-> [path |-> Outputs(cmd[p])[i], doc |-> docs[i]]]
<1>1. /\ pc' = [pc EXCEPT ![p] = "open"] /\ local' = [local EXCEPT ![p] = <<>>]
      /\ out' = [out EXCEPT ![p] = listed] /\ fs' = fs
  BY DEF StartWriting
<1>2. DOMAIN pc = Shell /\ DOMAIN local = Shell /\ DOMAIN out = Shell
  BY DEF SafetyInv, TypeOK, ProcessTypeOK
<1>3. \A q \in Shell : \/ pc'[q] = pc[q] /\ local'[q] = local[q]
                       \/ MadeHeld(pc'[q], local'[q], sent', stored')
  BY <1>1, <1>2 DEF MadeHeld
<1>4. ASSUME NEW q \in Shell, NEW i \in DOMAIN out'[q]
      PROVE  \/ \E j \in DOMAIN out[q] : out'[q][i] = out[q][j]
             \/ MadeDoc(out'[q][i].doc, sent')
  <2>1. CASE q = p
    <3>1. out'[q] = listed
      BY <1>1, <1>2, <2>1
    <3>2. i \in DOMAIN docs /\ out'[q][i].doc = docs[i]
      BY <1>4, <3>1
    <3> QED
      BY <3>2
  <2>2. CASE q # p
    BY <1>1, <1>2, <1>4, <2>2
  <2> QED
    BY <2>1, <2>2
<1>5. stored' \subseteq VaultKey
  BY DEF RefInv
<1> QED
  BY <1>1, <1>3, <1>4, <1>5, StaysMade

-----------------------------------------------------------------------------
(* What the abstract state is. *)

SignedBar    == {<<s.key, s.msg>> : s \in signed}
Verdict(v)   == [key |-> v.pub.bytes.key, msg |-> v.msg, sig |-> SigId(v.sig), valid |-> v.valid]
VerdictsBar  == {Verdict(v) : v \in verdicts}
SentBar      == {CtId(s) : s \in sent}
Recovery(r)  == [key |-> r.kp.sk_bytes.key, ct |-> CtId(r.ct), secret |-> CtId(r.secret)]
RecoveredBar == {Recovery(r) : r \in recovered}

LEMMA SentAs ==
  ASSUME NEW pk, NEW n
  PROVE  CtId(SsBytes(pk, n)) = <<pk.key, n>>
BY DEF CtId, SsBytes

-----------------------------------------------------------------------------
(* The commands.  Each keeps RefInv and is a step of the service or none.  *)

\* A public key that is read from a document keygen made is the one keygen generated.
LEMMA PubFromPem ==
  ASSUME NEW k \in VaultKey, NEW algo \in Algo,
         public_key_from_pem(algo, public_key_to_pem(PubOf(k))).ok
  PROVE  /\ public_key_from_pem(algo, public_key_to_pem(PubOf(k))).val = PubOf(k)
         /\ k.algo = algo
<1> DEFINE pem == public_key_to_pem(PubOf(k))
<1>1. PubOf(k) = [algo |-> k.algo, level |-> k.level, bytes |-> PkBytes(k)]
  BY PairFields
<1>2. pem = [label |-> k.algo, header |-> k.level, bytes |-> PkBytes(k)]
  BY <1>1 DEF public_key_to_pem
<1> HIDE DEF pem
<1>3. pem.label = k.algo /\ pem.header = k.level /\ pem.bytes = PkBytes(k)
  BY <1>2
<1>4. /\ k.algo = algo
      /\ decode_pem(pem, algo) = Ok([level |-> k.level, bytes |-> PkBytes(k)])
  <2>1. public_key_from_pem(algo, pem).ok
    BY DEF pem
  <2> QED
    BY <1>3, <2>1 DEF public_key_from_pem, decode_pem, Ok, Err
<1>5. public_key_from_pem(algo, pem) = from_validated(algo, k.level, PkBytes(k))
  BY <1>4 DEF public_key_from_pem, Ok
<1>6. from_validated(algo, k.level, PkBytes(k)).ok
  BY <1>5 DEF pem
<1>7. from_validated(algo, k.level, PkBytes(k))
        = Ok([algo |-> algo, level |-> k.level, bytes |-> PkBytes(k)])
  BY <1>6 DEF from_validated, kem_from_validated, dsa_from_validated, Err, Algo
<1>8. public_key_from_pem(algo, pem).val = PubOf(k)
  BY <1>1, <1>4, <1>5, <1>7 DEF Ok
<1> QED
  BY <1>4, <1>8 DEF pem

\* What a command reads of a public key file.
LEMMA PublicKeyRead ==
  ASSUME SafetyInv, RefInv, NEW f \in Path, pem_in(fs[f]).ok, NEW algo \in Algo,
         public_key_from_pem(algo, pem_in(fs[f]).val).ok
  PROVE  \E k \in VaultKey :
           /\ public_key_from_pem(algo, pem_in(fs[f]).val).val = PubOf(k)
           /\ k.algo = algo /\ k \in published
<1>1. fs[f] \in FileType /\ MadeDoc(fs[f].doc, sent)
  BY DEF SafetyInv, TypeOK, FilesTypeOK, RefInv, MadeFile
<1>2. fs[f].doc.kind = "pem" /\ pem_in(fs[f]).val = fs[f].doc.pem
  BY <1>1, PemInType
<1>3. PICK k \in VaultKey : fs[f].doc.pem = public_key_to_pem(PubOf(k))
  BY <1>1, <1>2 DEF MadeDoc
<1>4. fs[f].doc.pem.bytes.key = k
  BY <1>3, PairFields DEF public_key_to_pem
<1>5. k \in published
  BY <1>4 DEF SafetyInv, ReadableIsPublished
<1> QED
  BY <1>2, <1>3, <1>5, PubFromPem

\* What StartWriting does to the points the commands are at.
LEMMA StartWritingMoves ==
  ASSUME SafetyInv, NEW p \in Shell, NEW docs, StartWriting(p, docs)
  PROVE  /\ \A q \in Shell : pc'[q] = IF q = p THEN "open" ELSE pc[q]
         /\ runs' = runs
BY DEF StartWriting, SafetyInv, TypeOK, ProcessTypeOK

\* keygen draws a key the service knows; nothing is stored yet.
LEMMA KeygenRefines ==
  ASSUME SafetyInv, RefInv, NEW p \in Shell, cmd_keygen(p)
  PROVE  RefInv' /\ UNCHANGED history
<1> DEFINE level == parse_level(cmd[p].level)
           kp == generate(cmd[p].algo, level.val, draws)
           docs(pass) == <<BundleDoc(seal(kp, pass, draws)),
                           PemDoc(public_key_to_pem(public_key(kp)))>>
<1>1. pc[p] = "begin" /\ cmd[p].name = "keygen" /\ Running(p)
  BY DEF cmd_keygen, Running, Ended
<1>2. PICK pass, confirm \in Passphrase \cup {NoPassphrase} :
        \/ Fail(p)
        \/ /\ level.ok /\ prompt_new_passphrase(pass, confirm).ok
           /\ StartWriting(p, docs(prompt_new_passphrase(pass, confirm).val))
           /\ draws' = draws + 1 /\ UNCHANGED history
  BY Zenon DEF cmd_keygen
<1>3. CASE Fail(p)
  BY <1>3, FailMade DEF Fail
<1>4. CASE /\ level.ok /\ prompt_new_passphrase(pass, confirm).ok
           /\ StartWriting(p, docs(prompt_new_passphrase(pass, confirm).val))
           /\ draws' = draws + 1 /\ UNCHANGED history
  <2>1. prompt_new_passphrase(pass, confirm).val = pass /\ pass \in Passphrase
    BY <1>4 DEF prompt_new_passphrase, Ok, Err
  <2>2. level.val \in SecurityLevel
    BY <1>4, ParsedLevel
  <2>3. cmd[p].algo \in Algo
    BY <1>1, OutputsType DEF SafetyInv, TypeOK, ProcessTypeOK, CommandTypeOK
  <2>4. StartWriting(p, docs(pass))
    BY <1>4, <2>1
  <2>5. EntropyBounded' /\ draws \in 0..MaxCommands
    BY <1>1, <1>4, <2>4, StartWritingMoves, EntropyDrawn DEF RefInv
  <2>6. PICK n \in 0..MaxCommands : n = draws
    BY <2>5
  <2>7. PICK k \in VaultKey : k = KeyOf(cmd[p].algo, level.val, n)
    BY <2>2, <2>3 DEF KeyOf, VaultKey
  <2>8. PairOf(k) = kp
    BY <2>6, <2>7 DEF PairOf, KeyOf
  <2> HIDE DEF kp
  <2>9. MadeDoc(BundleDoc(seal(kp, pass, draws)), sent)
    <3>1. n \in Nat /\ seal(kp, pass, draws) = seal(PairOf(k), pass, n)
      BY <2>6, <2>8, BoundAssumption
    <3>2. MadeBundle(seal(kp, pass, draws))
      BY <2>1, <3>1 DEF MadeBundle
    <3> QED
      BY <3>2 DEF MadeDoc, BundleDoc
  <2>10. MadeDoc(PemDoc(public_key_to_pem(public_key(kp))), sent)
    BY <2>8 DEF MadeDoc, PemDoc, PubOf
  <2>11. \A i \in DOMAIN docs(pass) : MadeDoc(docs(pass)[i], sent)
    <3>1. \A i \in DOMAIN docs(pass) :
            docs(pass)[i] \in {BundleDoc(seal(kp, pass, draws)),
                              PemDoc(public_key_to_pem(public_key(kp)))}
      BY PairMembers
    <3> QED
      BY <2>9, <2>10, <3>1
  <2>12. SecretsAreOld' /\ sent' = sent /\ stored' = stored
    BY <1>4 DEF SecretsAreOld, RefInv, history, SafetyInv, TypeOK, HistoryTypeOK, SsString
  <2> HIDE DEF docs
  <2>13. RefInv'
    BY <2>4, <2>5, <2>11, <2>12, StartWritingMade
  <2> QED
    BY <1>4, <2>13
<1> QED
  BY <1>2, <1>3, <1>4

\* encapsulate sends a fresh secret to a published key.
LEMMA EncapsulateRefines ==
  ASSUME SafetyInv, RefInv, NEW p \in Shell, cmd_encapsulate(p)
  PROVE  /\ RefInv'
         /\ \/ UNCHANGED history
            \/ \E k \in VaultKey, n \in 0..MaxCommands :
                 /\ k \in published /\ \A s \in SentBar : s[2] # n
                 /\ SentBar' = SentBar \cup {<<k, n>>}
                 /\ UNCHANGED <<stored, published, signed, verdicts, recovered>>
<1> DEFINE f   == fs[cmd[p].key]
           pem == pem_in(f)
           pub == public_key_from_pem("kem", pem.val)
           enc == encapsulate(pub.val, draws)
           docs == <<HexDoc(enc.val.ct), HexDoc(enc.val.secret)>>
<1>1. pc[p] = "begin" /\ cmd[p].name = "encapsulate" /\ Running(p)
  BY DEF cmd_encapsulate, Running, Ended
<1>2. CASE Fail(p)
  BY <1>2, FailMade DEF Fail
<1>3. CASE /\ pem.ok /\ pub.ok /\ enc.ok
           /\ StartWriting(p, docs) /\ draws' = draws + 1
           /\ sent' = sent \cup {enc.val.secret}
           /\ UNCHANGED <<stored, published, signed, verdicts, recovered>>
  <2>1. cmd[p].key \in Path
    BY <1>1, OutputsType DEF SafetyInv, TypeOK, ProcessTypeOK, CommandTypeOK
  <2>2. PICK k \in VaultKey : pub.val = PubOf(k) /\ k.algo = "kem" /\ k \in published
    BY <1>3, <2>1, PublicKeyRead DEF Algo
  <2>3. pub.val.bytes = PkBytes(k) /\ PkBytes(k).key = k
    BY <2>2, PairFields
  <2> HIDE DEF pub
  <2>4. /\ enc.val.ct = CtBytes(PkBytes(k), pub.val.level, draws)
        /\ enc.val.secret = SsBytes(PkBytes(k), draws)
    BY <1>3, <2>3 DEF encapsulate, Ok, Err
  <2> HIDE DEF enc
  <2>5. EntropyBounded' /\ draws \in 0..MaxCommands
    BY <1>1, <1>3, StartWritingMoves, EntropyDrawn DEF RefInv
  <2>6. MadeDoc(HexDoc(enc.val.ct), sent')
    <3>1. /\ enc.val.ct.tag = "ct" /\ enc.val.ct.pk = PkBytes(k)
          /\ SsBytes(enc.val.ct.pk, enc.val.ct.rnd) \in sent'
      BY <1>3, <2>4 DEF CtBytes
    <3>2. MadeBytes(enc.val.ct, sent')
      BY <3>1 DEF MadeBytes
    <3> QED
      BY <3>2 DEF MadeDoc, HexDoc
  <2>7. MadeDoc(HexDoc(enc.val.secret), sent')
    BY <2>4 DEF MadeDoc, MadeBytes, HexDoc, SsBytes
  <2>8. \A i \in DOMAIN docs : MadeDoc(docs[i], sent')
    <3>1. \A i \in DOMAIN docs : docs[i] \in {HexDoc(enc.val.ct), HexDoc(enc.val.secret)}
      BY PairMembers
    <3> QED
      BY <2>6, <2>7, <3>1
  <2>9. SecretsAreOld' /\ \A s \in SentBar : s[2] # draws
    <3>1. \A s \in sent : s.rnd < draws /\ s.rnd \in Nat /\ CtId(s)[2] = s.rnd
      BY DEF SecretsAreOld, RefInv, SafetyInv, TypeOK, HistoryTypeOK, SsString, CtId
    <3>2. enc.val.secret.rnd = draws
      BY <2>4 DEF SsBytes
    <3> QED
      BY <1>3, <2>5, <3>1, <3>2 DEF SecretsAreOld, SentBar
  <2> HIDE DEF docs
  <2>10. RefInv'
    BY <1>3, <2>5, <2>8, <2>9, StartWritingMade
  <2>11. SentBar' = SentBar \cup {<<k, draws>>}
    <3>1. CtId(enc.val.secret) = <<k, draws>>
      BY <2>3, <2>4, SentAs
    <3> QED
      BY <1>3, <3>1 DEF SentBar
  <2> QED
    BY <1>3, <2>2, <2>5, <2>9, <2>10, <2>11
<1> QED
  BY <1>2, <1>3 DEF cmd_encapsulate

\* decapsulate and sign take the bundle as it was when they read it.
LEMMA ReadBundleRefines ==
  ASSUME SafetyInv, RefInv, NEW p \in Shell, ReadBundle(p)
  PROVE  RefInv' /\ UNCHANGED history
<1> DEFINE f == fs[cmd[p].key]
<1>1. pc[p] = "begin" /\ cmd[p].name \in {"decapsulate", "sign"} /\ Running(p)
  BY DEF ReadBundle, Running, Ended
<1>2. CASE Fail(p)
  BY <1>2, FailMade DEF Fail
<1>3. CASE Proceed(p, "prompt", f) /\ UNCHANGED <<draws, history>>
  <2>1. cmd[p].key \in Path
    BY <1>1, OutputsType DEF SafetyInv, TypeOK, ProcessTypeOK, CommandTypeOK
  <2>2. MadeHeld("prompt", f, sent, stored)
    BY <2>1 DEF MadeHeld, RefInv
  <2> HIDE DEF f
  <2> QED
    BY <1>3, <2>2, ProceedMade
<1> QED
  BY <1>2, <1>3 DEF ReadBundle

\* A bundle with the ciphertext of a generated key pair opens to that key pair.
LEMMA OpensAsMade ==
  ASSUME NEW k \in VaultKey, NEW sealed, NEW b, CiphertextOf(b.ciphertext, PairOf(k), sealed),
         NEW algo \in Algo, NEW pass, unseal(b, algo, pass).ok
  PROVE  unseal(b, algo, pass).val = PairOf(k)
<1>1. k.algo \in Algo /\ k.level \in SecurityLevel /\ k.id \in Nat
  BY BoundAssumption DEF VaultKey
<1>2. PICK a1 \in Algo, l1 \in SecurityLevel, id \in Nat :
        a1 = k.algo /\ l1 = k.level /\ id = k.id
  BY <1>1
<1>3. PairOf(k) = generate(a1, l1, id)
  BY <1>2 DEF PairOf
<1>4. CiphertextOf(b.ciphertext, generate(a1, l1, id), sealed)
  BY <1>3
<1>5. unseal(b, algo, pass).val = generate(a1, l1, id)
  BY <1>4, OpensToWhatItIsOf
<1> QED
  BY <1>3, <1>5

\* The key pair that comes out of it is a stored one.
LEMMA UnsealRefines ==
  ASSUME SafetyInv, RefInv, NEW p \in Shell, Unseal(p)
  PROVE  RefInv' /\ UNCHANGED history
<1> DEFINE bundle == from_json(local[p])
           kp(pass) == unseal(bundle.val, KeyType(cmd[p]), prompt_passphrase(pass).val)
<1>1. pc[p] = "prompt"
  BY DEF Unseal
<1>2. PICK pass \in Passphrase \cup {NoPassphrase} :
        \/ Fail(p)
        \/ /\ bundle.ok /\ kp(pass).ok
           /\ Proceed(p, "unsealed", kp(pass).val) /\ UNCHANGED <<draws, history>>
  BY Zenon DEF Unseal
<1>3. CASE Fail(p)
  BY <1>3, FailMade DEF Fail
<1>4. CASE /\ bundle.ok /\ kp(pass).ok
           /\ Proceed(p, "unsealed", kp(pass).val) /\ UNCHANGED <<draws, history>>
  <2>1. MadeFile(local[p], sent, stored)
    BY <1>1 DEF RefInv, MadeHeld
  <2>2. PICK b : b = bundle.val
    OBVIOUS
  <2>3. local[p].doc.kind = "bundle" /\ b = local[p].doc.bundle
    BY <1>4, <2>2 DEF from_json, Ok, Err
  <2>4. MadeBundle(b) /\ b.ciphertext.data.pk.key \in stored
    BY <1>4, <2>1, <2>3 DEF MadeFile, MadeDoc
  <2>5. PICK k \in VaultKey, sealed \in Passphrase, n \in Nat : b = seal(PairOf(k), sealed, n)
    BY <2>4 DEF MadeBundle
  <2>6. /\ b.ciphertext.data = [pk_len |-> PairOf(k).pk_bytes.len, pk |-> PairOf(k).pk_bytes,
                                sk |-> PairOf(k).sk_bytes]
        /\ b.ciphertext.key.pass = sealed
    BY <2>5, SealedBundle
  <2>7. CiphertextOf(b.ciphertext, PairOf(k), sealed)
    BY <2>6 DEF CiphertextOf
  <2>8. k \in stored
    BY <2>4, <2>6, PairFields
  <2>9. KeyType(cmd[p]) \in Algo
    BY DEF KeyType, Algo
  <2>10. PICK algo \in Algo : algo = KeyType(cmd[p])
    BY <2>9
  <2>11. kp(pass).val = PairOf(k)
    <3>1. PICK typed : typed = prompt_passphrase(pass).val
      OBVIOUS
    <3>2. kp(pass) = unseal(b, algo, typed)
      BY <2>2, <2>10, <3>1
    <3>3. kp(pass).ok
      BY <1>4
    <3> HIDE DEF bundle, kp
    <3>4. unseal(b, algo, typed).ok
      BY <3>2, <3>3
    <3>5. unseal(b, algo, typed).val = PairOf(k)
      BY <2>7, <3>4, OpensAsMade
    <3> QED
      BY <3>2, <3>5
  <2>12. MadeHeld("unsealed", PairOf(k), sent, stored)
    BY <2>8 DEF MadeHeld
  <2>13. Proceed(p, "unsealed", PairOf(k))
    BY <1>4, <2>11
  <2> QED
    BY <1>4, <2>12, <2>13, ProceedMade
<1> QED
  BY <1>2, <1>3, <1>4

\* The bytes a command reads from a hex file are nobody's, or made.
LEMMA HexRead ==
  ASSUME SafetyInv, RefInv, NEW f \in Path, hex_decode(fs[f]).ok
  PROVE  LET b == hex_decode(fs[f]).val
         IN  MadeBytes(b, sent) /\ (b.tag = "sig" => <<b.sk.key, b.msg>> \in SignedBar)
<1> DEFINE b == hex_decode(fs[f]).val
<1>1. MadeDoc(fs[f].doc, sent)
  BY DEF RefInv, MadeFile
<1>2. CASE fs[f].doc.kind = "hex" /\ Intact(fs[f])
  <2>1. b = fs[f].doc.bytes
    BY <1>2 DEF hex_decode, Ok
  <2>2. b.tag = "sig" => [key |-> b.sk.key, msg |-> b.msg] \in signed
    BY <1>2, <2>1 DEF SafetyInv, SignaturesAreSigned
  <2>3. b.tag = "sig" => <<b.sk.key, b.msg>> \in SignedBar
    BY <2>2 DEF SignedBar
  <2> QED
    BY <1>1, <1>2, <2>1, <2>3 DEF MadeDoc
<1>3. CASE ~(fs[f].doc.kind = "hex" /\ Intact(fs[f]))
  <2>1. b.tag = "junk"
    BY <1>3 DEF hex_decode, Junk, Ok, Err
  <2> QED
    BY <2>1 DEF MadeBytes
<1> QED
  BY <1>2, <1>3

\* The owner of the key gets the secret that was sent, anybody else one nobody sent.
LEMMA SecretOfCiphertext ==
  ASSUME SafetyInv, NEW k \in VaultKey, NEW ct \in ByteString, MadeBytes(ct, sent),
         decapsulate(PairOf(k), ct).ok
  PROVE  /\ CtId(ct) \in SentBar \cup {<<>>}
         /\ CtId(decapsulate(PairOf(k), ct).val)
              = IF CtId(ct) # <<>> /\ CtId(ct)[1] = k THEN CtId(ct) ELSE <<>>
         /\ decapsulate(PairOf(k), ct).val.tag \in {"ss", "rejected"}
<1> DEFINE v == decapsulate(PairOf(k), ct).val
<1>1. PairOf(k).sk_bytes = SkBytes(k) /\ PairOf(k).level = k.level /\ k.level \in SecurityLevel
  BY PairFields DEF VaultKey
<1>2. v = kyber_decapsulate(ct, SkBytes(k)) /\ ct.len = KemSizes[k.level].product
  BY <1>1 DEF decapsulate, Ok, Err
<1>3. SkBytes(k).tag = "sk" /\ SkBytes(k).key = k /\ PkBytes(k).key = k
  BY PairFields
<1>4. ct.tag # "ss"
  <2>1. ct.tag = "ss" => ct.len = SHARED_SECRET
    BY DEF ByteString, PlainString, RejectedString, PkString, SkString, JunkString, CtString,
           SsString, SigString
  <2>2. KemSizes[k.level].product # SHARED_SECRET
    <3>1. "kem" \in Algo
      BY DEF Algo
    <3> QED
      BY <1>1, <3>1, SizeType
  <2> QED
    BY <1>2, <2>1, <2>2
<1> HIDE DEF v
<1>5. CASE ct.tag = "ct"
  <2>1. PICK j \in VaultKey : ct.pk = PkBytes(j) /\ SsBytes(ct.pk, ct.rnd) \in sent
    BY <1>5 DEF MadeBytes
  <2>2. PkBytes(j).key = j
    BY PairFields
  <2>3. CtId(ct) = <<j, ct.rnd>> /\ CtId(SsBytes(ct.pk, ct.rnd)) = <<j, ct.rnd>>
    BY <1>5, <2>1, <2>2, SentAs DEF CtId
  <2>4. CtId(ct) \in SentBar
    BY <2>1, <2>3 DEF SentBar
  <2>5. CASE j = k
    <3>1. v = SsBytes(ct.pk, ct.rnd)
      BY <1>2, <1>3, <1>5, <2>1, <2>5 DEF kyber_decapsulate
    <3>2. v.tag = "ss"
      BY <3>1 DEF SsBytes
    <3>3. CtId(ct) # <<>> /\ CtId(ct)[1] = k
      BY <2>3, <2>5
    <3>4. CtId(v) = CtId(ct)
      BY <2>3, <3>1
    <3> QED
      BY <2>4, <3>2, <3>3, <3>4 DEF v
  <2>6. CASE j # k
    <3>1. ct.pk # PkBytes(k)
      BY <1>3, <2>1, <2>2, <2>6
    <3>2. v.tag = "rejected"
      BY <1>2, <1>3, <3>1 DEF kyber_decapsulate
    <3>3. CtId(v) = <<>>
      BY <3>2 DEF CtId
    <3>4. CtId(ct)[1] # k
      BY <2>3, <2>6
    <3> QED
      BY <2>4, <3>2, <3>3, <3>4 DEF v
  <2> QED
    BY <2>5, <2>6
<1>6. CASE ct.tag # "ct"
  <2>1. CtId(ct) = <<>>
    BY <1>4, <1>6 DEF CtId
  <2>2. v.tag = "rejected"
    BY <1>2, <1>6 DEF kyber_decapsulate
  <2>3. CtId(v) = <<>>
    BY <2>2 DEF CtId
  <2> QED
    BY <2>1, <2>2, <2>3 DEF v
<1> QED
  BY <1>5, <1>6

\* decapsulate answers with the key it unsealed before it read the ciphertext.
LEMMA DecapsulateRefines ==
  ASSUME SafetyInv, RefInv, NEW p \in Shell, cmd_decapsulate(p)
  PROVE  /\ RefInv'
         /\ \/ UNCHANGED history
            \/ \E k \in VaultKey, c \in SentBar \cup {<<>>} :
                 /\ k \in stored
                 /\ RecoveredBar' = RecoveredBar \cup
                      {[key |-> k, ct |-> c,
                        secret |-> IF c # <<>> /\ c[1] = k THEN c ELSE <<>>]}
                 /\ UNCHANGED <<stored, published, signed, verdicts, sent>>
<1> DEFINE ct == hex_decode(fs[cmd[p].ct])
           secret == decapsulate(local[p], ct.val)
           docs == <<HexDoc(secret.val)>>
           r == [kp |-> local[p], ct |-> ct.val, secret |-> secret.val]
<1>1. pc[p] = "unsealed" /\ cmd[p].name = "decapsulate" /\ Running(p)
  BY DEF cmd_decapsulate, Running, Ended
<1>2. CASE Fail(p)
  BY <1>2, FailMade DEF Fail
<1>3. CASE /\ ct.ok /\ secret.ok /\ StartWriting(p, docs)
           /\ recovered' = recovered \cup {r}
           /\ UNCHANGED <<draws, stored, published, signed, verdicts, sent>>
  <2>1. cmd[p].ct \in Path
    BY <1>1, OutputsType DEF SafetyInv, TypeOK, ProcessTypeOK, CommandTypeOK
  <2>2. ct.val \in ByteString /\ MadeBytes(ct.val, sent)
    BY <1>3, <2>1, HexDecodeType, HexRead DEF SafetyInv, TypeOK, FilesTypeOK
  <2>3. PICK k \in VaultKey : local[p] = PairOf(k) /\ k \in stored
    BY <1>1 DEF RefInv, MadeHeld
  <2> HIDE DEF ct
  <2>4. /\ CtId(ct.val) \in SentBar \cup {<<>>}
        /\ CtId(secret.val)
             = IF CtId(ct.val) # <<>> /\ CtId(ct.val)[1] = k THEN CtId(ct.val) ELSE <<>>
        /\ secret.val.tag \in {"ss", "rejected"}
    BY <1>3, <2>2, <2>3, SecretOfCiphertext
  <2> HIDE DEF secret
  <2>5. MadeDoc(HexDoc(secret.val), sent')
    BY <2>4 DEF MadeDoc, MadeBytes, HexDoc
  <2>6. \A i \in DOMAIN docs : MadeDoc(docs[i], sent')
    BY <2>5
  <2>7. EntropyBounded' /\ SecretsAreOld'
    BY <1>3, StartWritingMoves, EntropyKept DEF RefInv, SecretsAreOld
  <2> HIDE DEF docs
  <2>8. RefInv'
    BY <1>3, <2>6, <2>7, StartWritingMade
  <2>9. Recovery(r) = [key |-> k, ct |-> CtId(ct.val), secret |-> CtId(secret.val)]
    BY <2>3, PairFields DEF Recovery
  <2> HIDE DEF r
  <2>10. RecoveredBar' = RecoveredBar \cup {Recovery(r)}
    BY <1>3 DEF RecoveredBar
  <2> QED
    BY <1>3, <2>3, <2>4, <2>8, <2>9, <2>10
<1> QED
  BY <1>2, <1>3 DEF cmd_decapsulate

\* sign signs what the file holds then, with a stored key.
LEMMA SignRefines ==
  ASSUME SafetyInv, RefInv, NEW p \in Shell, cmd_sign(p)
  PROVE  /\ RefInv'
         /\ \/ UNCHANGED history
            \/ \E k \in VaultKey, m \in Message :
                 /\ k \in stored /\ SignedBar' = SignedBar \cup {<<k, m>>}
                 /\ UNCHANGED <<stored, published, verdicts, sent, recovered>>
<1> DEFINE message == fs[cmd[p].file].doc.msg
           signature == sign(local[p], message)
           docs == <<HexDoc(signature.val)>>
<1>1. pc[p] = "unsealed" /\ cmd[p].name = "sign" /\ Running(p)
  BY DEF cmd_sign, Running, Ended
<1>2. CASE Fail(p)
  BY <1>2, FailMade DEF Fail
<1>3. CASE /\ signature.ok /\ StartWriting(p, docs)
           /\ signed' = signed \cup {[key |-> local[p].sk_bytes.key, msg |-> message]}
           /\ UNCHANGED <<draws, stored, published, verdicts, sent, recovered>>
  <2>1. cmd[p].file \in MsgPath
    BY <1>1, OutputsType DEF SafetyInv, TypeOK, ProcessTypeOK, CommandTypeOK
  <2>2. fs[cmd[p].file] \in FileType /\ fs[cmd[p].file].doc.kind = "msg"
    BY <2>1, PathAssumption DEF SafetyInv, TypeOK, FilesTypeOK
  <2>3. PICK m \in Message : m = message
    BY <2>2, DocContent DEF FileType
  <2>4. PICK k \in VaultKey : local[p] = PairOf(k) /\ k \in stored
    BY <1>1 DEF RefInv, MadeHeld
  <2>5. local[p].sk_bytes = SkBytes(k) /\ local[p].level = k.level /\ SkBytes(k).key = k
    BY <2>4, PairFields
  <2>6. signature.val = SigBytes(SkBytes(k), k.level, m)
    BY <1>3, <2>3, <2>5 DEF sign, Ok, Err
  <2> HIDE DEF signature
  <2>7. MadeDoc(HexDoc(signature.val), sent')
    <3>1. signature.val.tag = "sig"
      BY <2>6 DEF SigBytes
    <3>2. MadeBytes(signature.val, sent')
      BY <2>6, <3>1 DEF MadeBytes
    <3> QED
      BY <3>2 DEF MadeDoc, HexDoc
  <2>8. \A i \in DOMAIN docs : MadeDoc(docs[i], sent')
    BY <2>7
  <2>9. EntropyBounded' /\ SecretsAreOld'
    BY <1>3, StartWritingMoves, EntropyKept DEF RefInv, SecretsAreOld
  <2> HIDE DEF docs
  <2>10. RefInv'
    BY <1>3, <2>8, <2>9, StartWritingMade
  <2>11. SignedBar' = SignedBar \cup {<<k, m>>}
    <3>1. PICK x : x = [key |-> local[p].sk_bytes.key, msg |-> message]
      OBVIOUS
    <3>2. signed' = signed \cup {x} /\ x.key = k /\ x.msg = m
      BY <1>3, <2>3, <2>5, <3>1
    <3> QED
      BY <3>2 DEF SignedBar
  <2> QED
    BY <1>3, <2>4, <2>10, <2>11
<1> QED
  BY <1>2, <1>3 DEF cmd_sign

\* verify holds on to a published signature key.
LEMMA VerifyReadKeyRefines ==
  ASSUME SafetyInv, RefInv, NEW p \in Shell, VerifyReadKey(p)
  PROVE  RefInv' /\ UNCHANGED history
<1> DEFINE pem == pem_in(fs[cmd[p].key])
           pub == public_key_from_pem("dsa", pem.val)
<1>1. pc[p] = "begin" /\ cmd[p].name = "verify" /\ Running(p)
  BY DEF VerifyReadKey, Running, Ended
<1>2. CASE Fail(p)
  BY <1>2, FailMade DEF Fail
<1>3. CASE pem.ok /\ pub.ok /\ Proceed(p, "file", pub.val) /\ UNCHANGED <<draws, history>>
  <2>1. cmd[p].key \in Path
    BY <1>1, OutputsType DEF SafetyInv, TypeOK, ProcessTypeOK, CommandTypeOK
  <2>2. PICK k \in VaultKey : pub.val = PubOf(k) /\ k.algo = "dsa"
    BY <1>3, <2>1, PublicKeyRead DEF Algo
  <2> HIDE DEF pub
  <2>3. MadeHeld("file", pub.val, sent, stored)
    BY <2>2 DEF MadeHeld, MadePub
  <2> QED
    BY <1>3, <2>3, ProceedMade
<1> QED
  BY <1>2, <1>3 DEF VerifyReadKey

LEMMA VerifyReadFileRefines ==
  ASSUME SafetyInv, RefInv, NEW p \in Shell, VerifyReadFile(p)
  PROVE  RefInv' /\ UNCHANGED history
<1>1. PICK v : v = [pub |-> local[p], msg |-> fs[cmd[p].file].doc.msg]
  OBVIOUS
<1>2. pc[p] = "file" /\ Proceed(p, "sig", v) /\ UNCHANGED <<draws, history>>
  BY <1>1 DEF VerifyReadFile
<1>3. MadePub(v.pub)
  BY <1>1, <1>2 DEF RefInv, MadeHeld
<1>4. MadeHeld("sig", v, sent, stored)
  BY <1>3 DEF MadeHeld
<1> QED
  BY <1>2, <1>4, ProceedMade

\* A signature that was made verifies exactly under the key and for the message it is of.
LEMMA VerdictOf ==
  ASSUME NEW k \in VaultKey, k.algo = "dsa", NEW m, NEW b, MadeBytes(b, sent)
  PROVE  verify_with_typed_key(PubOf(k), m, b).ok <=> SigId(b) = <<k, m>>
<1>1. /\ PubOf(k).bytes = PkBytes(k) /\ PubOf(k).level = k.level
      /\ PkBytes(k).key = k /\ PkBytes(k).tag = "pk"
      /\ PkBytes(k).len = DsaSizes[k.level].public_key
  BY PairFields DEF SizeOf
<1>2. ASSUME verify_with_typed_key(PubOf(k), m, b).ok PROVE SigId(b) = <<k, m>>
  BY <1>1, <1>2, VerifiedIsSignature DEF SigId
<1>3. ASSUME SigId(b) = <<k, m>> PROVE verify_with_typed_key(PubOf(k), m, b).ok
  <2>1. b.tag = "sig" /\ b.sk.key = k /\ b.msg = m
    BY <1>3 DEF SigId
  <2>2. PICK j \in VaultKey, m2 \in Message : b = SigBytes(SkBytes(j), j.level, m2)
    BY <2>1 DEF MadeBytes
  <2>3. b.sk = SkBytes(j) /\ b.len = DsaSizes[j.level].product /\ SkBytes(j).key = j
    BY <2>2, PairFields DEF SigBytes
  <2>4. b.sk = SkBytes(k) /\ b.len = DsaSizes[k.level].product
    BY <2>1, <2>3
  <2>5. dilithium_verifies(b, m, PubOf(k).bytes)
    BY <1>1, <2>1, <2>4 DEF dilithium_verifies
  <2> QED
    BY <1>1, <2>4, <2>5 DEF verify_with_typed_key, Ok
<1> QED
  BY <1>2, <1>3

\* verify answers "valid" exactly for a signature by the published key it read.
LEMMA VerifyRefines ==
  ASSUME SafetyInv, RefInv, NEW p \in Shell, cmd_verify(p)
  PROVE  /\ RefInv'
         /\ \/ UNCHANGED history
            \/ \E k \in VaultKey, m \in Message, s \in SignedBar \cup {<<>>} :
                 /\ k \in published
                 /\ VerdictsBar' = VerdictsBar \cup
                      {[key |-> k, msg |-> m, sig |-> s, valid |-> s = <<k, m>>]}
                 /\ UNCHANGED <<stored, published, signed, sent, recovered>>
<1> DEFINE sig == hex_decode(fs[cmd[p].sig])
           valid == verify_with_typed_key(local[p].pub, local[p].msg, sig.val).ok
           v == [pub |-> local[p].pub, msg |-> local[p].msg, sig |-> sig.val, valid |-> valid]
<1>1. pc[p] = "sig" /\ Running(p)
  BY DEF cmd_verify, Running, Ended
<1>2. CASE Fail(p)
  BY <1>2, FailMade DEF Fail
<1>3. CASE /\ sig.ok /\ Exit(p, IF valid THEN "exit0" ELSE "exit2")
           /\ verdicts' = verdicts \cup {v}
           /\ UNCHANGED <<fs, runs, draws, disturbed,
                          stored, published, signed, sent, recovered>>
  <2>1. cmd[p].sig \in Path
    BY <1>1, OutputsType DEF SafetyInv, TypeOK, ProcessTypeOK, CommandTypeOK
  <2>2. MadeBytes(sig.val, sent) /\ (sig.val.tag = "sig" => SigId(sig.val) \in SignedBar)
    BY <1>3, <2>1, HexRead DEF SigId
  <2>3. local[p].msg \in Message /\ local[p].pub.bytes.key \in published
    BY <1>1 DEF SafetyInv, TypeOK, ProcessTypeOK, LocalTypeOK, ReadableIsPublished
  <2>4. PICK k \in VaultKey : local[p].pub = PubOf(k) /\ k.algo = "dsa"
    BY <1>1 DEF RefInv, MadeHeld, MadePub
  <2>5. PICK m \in Message : m = local[p].msg
    BY <2>3
  <2>6. PubOf(k).bytes.key = k
    BY PairFields
  <2>7. PICK b : b = sig.val
    OBVIOUS
  <2> HIDE DEF sig
  <2>8. valid <=> SigId(b) = <<k, m>>
    BY <2>2, <2>4, <2>5, <2>7, VerdictOf
  <2>9. valid \in BOOLEAN
    BY DEF verify_with_typed_key, Ok, Err
  <2> HIDE DEF valid
  <2>10. SigId(b) \in SignedBar \cup {<<>>}
    BY <2>2, <2>7 DEF SigId
  <2>11. RefInv'
    BY <1>3, ExitMade DEF Ended
  <2>12. valid = (SigId(b) = <<k, m>>)
    BY <2>8, <2>9
  <2>13. Verdict(v) = [key |-> k, msg |-> m, sig |-> SigId(b), valid |-> SigId(b) = <<k, m>>]
    BY <2>4, <2>5, <2>6, <2>7, <2>12 DEF Verdict
  <2> HIDE DEF v
  <2>14. VerdictsBar' = VerdictsBar \cup {Verdict(v)}
    BY <1>3 DEF VerdictsBar
  <2>15. k \in published
    BY <2>3, <2>4, <2>6
  <2> QED
    BY <1>3, <2>10, <2>11, <2>13, <2>14, <2>15
<1> QED
  BY <1>2, <1>3 DEF cmd_verify

LEMMA InspectRefines ==
  ASSUME SafetyInv, RefInv, NEW p \in Shell, cmd_inspect(p)
  PROVE  RefInv' /\ UNCHANGED history
<1>1. CASE Fail(p)
  BY <1>1, FailMade DEF Fail
<1>2. CASE Exit(p, "exit0") /\ UNCHANGED <<fs, runs, draws, disturbed, history>>
  BY <1>2, ExitMade DEF Ended, history
<1> QED
  BY <1>1, <1>2 DEF cmd_inspect

LEMMA StopRefines ==
  ASSUME SafetyInv, RefInv, NEW p \in Shell, NEW code \in Ended, Stop(p, code)
  PROVE  RefInv' /\ UNCHANGED history
BY ExitMade DEF Stop, history

-----------------------------------------------------------------------------
(* The steps of fs::write. *)

\* A step of a command that is writing, which leaves the history but for what a complete
\* file adds to it.
LEMMA WritingMade ==
  ASSUME SafetyInv, RefInv, NEW p \in Shell, NEW file,
         NEW to, to \in {"open", "write", "rest", "exit0"},
         fs' = [fs EXCEPT ![OutPath(p)] = file], MadeFile(file, sent', stored'),
         pc' = [pc EXCEPT ![p] = to],
         local' = local \/ local' = [local EXCEPT ![p] = <<>>],
         \A q \in Shell : \A i \in DOMAIN out'[q] : \E j \in DOMAIN out[q] : out'[q][i] = out[q][j],
         UNCHANGED <<runs, draws, sent>>, stored \subseteq stored', stored' \subseteq VaultKey
  PROVE  RefInv'
<1>1. \A f \in Path : fs'[f] = fs[f] \/ MadeFile(fs'[f], sent', stored')
  BY DEF SafetyInv, TypeOK, FilesTypeOK
<1>2. \A q \in Shell : IF q = p THEN pc'[q] = to ELSE pc'[q] = pc[q] /\ local'[q] = local[q]
  BY DEF SafetyInv, TypeOK, ProcessTypeOK
<1>3. \A q \in Shell : \/ pc'[q] = pc[q] /\ local'[q] = local[q]
                       \/ MadeHeld(pc'[q], local'[q], sent', stored')
  BY <1>2 DEF MadeHeld
<1>4. EntropyBounded'
  BY <1>2, EntropyKept DEF RefInv
<1>5. SecretsAreOld'
  BY DEF RefInv, SecretsAreOld
<1> QED
  BY <1>1, <1>3, <1>4, <1>5, StaysMade

LEMMA OpenOutRefines ==
  ASSUME SafetyInv, RefInv, NEW p \in Shell, OpenOut(p)
  PROVE  RefInv' /\ UNCHANGED history
<1>1. /\ fs' = [fs EXCEPT ![OutPath(p)] = Truncated] /\ pc' = [pc EXCEPT ![p] = "write"]
      /\ UNCHANGED <<cmd, local, out, runs, draws, history>>
  BY DEF OpenOut
<1>2. MadeFile(Truncated, sent', stored')
  BY DEF MadeFile, MadeDoc, Truncated, File, EmptyDoc, from_json, Err
<1>3. \A q \in Shell : \A i \in DOMAIN out'[q] : \E j \in DOMAIN out[q] : out'[q][i] = out[q][j]
  BY <1>1
<1>4. UNCHANGED <<runs, draws, sent>> /\ stored' = stored /\ stored' \subseteq VaultKey
  BY <1>1 DEF RefInv, history
<1>5. RefInv'
  BY <1>1, <1>2, <1>3, <1>4, WritingMade
<1> QED
  BY <1>1, <1>5

\* A bundle of which only the first block is written cannot be read, unless it was there.
LEMMA FirstBlockNoBundle ==
  ASSUME NEW f \in FileType, NEW d \in OutDocType, DocLen(d) > BLOCK,
         from_json(FirstBlockOver(f, d)).ok
  PROVE  from_json(f).ok /\ FirstBlockOver(f, d).doc = f.doc
<1>1. DocLen(d) \in Nat /\ f.len \in Nat
  BY DocLenType DEF DocType, FileType
<1>2. CASE f.len > BLOCK /\ f.doc # d
  BY <1>2 DEF FirstBlockOver, File, from_json, MixedDoc, Err
<1>3. CASE f.len > BLOCK /\ f.doc = d
  <2>1. FirstBlockOver(f, d) = [doc |-> d, len |-> f.len]
    BY <1>1, <1>3 DEF FirstBlockOver, File, Longer, BLOCK
  <2>2. f = [doc |-> d, len |-> f.len]
    BY <1>3 DEF FileType
  <2>3. FirstBlockOver(f, d) = f
    BY <2>1, <2>2, Zenon
  <2> QED
    BY <2>3, Zenon
<1>4. CASE ~(f.len > BLOCK)
  BY <1>1, <1>4 DEF FirstBlockOver, File, from_json, Intact, Err, Ok, Longer, BLOCK
<1> QED
  BY <1>2, <1>3, <1>4

\* What is about to be written was made.
LEMMA OutDocMade ==
  ASSUME SafetyInv, RefInv, NEW p \in Shell, pc[p] \in {"open", "write", "rest"}
  PROVE  /\ OutPath(p) \in Path \ MsgPath /\ OutDoc(p) \in OutDocType
         /\ MadeDoc(OutDoc(p), sent) /\ fs[OutPath(p)] \in FileType
<1>1. /\ 1 \in DOMAIN out[p] /\ out[p][1].doc = OutDoc(p)
      /\ OutPath(p) \in Path \ MsgPath /\ OutDoc(p) \in OutDocType
  BY WritingType DEF SafetyInv, TypeOK
<1>2. MadeDoc(OutDoc(p), sent)
  BY <1>1 DEF RefInv
<1>3. fs[OutPath(p)] \in FileType
  BY <1>1 DEF SafetyInv, TypeOK, FilesTypeOK
<1> QED
  BY <1>1, <1>2, <1>3

LEMMA WriteFirstBlockRefines ==
  ASSUME SafetyInv, RefInv, NEW p \in Shell, WriteFirstBlock(p)
  PROVE  RefInv' /\ UNCHANGED history
<1>1. PICK file : file = FirstBlockOver(fs[OutPath(p)], OutDoc(p))
  OBVIOUS
<1>2. /\ pc[p] = "write" /\ DocLen(OutDoc(p)) > BLOCK
      /\ fs' = [fs EXCEPT ![OutPath(p)] = file] /\ pc' = [pc EXCEPT ![p] = "rest"]
      /\ UNCHANGED <<cmd, local, out, runs, draws, history>>
  BY <1>1 DEF WriteFirstBlock
<1>3. /\ OutPath(p) \in Path \ MsgPath /\ OutDoc(p) \in OutDocType
      /\ MadeDoc(OutDoc(p), sent) /\ fs[OutPath(p)] \in FileType
  BY <1>2, OutDocMade
<1>4. MadeFile(file, sent, stored)
  <2>1. file.doc \in {OutDoc(p), MixedDoc}
    BY <1>1, <1>3, WriteType
  <2>2. MadeDoc(file.doc, sent)
    BY <1>3, <2>1 DEF MadeDoc, MixedDoc
  <2>3. from_json(file).ok => from_json(fs[OutPath(p)]).ok /\ file.doc = fs[OutPath(p)].doc
    BY <1>1, <1>2, <1>3, FirstBlockNoBundle
  <2>4. MadeFile(fs[OutPath(p)], sent, stored)
    BY <1>3 DEF RefInv
  <2> QED
    BY <2>2, <2>3, <2>4 DEF MadeFile
<1>5. \A q \in Shell : \A i \in DOMAIN out'[q] : \E j \in DOMAIN out[q] : out'[q][i] = out[q][j]
  BY <1>2
<1>6. UNCHANGED <<runs, draws, sent>> /\ stored' = stored /\ stored' \subseteq VaultKey
  BY <1>2 DEF RefInv, history
<1>7. RefInv'
  BY <1>2, <1>4, <1>5, <1>6, WritingMade
<1> QED
  BY <1>2, <1>7

\* A bundle that is completely written stores its key; a public key publishes its own,
\* which is stored.
LEMMA WriteAllRefines ==
  ASSUME SafetyInv, RefInv, NEW p \in Shell, WriteAll(p), SafetyInv'
  PROVE  /\ RefInv'
         /\ \/ UNCHANGED history
            \/ \E k \in VaultKey :
                 /\ stored' = stored \cup {k}
                 /\ UNCHANGED <<published, signed, verdicts, sent, recovered>>
            \/ \E k \in VaultKey :
                 /\ k \in stored /\ published' = published \cup {k}
                 /\ UNCHANGED <<stored, signed, verdicts, sent, recovered>>
<1> DEFINE doc == OutDoc(p)
<1>1. PICK file : file = WrittenOver(fs[OutPath(p)], doc)
  OBVIOUS
<1>2. /\ pc[p] \in {"write", "rest"} /\ fs' = [fs EXCEPT ![OutPath(p)] = file]
      /\ Written(doc) /\ UNCHANGED <<runs, draws, disturbed>>
  BY <1>1 DEF WriteAll
<1>3. \/ /\ pc' = [pc EXCEPT ![p] = "open"] /\ out' = [out EXCEPT ![p] = Tail(@)]
         /\ local' = local
      \/ Exit(p, "exit0")
  BY DEF WriteAll
<1>4. /\ OutPath(p) \in Path \ MsgPath /\ doc \in OutDocType
      /\ MadeDoc(doc, sent) /\ fs[OutPath(p)] \in FileType
  BY <1>2, OutDocMade
<1>5. file.doc = doc
  BY <1>1, <1>4, WriteType
<1>6. /\ stored' = stored \cup
           IF doc.kind = "bundle" THEN {doc.bundle.ciphertext.data.pk.key} ELSE {}
      /\ published' = published \cup IF doc.kind = "pem" THEN {doc.pem.bytes.key} ELSE {}
      /\ UNCHANGED <<signed, verdicts, sent, recovered>>
  BY <1>2 DEF Written
<1>7. doc.kind = "bundle" => doc.bundle.ciphertext.data.pk.key \in VaultKey
  <2>1. SUFFICES ASSUME doc.kind = "bundle"
                 PROVE  doc.bundle.ciphertext.data.pk.key \in VaultKey
    OBVIOUS
  <2>2. PICK k \in VaultKey, pass \in Passphrase, n \in Nat :
          doc.bundle = seal(PairOf(k), pass, n)
    BY <1>4, <2>1 DEF MadeDoc, MadeBundle
  <2>3. doc.bundle.ciphertext.data.pk = PairOf(k).pk_bytes
    BY <2>2, SealedBundle
  <2> QED
    BY <2>3, PairFields
<1>8. doc.kind = "pem" => doc.pem.bytes.key \in VaultKey
  <2>1. SUFFICES ASSUME doc.kind = "pem" PROVE doc.pem.bytes.key \in VaultKey
    OBVIOUS
  <2>2. PICK k \in VaultKey : doc.pem = public_key_to_pem(PubOf(k))
    BY <1>4, <2>1 DEF MadeDoc
  <2> QED
    BY <2>2, PairFields DEF public_key_to_pem
<1> HIDE DEF doc
<1>9. stored \subseteq stored' /\ stored' \subseteq VaultKey
  BY <1>6, <1>7 DEF RefInv
<1>10. MadeFile(file, sent', stored')
  <2>1. MadeDoc(file.doc, sent')
    BY <1>4, <1>5, <1>6
  <2>2. from_json(file).ok => file.doc.kind = "bundle"
    BY DEF from_json, Err
  <2> QED
    BY <1>5, <1>6, <2>1, <2>2 DEF MadeFile
<1>11. \A q \in Shell : \A i \in DOMAIN out'[q] : \E j \in DOMAIN out[q] : out'[q][i] = out[q][j]
  <2>1. \A i \in DOMAIN Tail(out[p]) : \E j \in DOMAIN out[p] : Tail(out[p])[i] = out[p][j]
    <3>1. out[p] \in Seq([path : Path \ MsgPath, doc : OutDocType]) /\ out[p] # <<>>
      BY <1>2, WritingType DEF SafetyInv, TypeOK
    <3> QED
      BY <3>1, HeadTailProperties, LenProperties
  <2>2. \A q \in Shell : \/ out'[q] = out[q]
                         \/ q = p /\ (out'[q] = <<>> \/ out'[q] = Tail(out[q]))
    BY <1>3 DEF Exit, SafetyInv, TypeOK, ProcessTypeOK
  <2>3. DOMAIN <<>> = {}
    OBVIOUS
  <2>4. ASSUME NEW q \in Shell, NEW i \in DOMAIN out'[q]
        PROVE  \E j \in DOMAIN out[q] : out'[q][i] = out[q][j]
    <3>1. CASE out'[q] = out[q]
      BY <2>4, <3>1
    <3>2. CASE q = p /\ out'[q] = <<>>
      BY <2>3, <2>4, <3>2
    <3>3. CASE q = p /\ out'[q] = Tail(out[q])
      BY <2>1, <2>4, <3>3
    <3> QED
      BY <2>2, <3>1, <3>2, <3>3
  <2> QED
    BY <2>4
<1>12. RefInv'
  <2>1. PICK to \in {"open", "exit0"} : pc' = [pc EXCEPT ![p] = to]
    BY <1>3 DEF Exit
  <2>2. local' = local \/ local' = [local EXCEPT ![p] = <<>>]
    BY <1>3 DEF Exit
  <2>3. to \in {"open", "write", "rest", "exit0"}
    OBVIOUS
  <2>4. UNCHANGED <<runs, draws, sent>>
    BY <1>2, <1>6
  <2> QED
    BY <1>2, <1>9, <1>10, <1>11, <2>1, <2>2, <2>3, <2>4, WritingMade
<1>13. CASE doc.kind = "bundle"
  <2>1. PICK k \in VaultKey : k = doc.bundle.ciphertext.data.pk.key
    BY <1>7, <1>13
  <2>2. stored' = stored \cup {k} /\ published' = published
    BY <1>6, <1>13, <2>1
  <2> QED
    BY <1>6, <1>12, <2>2
<1>14. CASE doc.kind = "pem"
  <2>1. PICK k \in VaultKey : k = doc.pem.bytes.key
    BY <1>8, <1>14
  <2>2. published' = published \cup {k} /\ stored' = stored
    BY <1>6, <1>14, <2>1
  <2>3. published' \subseteq stored'
    BY DEF SafetyInv, PublishedIsStored
  <2> QED
    BY <1>6, <1>12, <2>2, <2>3
<1>15. CASE doc.kind \notin {"bundle", "pem"}
  BY <1>6, <1>12, <1>15 DEF history
<1> QED
  BY <1>13, <1>14, <1>15

-----------------------------------------------------------------------------
(* The user, and a command that begins. *)

LEMMA EditMessageRefines ==
  ASSUME SafetyInv, RefInv, NEW f \in MsgPath, NEW m \in Message, EditMessage(f, m)
  PROVE  RefInv' /\ UNCHANGED history
<1>1. /\ fs' = [fs EXCEPT ![f] = Whole(MsgDoc(m))]
      /\ UNCHANGED <<pc, cmd, local, out, runs, draws, disturbed, history>>
  BY DEF EditMessage, process
<1>2. MadeFile(Whole(MsgDoc(m)), sent', stored')
  BY DEF MadeFile, MadeDoc, Whole, MsgDoc, File, from_json, Err
<1>3. \A g \in Path : fs'[g] = fs[g] \/ MadeFile(fs'[g], sent', stored')
  BY <1>1, <1>2 DEF SafetyInv, TypeOK, FilesTypeOK
<1>4. EntropyBounded'
  BY <1>1, EntropyKept DEF RefInv
<1>5. /\ SecretsAreOld' /\ stored' \subseteq VaultKey
      /\ sent' = sent /\ stored' = stored
  BY <1>1 DEF RefInv, SecretsAreOld, history
<1>6. \A q \in Shell : \A i \in DOMAIN out'[q] : \E j \in DOMAIN out[q] : out'[q][i] = out[q][j]
  BY <1>1
<1>7. RefInv'
  BY <1>1, <1>3, <1>4, <1>5, <1>6, StaysMade
<1> QED
  BY <1>1, <1>7

LEMMA StartRefines ==
  ASSUME SafetyInv, RefInv, NEW p \in Shell, NEW c, Start(p, c)
  PROVE  RefInv' /\ UNCHANGED history
<1>1. /\ runs' = runs + 1 /\ pc' = [pc EXCEPT ![p] = "begin"]
      /\ UNCHANGED <<fs, local, out, draws, disturbed, history>>
  BY DEF Start
<1>2. \A q \in Shell : IF q = p THEN pc'[q] = "begin" ELSE pc'[q] = pc[q]
  BY <1>1 DEF SafetyInv, TypeOK, ProcessTypeOK
<1>3. EntropyBounded'
  <2> DEFINE B == {q \in Shell : pc[q] = "begin"}
             C == {q \in Shell : pc'[q] = "begin"}
  <2>1. C = B \cup {p} /\ IsFiniteSet(B) /\ draws + Cardinality(B) <= runs
    BY <1>2 DEF RefInv, EntropyBounded, Beginning
  <2> HIDE DEF B, C
  <2>2. /\ IsFiniteSet(B \cup {p})
        /\ Cardinality(B \cup {p}) <= Cardinality(B) + 1
        /\ Cardinality(B) \in Nat /\ Cardinality(B \cup {p}) \in Nat
    <3>1. IsFiniteSet(B \cup {p})
      BY <2>1, FS_AddElement
    <3>2. Cardinality(B) \in Nat /\ Cardinality(B \cup {p}) \in Nat
      BY <2>1, <3>1, FS_CardinalityType
    <3>3. Cardinality(B \cup {p}) = IF p \in B THEN Cardinality(B) ELSE Cardinality(B) + 1
      BY <2>1, FS_AddElement
    <3> QED
      BY <3>1, <3>2, <3>3
  <2>3. draws \in Nat /\ runs \in Nat
    BY BoundAssumption DEF SafetyInv, TypeOK, HistoryTypeOK
  <2>4. draws' + Cardinality(C) <= runs'
    BY <1>1, <2>1, <2>2, <2>3
  <2> QED
    BY <2>1, <2>2, <2>4 DEF EntropyBounded, Beginning, C
<1>4. \A q \in Shell : \/ pc'[q] = pc[q] /\ local'[q] = local[q]
                       \/ MadeHeld(pc'[q], local'[q], sent', stored')
  BY <1>1, <1>2 DEF MadeHeld
<1>5. /\ SecretsAreOld' /\ stored' \subseteq VaultKey
      /\ sent' = sent /\ stored' = stored
  BY <1>1 DEF RefInv, SecretsAreOld, history
<1>6. \A q \in Shell : \A i \in DOMAIN out'[q] : \E j \in DOMAIN out[q] : out'[q][i] = out[q][j]
  BY <1>1
<1>7. RefInv'
  BY <1>1, <1>3, <1>4, <1>5, <1>6, StaysMade
<1> QED
  BY <1>1, <1>7

-----------------------------------------------------------------------------
(* The refinement. *)

LEMMA InitRefInv == Init => RefInv
<1> SUFFICES ASSUME Init PROVE RefInv
  OBVIOUS
<1>1. PICK content \in [MsgPath -> Message] :
        fs = [f \in Path |-> IF f \in MsgPath THEN Whole(MsgDoc(content[f])) ELSE NoFile]
  BY DEF Init
<1>2. \A m : MadeFile(Whole(MsgDoc(m)), sent, stored)
  BY DEF MadeFile, MadeDoc, Whole, MsgDoc, File, from_json, Err
<1>3. MadeFile(NoFile, sent, stored)
  BY DEF MadeFile, MadeDoc, NoFile, File, MissingDoc, from_json, Err
<1>4. \A f \in Path : MadeFile(fs[f], sent, stored)
  BY <1>1, <1>2, <1>3
<1>5. \A p \in Shell : MadeHeld(pc[p], local[p], sent, stored)
  BY DEF Init, MadeHeld
<1>6. EntropyBounded
  <2>1. Beginning = {}
    BY DEF Beginning, Init
  <2> QED
    BY <2>1, FS_EmptySet DEF EntropyBounded, Init
<1>7. DOMAIN <<>> = {}
  OBVIOUS
<1>8. \A p \in Shell : \A i \in DOMAIN out[p] : MadeDoc(out[p][i].doc, sent)
  BY <1>7 DEF Init
<1>9. SecretsAreOld /\ stored \subseteq VaultKey
  BY DEF Init, SecretsAreOld
<1> QED
  BY <1>4, <1>5, <1>6, <1>8, <1>9 DEF RefInv

\* What a step does to the history is a step of the service.
LEMMA StepRefines ==
  ASSUME SafetyInv, RefInv, SafetyInv', NEW p \in Shell, Step(p)
  PROVE  RefInv' /\ [Service!Next]_(Service!vars)
<1> USE DEF SignedBar, VerdictsBar, Verdict, SentBar, RecoveredBar, Recovery, VaultKey
<1>1. ASSUME UNCHANGED history PROVE UNCHANGED Service!vars
  BY <1>1 DEF history, Service!vars
<1>2. CASE cmd_keygen(p) \/ ReadBundle(p) \/ Unseal(p) \/ VerifyReadKey(p) \/ VerifyReadFile(p)
             \/ cmd_inspect(p) \/ OpenOut(p) \/ WriteFirstBlock(p)
  BY <1>1, <1>2, KeygenRefines, ReadBundleRefines, UnsealRefines, VerifyReadKeyRefines,
     VerifyReadFileRefines, InspectRefines, OpenOutRefines, WriteFirstBlockRefines
<1>3. CASE cmd_encapsulate(p)
  BY <1>1, <1>3, EncapsulateRefines DEF Service!Next, Service!Send
<1>4. CASE cmd_decapsulate(p)
  BY <1>1, <1>4, DecapsulateRefines DEF Service!Next, Service!Recover, Service!Foreign
<1>5. CASE cmd_sign(p)
  BY <1>1, <1>5, SignRefines DEF Service!Next, Service!Sign
<1>6. CASE cmd_verify(p)
  BY <1>1, <1>6, VerifyRefines DEF Service!Next, Service!Verify, Service!Foreign
<1>7. CASE WriteAll(p)
  BY <1>1, <1>7, WriteAllRefines DEF Service!Next, Service!Store, Service!Publish
<1> QED
  BY <1>2, <1>3, <1>4, <1>5, <1>6, <1>7 DEF Step

LEMMA NextRefines ==
  ASSUME SafetyInv, RefInv, SafetyInv', [Next]_vars
  PROVE  RefInv' /\ [Service!Next]_(Service!vars)
<1>1. ASSUME UNCHANGED history PROVE UNCHANGED Service!vars
  BY <1>1 DEF history, Service!vars
<1>2. ASSUME NEW p \in Shell, NEW c \in Command, Start(p, c)
      PROVE  RefInv' /\ UNCHANGED Service!vars
  BY <1>1, <1>2, StartRefines
<1>3. ASSUME NEW p \in Shell, IoError(p) \/ Kill(p) PROVE RefInv' /\ UNCHANGED Service!vars
  BY <1>1, <1>3, StopRefines DEF IoError, Kill, Ended
<1>4. ASSUME NEW f \in MsgPath, NEW m \in Message, EditMessage(f, m)
      PROVE  RefInv' /\ UNCHANGED Service!vars
  BY <1>1, <1>4, EditMessageRefines
<1>5. CASE UNCHANGED vars
  <2>1. /\ fs' = fs /\ pc' = pc /\ local' = local /\ out' = out /\ runs' = runs
        /\ draws' = draws /\ stored' = stored /\ sent' = sent /\ UNCHANGED history
    BY <1>5 DEF vars, process, history
  <2>2. EntropyBounded' /\ SecretsAreOld'
    BY <2>1 DEF RefInv, EntropyBounded, Beginning, SecretsAreOld
  <2>3. RefInv'
    BY <2>1, <2>2 DEF RefInv
  <2> QED
    BY <1>1, <2>1, <2>3
<1> QED
  BY <1>2, <1>3, <1>4, <1>5, StepRefines DEF Next

\* The commands implement the vault's promise: interleaved, killed or failing at any point,
\* keys are published after they are stored, only stored keys sign and decapsulate, verify
\* answers "valid" exactly for a signature of this message by this published key, and
\* decapsulate gives the sender's secret to the owner of the key and to nobody else.
THEOREM VaultIsAService == Spec => ImplementsService
<1>1. Init => RefInv /\ Service!Init
  <2>1. Init => Service!Init
    BY DEF Init, Service!Init
  <2> QED
    BY <2>1, InitRefInv
<1>2. SafetyInv /\ RefInv /\ SafetyInv' /\ [Next]_vars => RefInv' /\ [Service!Next]_(Service!vars)
  BY NextRefines
<1> QED
  BY <1>1, <1>2, Safety, PTL DEF Spec, ImplementsService, Service!Spec
=============================================================================
