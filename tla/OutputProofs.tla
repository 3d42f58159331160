------------------------------ MODULE OutputProofs ------------------------------
(***************************************************************************)
(* The files two commands exchange belong together, for every set of       *)
(* shells, paths and command lines: OutputsInv is inductive beside         *)
(* SafetyInv, and SettledOutputsMatch and ExchangeAgrees follow from it.   *)
(***************************************************************************)
EXTENDS VaultCliProofs, SerialProofs

\* The premise of OutputsInv: a pair of files nobody's failure or overlap has touched.
Undisturbed(c) ==
  /\ Len(Outputs(c)) = 2 /\ OwnOutputs(c)
  /\ Outputs(c)[1] \notin disturbed /\ Outputs(c)[2] \notin disturbed

RecoveredOK == \A r \in recovered : decapsulate(r.kp, r.ct) = Ok(r.secret)

LEMMA PairOfPaths ==
  ASSUME NEW c \in Command, Len(Outputs(c)) = 2
  PROVE  /\ Range(Outputs(c)) = {Outputs(c)[1], Outputs(c)[2]}
         /\ DOMAIN Outputs(c) = {1, 2}
         /\ Outputs(c)[1] \in Path \ MsgPath /\ Outputs(c)[2] \in Path \ MsgPath
         /\ OwnOutputs(c) => Outputs(c)[1] # Outputs(c)[2]
<1>1. Outputs(c) \in Seq(Path \ MsgPath)
  BY OutputsType
<1>2. DOMAIN Outputs(c) = {1, 2}
  <2>1. DOMAIN Outputs(c) = 1..2
    BY <1>1, LenProperties
  <2> QED
    BY <2>1
<1>3. Outputs(c)[1] \in Path \ MsgPath /\ Outputs(c)[2] \in Path \ MsgPath
  BY <1>1, <1>2, ElementOfSeq
<1>4. Range(Outputs(c)) = {Outputs(c)[1], Outputs(c)[2]}
  BY <1>2 DEF Range
<1>5. OwnOutputs(c) => Outputs(c)[1] # Outputs(c)[2]
  BY <1>2 DEF OwnOutputs
<1> QED
  BY <1>2, <1>3, <1>4, <1>5

LEMMA OutputsInvAs ==
  OutputsInv <=> /\ \A p \in Shell : OutputsInOrder(p)
                 /\ \A c \in Command : Undisturbed(c) => PairInv(c)
                 /\ RecoveredOK
<1>1. ASSUME NEW c \in Command, Len(Outputs(c)) = 2
      PROVE  Range(Outputs(c)) \cap disturbed = {} <=>
               Outputs(c)[1] \notin disturbed /\ Outputs(c)[2] \notin disturbed
  BY <1>1, PairOfPaths
<1> QED
  BY <1>1 DEF OutputsInv, PairCommands, Undisturbed, RecoveredOK

LEMMA OutputsInvAsNext ==
  OutputsInv' <=> /\ \A p \in Shell : OutputsInOrder(p)'
                  /\ \A c \in Command : Undisturbed(c)' => PairInv(c)'
                  /\ RecoveredOK'
<1>1. ASSUME NEW c \in Command, Len(Outputs(c)) = 2
      PROVE  Range(Outputs(c)) \cap disturbed' = {} <=>
               Outputs(c)[1] \notin disturbed' /\ Outputs(c)[2] \notin disturbed'
  BY <1>1, PairOfPaths
<1> QED
  BY <1>1 DEF OutputsInv, PairCommands, Undisturbed, RecoveredOK

\* A command writes to its own outputs.
LEMMA WritesItsOwn ==
  ASSUME SafetyInv, NEW p \in Shell, OutputsInOrder(p), pc[p] \in {"open", "write", "rest"}
  PROVE  /\ cmd[p] \in Command /\ OutPath(p) \in Range(Outputs(cmd[p]))
         /\ OutPath(p) \in Path \ MsgPath /\ fs[OutPath(p)] \in FileType
         /\ OutDoc(p) \in OutDocType /\ DocLen(OutDoc(p)) \in Nat
         /\ out[p] \in Seq([path : Path \ MsgPath, doc : OutDocType]) /\ out[p] # <<>>
<1>1. /\ cmd[p] \in Command /\ OutDoc(p) \in OutDocType /\ OutPath(p) \in Path \ MsgPath
      /\ out[p] \in Seq([path : Path \ MsgPath, doc : OutDocType]) /\ out[p] # <<>>
  BY WritingType DEF SafetyInv, TypeOK, ProcessTypeOK, CommandTypeOK
<1>2. DocLen(OutDoc(p)) \in Nat /\ fs[OutPath(p)] \in FileType
  BY <1>1, DocLenType DEF DocType, SafetyInv, TypeOK, FilesTypeOK
<1>3. OutPath(p) \in Range(Outputs(cmd[p]))
  <2>1. Outputs(cmd[p]) \in Seq(Path \ MsgPath)
    BY <1>1, OutputsType
  <2>2. DOMAIN Outputs(cmd[p]) = 1..Len(Outputs(cmd[p]))
    BY <2>1, LenProperties
  <2>3. \/ Len(Outputs(cmd[p])) \in {1, 2} /\ OutPath(p) = Outputs(cmd[p])[Len(Outputs(cmd[p]))]
        \/ Len(Outputs(cmd[p])) = 2 /\ OutPath(p) = Outputs(cmd[p])[1]
    BY DEF OutputsInOrder, OutPath
  <2>4. \E i \in DOMAIN Outputs(cmd[p]) : OutPath(p) = Outputs(cmd[p])[i]
    BY <2>2, <2>3
  <2> QED
    BY <2>4 DEF Range
<1> QED
  BY <1>1, <1>2, <1>3

-----------------------------------------------------------------------------
(* Steps that write nothing. *)

\* A shell that does not move, or is not half-way and was not, unless its files are
\* disturbed now.
Same(q)  == pc'[q] = pc[q] /\ cmd'[q] = cmd[q] /\ out'[q] = out[q]
Leaves(q) ==
  /\ ~HalfWay(q)'
  /\ HalfWay(q) => Range(Outputs(cmd[q])) \subseteq disturbed'

LEMMA PairKept ==
  ASSUME SafetyInv, \A q \in Shell : OutputsInOrder(q),
         NEW c \in Command, Undisturbed(c), Undisturbed(c)', PairInv(c),
         fs'[Outputs(c)[1]] = fs[Outputs(c)[1]], fs'[Outputs(c)[2]] = fs[Outputs(c)[2]],
         \A q \in Shell : Same(q) \/ Leaves(q) \/ Outputs(cmd[q]) # Outputs(c),
         \A q \in Shell : Same(q) \/ ~HalfWay(q)' \/ cmd'[q] = cmd[q]
  PROVE  PairInv(c)'
<1> DEFINE O == Outputs(c)
<1>1. Range(O) = {O[1], O[2]} /\ Len(O) = 2
  BY PairOfPaths DEF Undisturbed
<1>2. ASSUME NEW q \in Shell, ~Same(q) PROVE q \notin Writers(c) /\ q \notin Writers(c)'
  <2>1. CASE Outputs(cmd[q]) # O
    BY <1>2, <2>1 DEF Writers
  <2>2. CASE Leaves(q)
    BY <1>1, <2>2 DEF Leaves, Writers, Undisturbed
  <2> QED
    BY <1>2, <2>1, <2>2
<1>3. \A q \in Shell : q \in Writers(c)' <=> q \in Writers(c)
  BY <1>2 DEF Same, Writers, HalfWay
<1>4. Writers(c)' = Writers(c)
  BY <1>3 DEF Writers
<1>5. ASSUME NEW q \in Writers(c)
      PROVE  /\ q \in Shell /\ Same(q)
             /\ OutPath(q)' = OutPath(q) /\ OutDoc(q)' = OutDoc(q)
             /\ fs'[OutPath(q)] = fs[OutPath(q)]
  <2>1. q \in Shell /\ Same(q) /\ HalfWay(q) /\ Outputs(cmd[q]) = O
    BY <1>2 DEF Writers
  <2>2. OutPath(q)' = OutPath(q) /\ OutDoc(q)' = OutDoc(q)
    BY <2>1 DEF Same, OutPath, OutDoc
  <2>3. OutPath(q) \in {O[1], O[2]}
    BY <1>1, <2>1, WritesItsOwn DEF HalfWay
  <2> QED
    BY <2>1, <2>2, <2>3
<1>6. ASSUME NEW q \in Writers(c)
      PROVE  /\ pc'[q] = "write" => fs'[OutPath(q)'] = Truncated
             /\ pc'[q] = "rest" => /\ DocLen(OutDoc(q)') > BLOCK
                                   /\ fs'[OutPath(q)'] = File(OutDoc(q)', BLOCK)
             /\ Len(out'[q]) = 1 => Intact(fs'[O[1]]) /\ MatchingDocs(fs'[O[1]].doc, OutDoc(q)')
  BY <1>5 DEF PairInv, Same
<1> QED
  BY <1>4, <1>6 DEF PairInv

\* What a step that writes no output has to leave in order.
LEMMA QuietStep ==
  ASSUME SafetyInv, OutputsInv, disturbed \subseteq disturbed',
         \A f \in Path \ MsgPath : fs'[f] = fs[f],
         \A q \in Shell : Same(q) \/ (Leaves(q) /\ OutputsInOrder(q)'), RecoveredOK'
  PROVE  OutputsInv'
<1>1. /\ \A q \in Shell : OutputsInOrder(q)
      /\ \A c \in Command : Undisturbed(c) => PairInv(c)
  BY OutputsInvAs
<1>2. \A q \in Shell : OutputsInOrder(q)'
  BY <1>1 DEF Same, OutputsInOrder, OutPath
<1>3. ASSUME NEW c \in Command, Undisturbed(c)' PROVE PairInv(c)'
  <2>1. Undisturbed(c) /\ Len(Outputs(c)) = 2
    BY <1>3 DEF Undisturbed
  <2>2. fs'[Outputs(c)[1]] = fs[Outputs(c)[1]] /\ fs'[Outputs(c)[2]] = fs[Outputs(c)[2]]
    BY <2>1, PairOfPaths
  <2>3. \A q \in Shell : Same(q) \/ ~HalfWay(q)' \/ cmd'[q] = cmd[q]
    BY DEF Leaves
  <2> QED
    BY <1>1, <1>3, <2>1, <2>2, <2>3, PairKept
<1> QED
  BY <1>2, <1>3, OutputsInvAsNext

\* A command that ends, and was not half-way or has its outputs disturbed.
LEMMA ExitQuiet ==
  ASSUME SafetyInv, OutputsInv, NEW p \in Shell, NEW code \in Ended, Exit(p, code),
         disturbed \subseteq disturbed', fs' = fs, recovered' = recovered,
         HalfWay(p) => Range(Outputs(cmd[p])) \subseteq disturbed'
  PROVE  OutputsInv'
<1>1. \A q \in Shell : Same(q) \/ (q = p /\ pc'[q] \in Ended)
  BY DEF Exit, SafetyInv, TypeOK, ProcessTypeOK, Same
<1>2. \A q \in Shell : Same(q) \/ (Leaves(q) /\ OutputsInOrder(q)')
  BY <1>1 DEF Leaves, HalfWay, OutputsInOrder, Ended
<1>3. RecoveredOK'
  BY DEF OutputsInv, RecoveredOK
<1> QED
  BY <1>2, <1>3, QuietStep

LEMMA FailQuiet ==
  ASSUME SafetyInv, OutputsInv, NEW p \in Shell, Fail(p), pc[p] \notin {"open", "write", "rest"}
  PROVE  OutputsInv'
BY ExitQuiet DEF Fail, Ended, history, HalfWay

LEMMA ProceedQuiet ==
  ASSUME SafetyInv, OutputsInv, NEW p \in Shell, pc[p] \notin {"open", "write", "rest"},
         NEW to, to \in {"prompt", "unsealed", "file", "sig"},
         NEW holding, Proceed(p, to, holding), UNCHANGED history
  PROVE  OutputsInv'
<1>1. \A q \in Shell : Same(q) \/ (q = p /\ pc'[q] = to)
  BY DEF Proceed, SafetyInv, TypeOK, ProcessTypeOK, Same
<1>2. \A q \in Shell : Same(q) \/ (Leaves(q) /\ OutputsInOrder(q)')
  BY <1>1 DEF Leaves, HalfWay, OutputsInOrder
<1>3. RecoveredOK'
  BY DEF OutputsInv, RecoveredOK, history
<1>4. fs' = fs /\ disturbed' = disturbed
  BY DEF Proceed
<1> QED
  BY <1>2, <1>3, <1>4, QuietStep

\* A command that has all of its outputs to write.
LEMMA StartWritingQuiet ==
  ASSUME SafetyInv, OutputsInv, NEW p \in Shell, pc[p] \notin {"open", "write", "rest"},
         cmd[p] \in Command, NEW docs, StartWriting(p, docs), RecoveredOK',
         \/ Len(Outputs(cmd[p])) = 1 /\ \E d : docs = <<d>>
         \/ Len(Outputs(cmd[p])) = 2 /\ \E d, e : docs = <<d, e>> /\ MatchingDocs(d, e)
  PROVE  OutputsInv'
<1> DEFINE files  == Outputs(cmd[p])
           listed == [i \in DOMAIN docs |-> [path |-> files[i], doc |-> docs[i]]]
<1>1. /\ pc' = [pc EXCEPT ![p] = "open"] /\ out' = [out EXCEPT ![p] = listed]
      /\ fs' = fs /\ cmd' = cmd /\ disturbed' = disturbed
  BY DEF StartWriting
<1>2. pc'[p] = "open" /\ out'[p] = listed /\ \A q \in Shell : q # p => Same(q)
  BY <1>1 DEF SafetyInv, TypeOK, ProcessTypeOK, Same
<1>3. /\ Len(listed) = Len(files)
      /\ Len(files) = 1 => listed[1].path = files[1]
      /\ Len(files) = 2 => /\ listed[1].path = files[1] /\ listed[2].path = files[2]
                           /\ MatchingDocs(listed[1].doc, listed[2].doc)
      /\ Len(files) \in {1, 2}
  <2>1. CASE Len(files) = 1 /\ \E d : docs = <<d>>
    <3>1. PICK d : docs = <<d>>
      BY <2>1
    <3>2. listed = <<[path |-> files[1], doc |-> d]>>
      BY <3>1
    <3> QED
      BY <2>1, <3>2
  <2>2. CASE Len(files) = 2 /\ \E d, e : docs = <<d, e>> /\ MatchingDocs(d, e)
    <3>1. PICK d, e : docs = <<d, e>> /\ MatchingDocs(d, e)
      BY <2>2
    <3>2. listed = <<[path |-> files[1], doc |-> d], [path |-> files[2], doc |-> e]>>
      BY <3>1
    <3> QED
      BY <2>2, <3>1, <3>2
  <2> QED
    BY <2>1, <2>2
<1> HIDE DEF listed
<1>4. OutputsInOrder(p)'
  BY <1>1, <1>2, <1>3 DEF OutputsInOrder, OutPath
<1>5. Leaves(p)
  BY <1>1, <1>2, <1>3 DEF Leaves, HalfWay
<1> QED
  BY <1>1, <1>2, <1>4, <1>5, QuietStep

-----------------------------------------------------------------------------
(* The commands until they write. *)

LEMMA StartOutputs ==
  ASSUME SafetyInv, OutputsInv, NEW p \in Shell, NEW c \in Command, Start(p, c)
  PROVE  OutputsInv'
<1>1. /\ pc[p] \in Ended /\ pc' = [pc EXCEPT ![p] = "begin"] /\ cmd' = [cmd EXCEPT ![p] = c]
      /\ fs' = fs /\ out' = out /\ disturbed' = disturbed /\ recovered' = recovered
  BY DEF Start, Running, history
<1>2. \A q \in Shell : Same(q) \/ (q = p /\ pc'[q] = "begin")
  BY <1>1 DEF SafetyInv, TypeOK, ProcessTypeOK, Same
<1>3. \A q \in Shell : Same(q) \/ (Leaves(q) /\ OutputsInOrder(q)')
  BY <1>1, <1>2 DEF Leaves, HalfWay, OutputsInOrder, Ended
<1>4. RecoveredOK'
  BY <1>1 DEF OutputsInv, RecoveredOK
<1> QED
  BY <1>1, <1>3, <1>4, QuietStep

\* keygen: the bundle and the public key are of one key pair.
LEMMA KeygenOutputs ==
  ASSUME SafetyInv, OutputsInv, NEW p \in Shell, cmd_keygen(p)
  PROVE  OutputsInv'
<1> DEFINE level == parse_level(cmd[p].level)
           kp == generate(cmd[p].algo, level.val, draws)
           docs(pass) == <<BundleDoc(seal(kp, pass, draws)),
                           PemDoc(public_key_to_pem(public_key(kp)))>>
<1>1. pc[p] = "begin" /\ cmd[p].name = "keygen" /\ cmd[p] \in Command
  BY DEF cmd_keygen, SafetyInv, TypeOK, ProcessTypeOK, CommandTypeOK, Running, Ended
<1>2. PICK pass, confirm \in Passphrase \cup {NoPassphrase} :
        \/ Fail(p)
        \/ /\ level.ok /\ prompt_new_passphrase(pass, confirm).ok
           /\ StartWriting(p, docs(prompt_new_passphrase(pass, confirm).val))
           /\ draws' = draws + 1 /\ UNCHANGED history
  BY Zenon DEF cmd_keygen
<1>3. CASE Fail(p)
  BY <1>1, <1>3, FailQuiet
<1>4. CASE /\ level.ok /\ prompt_new_passphrase(pass, confirm).ok
           /\ StartWriting(p, docs(prompt_new_passphrase(pass, confirm).val))
           /\ draws' = draws + 1 /\ UNCHANGED history
  <2>1. PICK typed : typed = prompt_new_passphrase(pass, confirm).val
    OBVIOUS
  <2>2. StartWriting(p, docs(typed))
    BY <1>4, <2>1
  <2>3. PICK n \in Nat : n = draws
    BY DEF SafetyInv, TypeOK, HistoryTypeOK
  <2>4. PICK x : x = kp
    OBVIOUS
  <2>5. /\ BundleDoc(seal(x, typed, n)).kind = "bundle"
        /\ BundleDoc(seal(x, typed, n)).bundle.ciphertext.data.pk = x.pk_bytes
    BY SealedBundle DEF BundleDoc
  <2>6. /\ PemDoc(public_key_to_pem(public_key(x))).kind = "pem"
        /\ PemDoc(public_key_to_pem(public_key(x))).pem.bytes = x.pk_bytes
    BY DEF PemDoc, public_key_to_pem, public_key
  <2>7. MatchingDocs(BundleDoc(seal(x, typed, n)), PemDoc(public_key_to_pem(public_key(x))))
    BY <2>5, <2>6 DEF MatchingDocs
  <2>8. docs(typed) = <<BundleDoc(seal(x, typed, n)), PemDoc(public_key_to_pem(public_key(x)))>>
    BY <2>3, <2>4
  <2>9. Len(Outputs(cmd[p])) = 2
    BY <1>1, OutputsType
  <2>10. RecoveredOK'
    BY <1>4 DEF OutputsInv, RecoveredOK, history
  <2> HIDE DEF docs
  <2> QED
    BY <1>1, <2>2, <2>7, <2>8, <2>9, <2>10, StartWritingQuiet
<1> QED
  BY <1>2, <1>3, <1>4

\* encapsulate: the ciphertext and the secret are of one encapsulation.
LEMMA EncapsulateOutputs ==
  ASSUME SafetyInv, OutputsInv, NEW p \in Shell, cmd_encapsulate(p)
  PROVE  OutputsInv'
<1> DEFINE pem == pem_in(fs[cmd[p].key])
           pub == public_key_from_pem("kem", pem.val)
           enc == encapsulate(pub.val, draws)
           docs == <<HexDoc(enc.val.ct), HexDoc(enc.val.secret)>>
<1>1. pc[p] = "begin" /\ cmd[p].name = "encapsulate" /\ cmd[p] \in Command
  BY DEF cmd_encapsulate, SafetyInv, TypeOK, ProcessTypeOK, CommandTypeOK, Running, Ended
<1>2. CASE Fail(p)
  BY <1>1, <1>2, FailQuiet
<1>3. CASE enc.ok /\ StartWriting(p, docs) /\ recovered' = recovered
  <2> HIDE DEF pub
  <2>1. /\ enc.val.ct = CtBytes(pub.val.bytes, pub.val.level, draws)
        /\ enc.val.secret = SsBytes(pub.val.bytes, draws)
    BY <1>3 DEF encapsulate, Ok, Err
  <2> HIDE DEF enc
  <2>2. MatchingDocs(HexDoc(enc.val.ct), HexDoc(enc.val.secret))
    BY <2>1 DEF MatchingDocs, HexDoc, CtBytes, SsBytes
  <2>3. Len(Outputs(cmd[p])) = 2
    BY <1>1, OutputsType
  <2>4. RecoveredOK'
    BY <1>3 DEF OutputsInv, RecoveredOK
  <2> QED
    BY <1>1, <1>3, <2>2, <2>3, <2>4, StartWritingQuiet
<1> QED
  BY <1>2, <1>3 DEF cmd_encapsulate

LEMMA DecapsulateOutputs ==
  ASSUME SafetyInv, OutputsInv, NEW p \in Shell, cmd_decapsulate(p)
  PROVE  OutputsInv'
<1> DEFINE ct == hex_decode(fs[cmd[p].ct])
           secret == decapsulate(local[p], ct.val)
           docs == <<HexDoc(secret.val)>>
           r == [kp |-> local[p], ct |-> ct.val, secret |-> secret.val]
<1>1. pc[p] = "unsealed" /\ cmd[p].name = "decapsulate" /\ cmd[p] \in Command
  BY DEF cmd_decapsulate, SafetyInv, TypeOK, ProcessTypeOK, CommandTypeOK, Running, Ended
<1>2. CASE Fail(p)
  BY <1>1, <1>2, FailQuiet
<1>3. CASE secret.ok /\ StartWriting(p, docs) /\ recovered' = recovered \cup {r}
  <2> HIDE DEF ct
  <2>1. decapsulate(r.kp, r.ct) = Ok(r.secret)
    BY <1>3 DEF decapsulate, Ok, Err
  <2> HIDE DEF r
  <2>2. RecoveredOK'
    BY <1>3, <2>1 DEF OutputsInv, RecoveredOK
  <2>3. Len(Outputs(cmd[p])) = 1
    BY <1>1, OutputsType
  <2> QED
    BY <1>1, <1>3, <2>2, <2>3, StartWritingQuiet
<1> QED
  BY <1>2, <1>3 DEF cmd_decapsulate

LEMMA SignOutputs ==
  ASSUME SafetyInv, OutputsInv, NEW p \in Shell, cmd_sign(p)
  PROVE  OutputsInv'
<1> DEFINE signature == sign(local[p], fs[cmd[p].file].doc.msg)
           docs == <<HexDoc(signature.val)>>
<1>1. pc[p] = "unsealed" /\ cmd[p].name = "sign" /\ cmd[p] \in Command
  BY DEF cmd_sign, SafetyInv, TypeOK, ProcessTypeOK, CommandTypeOK, Running, Ended
<1>2. CASE Fail(p)
  BY <1>1, <1>2, FailQuiet
<1>3. CASE StartWriting(p, docs) /\ recovered' = recovered
  <2>1. RecoveredOK' /\ Len(Outputs(cmd[p])) = 1
    BY <1>1, <1>3, OutputsType DEF OutputsInv, RecoveredOK
  <2> QED
    BY <1>1, <1>3, <2>1, StartWritingQuiet
<1> QED
  BY <1>2, <1>3 DEF cmd_sign

\* The steps that only read.
LEMMA ReadingOutputs ==
  ASSUME SafetyInv, OutputsInv, NEW p \in Shell,
         ReadBundle(p) \/ Unseal(p) \/ VerifyReadKey(p) \/ VerifyReadFile(p)
  PROVE  OutputsInv'
<1>1. pc[p] \notin {"open", "write", "rest"}
  BY DEF ReadBundle, Unseal, VerifyReadKey, VerifyReadFile
<1>2. \/ Fail(p)
      \/ \E to \in {"prompt", "unsealed", "file", "sig"} : \E holding :
           Proceed(p, to, holding) /\ UNCHANGED history
  BY Zenon DEF ReadBundle, Unseal, VerifyReadKey, VerifyReadFile
<1> QED
  BY <1>1, <1>2, FailQuiet, ProceedQuiet

\* The steps that end a command which writes nothing, and those that stop one.
LEMMA EndingOutputs ==
  ASSUME SafetyInv, OutputsInv, NEW p \in Shell, cmd_verify(p) \/ cmd_inspect(p)
  PROVE  OutputsInv'
<1>1. pc[p] \notin {"open", "write", "rest"}
  BY DEF cmd_verify, cmd_inspect
<1>2. PICK code \in Ended : Exit(p, code) /\ UNCHANGED <<fs, disturbed, recovered>>
  BY DEF cmd_verify, cmd_inspect, Fail, Ended, history
<1>3. ~HalfWay(p)
  BY <1>1 DEF HalfWay
<1> QED
  BY <1>2, <1>3, ExitQuiet

LEMMA StopOutputs ==
  ASSUME SafetyInv, OutputsInv, NEW p \in Shell, NEW code \in Ended, Stop(p, code)
  PROVE  OutputsInv'
<1>1. /\ Exit(p, code) /\ fs' = fs /\ recovered' = recovered
      /\ disturbed \subseteq disturbed'
      /\ HalfWay(p) => Range(Outputs(cmd[p])) \subseteq disturbed'
  BY DEF Stop, history
<1> QED
  BY <1>1, ExitQuiet

LEMMA EditMessageOutputs ==
  ASSUME SafetyInv, OutputsInv, NEW f \in MsgPath, NEW m \in Message, EditMessage(f, m)
  PROVE  OutputsInv'
<1>1. /\ \A g \in Path \ MsgPath : fs'[g] = fs[g]
      /\ \A q \in Shell : Same(q)
      /\ disturbed' = disturbed /\ recovered' = recovered
  BY DEF EditMessage, process, history, Same, SafetyInv, TypeOK, FilesTypeOK
<1>2. RecoveredOK'
  BY <1>1 DEF OutputsInv, RecoveredOK
<1> QED
  BY <1>1, <1>2, QuietStep

-----------------------------------------------------------------------------
(* The steps of fs::write. *)

\* The files of another pair are not written, so only the writer's own pair is at stake.
LEMMA WritingStep ==
  ASSUME SafetyInv, OutputsInv, NEW p \in Shell, pc[p] \in {"open", "write", "rest"},
         \A q \in Shell : q # p => Same(q), cmd'[p] = cmd[p] \/ ~HalfWay(p)',
         \A f \in Path : f # OutPath(p) => fs'[f] = fs[f],
         recovered' = recovered, OutputsInOrder(p)',
         \A c \in Command :
           Undisturbed(c)' /\ Outputs(cmd[p]) # Outputs(c) => Undisturbed(c),
         \A c \in Command :
           /\ Undisturbed(c)' /\ Outputs(cmd[p]) = Outputs(c)
           /\ Undisturbed(c) => PairInv(c)
           => PairInv(c)'
  PROVE  OutputsInv'
<1>1. /\ \A q \in Shell : OutputsInOrder(q)
      /\ \A c \in Command : Undisturbed(c) => PairInv(c)
  BY OutputsInvAs
<1>2. \A q \in Shell : OutputsInOrder(q)'
  BY <1>1 DEF Same, OutputsInOrder, OutPath
<1>3. RecoveredOK'
  BY OutputsInvAs DEF RecoveredOK
<1>4. ASSUME NEW c \in Command, Undisturbed(c)' PROVE PairInv(c)'
  <2>2. CASE Outputs(cmd[p]) = Outputs(c)
    BY <1>1, <1>4, <2>2
  <2>3. CASE Outputs(cmd[p]) # Outputs(c)
    <3> /\ Undisturbed(c) /\ Len(Outputs(c)) = 2 /\ OwnOutputs(c) /\ PairInv(c)
      BY <1>1, <1>4, <2>3 DEF Undisturbed
    <3>1. cmd[p] \in Command /\ OutPath(p) \in Range(Outputs(cmd[p]))
      BY <1>1, WritesItsOwn
    <3>2. OutPath(p) \notin Range(Outputs(c))
      BY <2>3, <3>1 DEF OwnOutputs
    <3>3. fs'[Outputs(c)[1]] = fs[Outputs(c)[1]] /\ fs'[Outputs(c)[2]] = fs[Outputs(c)[2]]
      BY <3>2, PairOfPaths
    <3>4. \A q \in Shell : Same(q) \/ Leaves(q) \/ Outputs(cmd[q]) # Outputs(c)
      BY <2>3
    <3>5. \A q \in Shell : Same(q) \/ ~HalfWay(q)' \/ cmd'[q] = cmd[q]
      OBVIOUS
    <3> QED
      BY <1>1, <1>4, <3>3, <3>4, <3>5, PairKept
  <2> QED
    BY <2>2, <2>3
<1> QED
  BY <1>2, <1>3, <1>4, OutputsInvAsNext

\* Where a command is with the two files of c.
LEMMA AtItsPair ==
  ASSUME NEW p \in Shell, OutputsInOrder(p), pc[p] \in {"open", "write", "rest"},
         NEW c \in Command, Len(Outputs(c)) = 2, OwnOutputs(c), Outputs(cmd[p]) = Outputs(c)
  PROVE  /\ Len(Outputs(c)) = 2 /\ Outputs(c)[1] # Outputs(c)[2]
         /\ Range(Outputs(c)) = {Outputs(c)[1], Outputs(c)[2]}
         /\ \/ Len(out[p]) = 1 /\ OutPath(p) = Outputs(c)[2]
            \/ /\ Len(out[p]) = 2 /\ OutPath(p) = Outputs(c)[1]
               /\ out[p][2].path = Outputs(c)[2] /\ MatchingDocs(OutDoc(p), out[p][2].doc)
BY PairOfPaths DEF OutputsInOrder, OutPath, OutDoc

\* The command that opens a file and leaves its pair undisturbed is the only one half-way
\* with it; what the pair was before matters for the second of its files alone.
LEMMA OpenOutPair ==
  ASSUME SafetyInv, NEW p \in Shell, OutputsInOrder(p), OpenOut(p), NEW c \in Command,
         Undisturbed(c)', Undisturbed(c) => PairInv(c), Outputs(cmd[p]) = Outputs(c)
  PROVE  PairInv(c)'
<1> DEFINE O == Outputs(c)
<1>1. /\ pc[p] = "open" /\ fs' = [fs EXCEPT ![OutPath(p)] = Truncated]
      /\ pc' = [pc EXCEPT ![p] = "write"] /\ cmd' = cmd /\ out' = out
  BY DEF OpenOut
<1>2. /\ Len(O) = 2 /\ O[1] # O[2] /\ Range(O) = {O[1], O[2]}
      /\ \/ Len(out[p]) = 1 /\ OutPath(p) = O[2]
         \/ Len(out[p]) = 2 /\ OutPath(p) = O[1]
  BY <1>1, AtItsPair DEF Undisturbed
<1>3. Disturbs(p) = {}
  <2>1. SUFFICES ASSUME Disturbs(p) # {} PROVE FALSE
    OBVIOUS
  <2>2. Range(Outputs(cmd[p])) \subseteq disturbed'
    BY <2>1 DEF OpenOut, DisturbedBy
  <2> QED
    BY <1>2, <2>2 DEF Undisturbed
<1>4. ASSUME NEW q \in Shell, q # p PROVE q \notin Writers(c)
  BY <1>2, <1>3, <1>4 DEF Disturbs, Writers
<1>5. /\ pc'[p] = "write" /\ \A q \in Shell : q # p => pc'[q] = pc[q]
      /\ OutPath(p)' = OutPath(p) /\ OutDoc(p)' = OutDoc(p)
      /\ fs'[OutPath(p)] = Truncated /\ (OutPath(p) # O[1] => fs'[O[1]] = fs[O[1]])
  <2>1. OutPath(p) \in Path
    BY <1>1, WritingType DEF SafetyInv, TypeOK
  <2> QED
    BY <1>1, <2>1 DEF OutPath, OutDoc, SafetyInv, TypeOK, ProcessTypeOK, FilesTypeOK
<1>6. Writers(c)' = {p}
  <2>1. \A q \in Shell : q \in Writers(c)' <=> q = p
    BY <1>1, <1>4, <1>5 DEF Writers, HalfWay
  <2> QED
    BY <2>1 DEF Writers
<1>7. Len(out'[p]) = 1 => Intact(fs'[O[1]]) /\ MatchingDocs(fs'[O[1]].doc, OutDoc(p)')
  <2>1. SUFFICES ASSUME Len(out[p]) = 1
                 PROVE  Intact(fs'[O[1]]) /\ MatchingDocs(fs'[O[1]].doc, OutDoc(p)')
    BY <1>1
  <2>2. p \in Writers(c)
    <3>1. Len(Outputs(cmd[p])) = 2
      BY <1>2
    <3>2. HalfWay(p)
      BY <1>1, <2>1, <3>1 DEF HalfWay
    <3> QED
      BY <3>2 DEF Writers
  <2>3. HalfWay(p)
    BY <2>2 DEF Writers
  <2>4. PairInv(c)
    BY <1>3, <2>3 DEF OpenOut, DisturbedBy, Undisturbed
  <2>5. Intact(fs[O[1]]) /\ MatchingDocs(fs[O[1]].doc, OutDoc(p))
    BY <2>1, <2>2, <2>4 DEF PairInv
  <2> QED
    BY <1>2, <1>5, <2>1, <2>5
<1> QED
  BY <1>5, <1>6, <1>7 DEF PairInv

LEMMA FirstBlockPair ==
  ASSUME SafetyInv, NEW p \in Shell, OutputsInOrder(p), WriteFirstBlock(p), NEW c \in Command,
         Undisturbed(c), PairInv(c), Outputs(cmd[p]) = Outputs(c)
  PROVE  PairInv(c)'
<1> DEFINE O == Outputs(c)
<1>1. PICK file : file = FirstBlockOver(fs[OutPath(p)], OutDoc(p))
  OBVIOUS
<1>2. /\ pc[p] = "write" /\ DocLen(OutDoc(p)) > BLOCK
      /\ fs' = [fs EXCEPT ![OutPath(p)] = file]
      /\ pc' = [pc EXCEPT ![p] = "rest"] /\ cmd' = cmd /\ out' = out
  BY <1>1 DEF WriteFirstBlock
<1>3. /\ Len(O) = 2 /\ O[1] # O[2]
      /\ \/ Len(out[p]) = 1 /\ OutPath(p) = O[2]
         \/ Len(out[p]) = 2 /\ OutPath(p) = O[1]
  BY <1>2, AtItsPair DEF Undisturbed
<1>4. p \in Writers(c) /\ \A q \in Writers(c) : q = p
  BY <1>2 DEF Writers, HalfWay, PairInv
<1>5. fs[OutPath(p)] = Truncated
  BY <1>2, <1>4 DEF PairInv
<1>6. file = File(OutDoc(p), BLOCK)
  BY <1>1, <1>5 DEF FirstBlockOver, Truncated, File, Longer, BLOCK
<1>7. /\ pc'[p] = "rest" /\ \A q \in Shell : q # p => pc'[q] = pc[q]
      /\ OutPath(p)' = OutPath(p) /\ OutDoc(p)' = OutDoc(p)
      /\ fs'[OutPath(p)] = file /\ (OutPath(p) # O[1] => fs'[O[1]] = fs[O[1]])
  <2>1. OutPath(p) \in Path
    BY <1>2, WritingType DEF SafetyInv, TypeOK
  <2> QED
    BY <1>2, <2>1 DEF OutPath, OutDoc, SafetyInv, TypeOK, ProcessTypeOK, FilesTypeOK
<1>8. Writers(c)' = {p}
  <2>1. \A q \in Shell : q \in Writers(c)' <=> q = p
    BY <1>2, <1>4, <1>7 DEF Writers, HalfWay
  <2> QED
    BY <2>1 DEF Writers
<1>9. Len(out'[p]) = 1 => Intact(fs'[O[1]]) /\ MatchingDocs(fs'[O[1]].doc, OutDoc(p)')
  <2>1. SUFFICES ASSUME Len(out[p]) = 1
                 PROVE  Intact(fs'[O[1]]) /\ MatchingDocs(fs'[O[1]].doc, OutDoc(p)')
    BY <1>2
  <2>2. Intact(fs[O[1]]) /\ MatchingDocs(fs[O[1]].doc, OutDoc(p))
    BY <1>4, <2>1 DEF PairInv
  <2> QED
    BY <1>3, <1>7, <2>1, <2>2
<1> QED
  BY <1>2, <1>6, <1>7, <1>8, <1>9 DEF PairInv

\* The last block of a file nobody else touched makes it the whole document.
LEMMA WriteAllPair ==
  ASSUME SafetyInv, NEW p \in Shell, OutputsInOrder(p), WriteAll(p), NEW c \in Command,
         Undisturbed(c), PairInv(c), Outputs(cmd[p]) = Outputs(c)
  PROVE  PairInv(c)'
<1> DEFINE O == Outputs(c)
<1>1. PICK file : file = WrittenOver(fs[OutPath(p)], OutDoc(p))
  OBVIOUS
<1>2. pc[p] \in {"write", "rest"} /\ fs' = [fs EXCEPT ![OutPath(p)] = file]
  BY <1>1 DEF WriteAll
<1>3. \/ /\ Len(out[p]) > 1 /\ pc' = [pc EXCEPT ![p] = "open"]
         /\ out' = [out EXCEPT ![p] = Tail(@)] /\ cmd' = cmd
      \/ ~(Len(out[p]) > 1) /\ Exit(p, "exit0")
  BY DEF WriteAll
<1>4. /\ Len(O) = 2 /\ O[1] # O[2]
      /\ \/ Len(out[p]) = 1 /\ OutPath(p) = O[2]
         \/ /\ Len(out[p]) = 2 /\ OutPath(p) = O[1]
            /\ MatchingDocs(OutDoc(p), out[p][2].doc)
  BY <1>2, AtItsPair DEF Undisturbed
<1>5. p \in Writers(c) /\ \A q \in Writers(c) : q = p
  BY <1>2 DEF Writers, HalfWay, PairInv
<1>6. \/ fs[OutPath(p)] = Truncated
      \/ DocLen(OutDoc(p)) > BLOCK /\ fs[OutPath(p)] = File(OutDoc(p), BLOCK)
  BY <1>2, <1>5 DEF PairInv
<1>7. /\ DocLen(OutDoc(p)) \in Nat /\ OutPath(p) \in Path
      /\ out[p] \in Seq([path : Path \ MsgPath, doc : OutDocType]) /\ out[p] # <<>>
  BY <1>2, WritesItsOwn
<1>8. file.doc = OutDoc(p) /\ Intact(file)
  <2>1. OutDoc(p).kind \in {"bundle", "pem", "hex"}
    BY <1>2, WritesItsOwn DEF OutDocType
  <2> QED
    BY <1>1, <1>6, <1>7, <2>1 DEF WrittenOver, Truncated, File, Longer, BLOCK, Intact
<1>9. fs'[OutPath(p)] = file /\ \A f \in Path : f # OutPath(p) => fs'[f] = fs[f]
  BY <1>2, <1>7 DEF SafetyInv, TypeOK, FilesTypeOK
<1>10. O[1] \in Path /\ O[2] \in Path
  BY <1>4, PairOfPaths
<1>11. \A q \in Shell : q # p => pc'[q] = pc[q] /\ cmd'[q] = cmd[q] /\ out'[q] = out[q]
  BY <1>3 DEF Exit, SafetyInv, TypeOK, ProcessTypeOK
<1>12. CASE Len(out[p]) = 2
  <2>1. /\ pc'[p] = "open" /\ out'[p] = Tail(out[p]) /\ cmd'[p] = cmd[p]
    BY <1>3, <1>12 DEF SafetyInv, TypeOK, ProcessTypeOK
  <2>2. Len(Tail(out[p])) = 1 /\ Tail(out[p])[1] = out[p][2]
    BY <1>7, <1>12, HeadTailProperties
  <2>3. OutDoc(p)' = out[p][2].doc
    BY <2>1, <2>2 DEF OutDoc
  <2>4. Writers(c)' = {p}
    <3>1. Len(Outputs(cmd'[p])) = 2 /\ Outputs(cmd'[p]) = O /\ Len(out'[p]) = 1
      BY <1>4, <2>1, <2>2
    <3>2. HalfWay(p)'
      BY <2>1, <3>1 DEF HalfWay
    <3>3. p \in Writers(c)'
      BY <3>1, <3>2 DEF Writers
    <3>4. \A q \in Shell : q # p => q \notin Writers(c)'
      BY <1>5, <1>11 DEF Writers, HalfWay
    <3>5. \A q \in Shell : q \in Writers(c)' <=> q = p
      BY <3>3, <3>4
    <3> QED
      BY <3>5 DEF Writers
  <2>5. Intact(fs'[O[1]]) /\ MatchingDocs(fs'[O[1]].doc, OutDoc(p)')
    BY <1>4, <1>8, <1>9, <1>12, <2>3
  <2> QED
    BY <2>1, <2>4, <2>5 DEF PairInv
<1>13. CASE Len(out[p]) = 1
  <2>1. pc'[p] = "exit0"
    BY <1>3, <1>13 DEF Exit, SafetyInv, TypeOK, ProcessTypeOK
  <2>2. Writers(c)' = {}
    BY <1>5, <1>11, <2>1 DEF Writers, HalfWay
  <2>3. Intact(fs[O[1]]) /\ MatchingDocs(fs[O[1]].doc, OutDoc(p))
    BY <1>5, <1>13 DEF PairInv
  <2>4. fs'[O[1]] = fs[O[1]] /\ fs'[O[2]] = file
    BY <1>4, <1>9, <1>10, <1>13
  <2>5. SameOrigin(fs'[O[1]], fs'[O[2]])
    BY <1>8, <2>3, <2>4 DEF SameOrigin
  <2> QED
    BY <2>2, <2>5 DEF PairInv
<1> QED
  BY <1>4, <1>12, <1>13

LEMMA OpenOutOutputs ==
  ASSUME SafetyInv, OutputsInv, NEW p \in Shell, OpenOut(p)
  PROVE  OutputsInv'
<1>1. /\ pc[p] = "open" /\ fs' = [fs EXCEPT ![OutPath(p)] = Truncated]
      /\ pc' = [pc EXCEPT ![p] = "write"] /\ cmd' = cmd /\ out' = out
      /\ disturbed' = DisturbedBy(p) /\ recovered' = recovered
  BY DEF OpenOut, history
<1>2. \A q \in Shell : OutputsInOrder(q)
  BY OutputsInvAs
<1>3. \A q \in Shell : q # p => Same(q)
  BY <1>1 DEF Same, SafetyInv, TypeOK, ProcessTypeOK
<1>4. \A f \in Path : f # OutPath(p) => fs'[f] = fs[f]
  BY <1>1 DEF SafetyInv, TypeOK, FilesTypeOK
<1>5. OutputsInOrder(p)'
  BY <1>1, <1>2 DEF OutputsInOrder, OutPath
<1>6. \A c \in Command :
        /\ Undisturbed(c)' /\ Outputs(cmd[p]) = Outputs(c)
        /\ Undisturbed(c) => PairInv(c)
        => PairInv(c)'
  BY <1>2, OpenOutPair
<1>7. ASSUME NEW c \in Command, Undisturbed(c)', Outputs(cmd[p]) # Outputs(c)
      PROVE  Undisturbed(c)
  <2>1. cmd[p] \in Command
    BY <1>1, <1>2, WritesItsOwn
  <2>2. Len(Outputs(c)) = 2 /\ OwnOutputs(c)
    BY <1>7 DEF Undisturbed
  <2>3. Range(Outputs(c)) \cap Range(Outputs(cmd[p])) = {}
    BY <1>7, <2>1, <2>2 DEF OwnOutputs
  <2>4. Outputs(c)[1] \notin Range(Outputs(cmd[p])) /\ Outputs(c)[2] \notin Range(Outputs(cmd[p]))
    BY <2>2, <2>3, PairOfPaths
  <2>5. disturbed \ Range(Outputs(cmd[p])) \subseteq disturbed'
    BY <1>1 DEF DisturbedBy
  <2> QED
    BY <1>7, <2>4, <2>5 DEF Undisturbed
<1> QED
  BY <1>1, <1>3, <1>4, <1>5, <1>6, <1>7, WritingStep

LEMMA FirstBlockOutputs ==
  ASSUME SafetyInv, OutputsInv, NEW p \in Shell, WriteFirstBlock(p)
  PROVE  OutputsInv'
<1>1. /\ pc[p] = "write" /\ pc' = [pc EXCEPT ![p] = "rest"] /\ cmd' = cmd /\ out' = out
      /\ disturbed' = disturbed /\ recovered' = recovered
      /\ \A f \in Path : f # OutPath(p) => fs'[f] = fs[f]
  BY DEF WriteFirstBlock, history, SafetyInv, TypeOK, FilesTypeOK
<1>2. \A q \in Shell : OutputsInOrder(q)
  BY OutputsInvAs
<1>3. \A q \in Shell : q # p => Same(q)
  BY <1>1 DEF Same, SafetyInv, TypeOK, ProcessTypeOK
<1>4. OutputsInOrder(p)'
  BY <1>1, <1>2 DEF OutputsInOrder, OutPath
<1>5. \A c \in Command : Undisturbed(c)' => Undisturbed(c)
  BY <1>1 DEF Undisturbed
<1>6. \A c \in Command :
        /\ Undisturbed(c)' /\ Outputs(cmd[p]) = Outputs(c)
        /\ Undisturbed(c) => PairInv(c)
        => PairInv(c)'
  BY <1>2, <1>5, FirstBlockPair
<1> QED
  BY <1>1, <1>3, <1>4, <1>5, <1>6, WritingStep

\* The second of two files is what is left to write after the first.
LEMMA WriteAllOutputs ==
  ASSUME SafetyInv, OutputsInv, NEW p \in Shell, WriteAll(p)
  PROVE  OutputsInv'
<1>1. /\ pc[p] \in {"write", "rest"} /\ disturbed' = disturbed /\ recovered' = recovered
      /\ \A f \in Path : f # OutPath(p) => fs'[f] = fs[f]
  BY DEF WriteAll, Written, SafetyInv, TypeOK, FilesTypeOK
<1>2. \/ /\ Len(out[p]) > 1 /\ pc' = [pc EXCEPT ![p] = "open"]
         /\ out' = [out EXCEPT ![p] = Tail(@)] /\ cmd' = cmd
      \/ ~(Len(out[p]) > 1) /\ Exit(p, "exit0")
  BY DEF WriteAll
<1>3. \A q \in Shell : OutputsInOrder(q)
  BY OutputsInvAs
<1>4. \A q \in Shell : q # p => Same(q)
  BY <1>2 DEF Exit, Same, SafetyInv, TypeOK, ProcessTypeOK
<1>5. OutputsInOrder(p)' /\ (cmd'[p] = cmd[p] \/ ~HalfWay(p)')
  <2>1. CASE Len(out[p]) > 1
    <3>1. pc'[p] = "open" /\ out'[p] = Tail(out[p]) /\ cmd' = cmd
      BY <1>2, <2>1 DEF SafetyInv, TypeOK, ProcessTypeOK
    <3>2. /\ Len(out[p]) = 2 /\ Len(Outputs(cmd[p])) = 2
          /\ out[p][2].path = Outputs(cmd[p])[2]
      BY <1>1, <1>3, <2>1 DEF OutputsInOrder
    <3>3. Len(Tail(out[p])) = 1 /\ Tail(out[p])[1] = out[p][2]
      <4>1. out[p] \in Seq([path : Path \ MsgPath, doc : OutDocType]) /\ out[p] # <<>>
        BY <1>1, <1>3, WritesItsOwn
      <4> QED
        BY <3>2, <4>1, HeadTailProperties
    <3> QED
      BY <3>1, <3>2, <3>3 DEF OutputsInOrder, OutPath
  <2>2. CASE ~(Len(out[p]) > 1)
    <3>1. pc'[p] = "exit0"
      BY <1>2, <2>2 DEF Exit, SafetyInv, TypeOK, ProcessTypeOK
    <3> QED
      BY <3>1 DEF OutputsInOrder, HalfWay
  <2> QED
    BY <2>1, <2>2
<1>6. \A c \in Command : Undisturbed(c)' => Undisturbed(c)
  BY <1>1 DEF Undisturbed
<1>7. \A c \in Command :
        /\ Undisturbed(c)' /\ Outputs(cmd[p]) = Outputs(c)
        /\ Undisturbed(c) => PairInv(c)
        => PairInv(c)'
  BY <1>3, <1>6, WriteAllPair
<1> QED
  BY <1>1, <1>4, <1>5, <1>6, <1>7, WritingStep

-----------------------------------------------------------------------------
(* The theorems. *)

\* No output exists at first, and nobody is half-way with one.
LEMMA InitOutputs == Init => OutputsInv
<1> SUFFICES ASSUME Init PROVE OutputsInv
  OBVIOUS
<1>1. \A p \in Shell : pc[p] = "new"
  BY DEF Init
<1>2. \A p \in Shell : OutputsInOrder(p) /\ ~HalfWay(p)
  BY <1>1 DEF OutputsInOrder, HalfWay
<1>3. \A f \in Path \ MsgPath : ~Exists(fs[f])
  <2>1. \A f \in Path \ MsgPath : fs[f] = NoFile
    BY DEF Init
  <2> QED
    BY <2>1 DEF Exists, NoFile, File, MissingDoc
<1>4. ASSUME NEW c \in Command, Undisturbed(c) PROVE PairInv(c)
  <2>1. Writers(c) = {}
    BY <1>2 DEF Writers
  <2>2. ~Exists(fs[Outputs(c)[1]]) /\ ~Exists(fs[Outputs(c)[2]])
    BY <1>3, <1>4, PairOfPaths DEF Undisturbed
  <2> QED
    BY <2>1, <2>2 DEF PairInv, SameOrigin
<1>5. RecoveredOK
  BY DEF Init, RecoveredOK
<1> QED
  BY <1>2, <1>4, <1>5, OutputsInvAs

LEMMA NextOutputs ==
  ASSUME SafetyInv, OutputsInv, [Next]_vars
  PROVE  OutputsInv'
<1>1. CASE UNCHANGED vars
  <2>1. \A q \in Shell : Same(q)
    BY <1>1 DEF vars, process, Same
  <2>2. fs' = fs /\ disturbed' = disturbed /\ RecoveredOK'
    BY <1>1 DEF vars, history, OutputsInv, RecoveredOK
  <2> QED
    BY <2>1, <2>2, QuietStep
<1>2. ASSUME NEW p \in Shell, NEW c \in Command, Start(p, c) PROVE OutputsInv'
  BY <1>2, StartOutputs
<1>3. ASSUME NEW p \in Shell, Step(p) PROVE OutputsInv'
  BY <1>3, KeygenOutputs, EncapsulateOutputs, DecapsulateOutputs, SignOutputs, ReadingOutputs,
     EndingOutputs, OpenOutOutputs, FirstBlockOutputs, WriteAllOutputs DEF Step
<1>4. ASSUME NEW p \in Shell, IoError(p) \/ Kill(p) PROVE OutputsInv'
  BY <1>4, StopOutputs DEF IoError, Kill, Ended
<1>5. ASSUME NEW f \in MsgPath, NEW m \in Message, EditMessage(f, m) PROVE OutputsInv'
  BY <1>5, EditMessageOutputs
<1>6. \/ UNCHANGED vars
      \/ \E p \in Shell : \/ \E c \in Command : Start(p, c)
                         \/ Step(p) \/ IoError(p) \/ Kill(p)
      \/ \E f \in MsgPath : \E m \in Message : EditMessage(f, m)
  BY Zenon DEF Next
<1> QED
  BY <1>1, <1>2, <1>3, <1>4, <1>5, <1>6

\* Behind the two theorems below: at every step at most one command is half-way with a pair
\* of files that no failed or overlapping fs::write has touched (pqc-vault.rs:198-204,
\* 216-222, 242-243), and then its first file is whole before the second is opened.
THEOREM OutputsAreInOrder == Spec => []OutputsInv
<1>1. Init => OutputsInv
  BY InitOutputs
<1>2. SafetyInv /\ OutputsInv /\ [Next]_vars => OutputsInv'
  BY NextOutputs
<1> QED
  BY <1>1, <1>2, Safety, PTL DEF Spec

\* A settled pair of output files comes from one run: the bundle and the .pub of a keygen
\* hold the same key, and the ciphertext and the secret of an encapsulate belong together,
\* whatever pairs were there before.
THEOREM FilesBelongTogether == Spec => []SettledOutputsMatch
<1>1. OutputsInv => SettledOutputsMatch
  <2>1. SUFFICES ASSUME OutputsInv, NEW c \in PairCommands, Quiet(Range(Outputs(c)))
                 PROVE  SameOrigin(fs[Outputs(c)[1]], fs[Outputs(c)[2]])
    BY DEF SettledOutputsMatch
  <2>2. PairInv(c)
    BY <2>1 DEF OutputsInv, Quiet
  <2>3. Writers(c) = {}
    <3>1. Range(Outputs(c)) # {}
      BY PairOfPaths DEF PairCommands
    <3> QED
      BY <2>1, <3>1 DEF Writers, Quiet
  <2> QED
    BY <2>2, <2>3 DEF PairInv
<1> QED
  BY <1>1, OutputsAreInOrder, PTL

\* A document of a file that reads as hexadecimal digits is one.
LEMMA HexFile ==
  ASSUME NEW f \in FileType, f.doc.kind = "hex", Intact(f)
  PROVE  f = Whole(HexDoc(f.doc.bytes))
<1>1. f.doc = HexDoc(f.doc.bytes)
  BY DEF FileType, DocType, OutDocType, HexDoc, MissingDoc, EmptyDoc, MixedDoc
<1>2. f = [doc |-> f.doc, len |-> f.len]
  BY DEF FileType
<1> QED
  BY <1>1, <1>2 DEF Whole, File, Intact

\* The secret file of a decapsulate is the one beside the ciphertext it was decapsulated
\* from, when the key is the one the ciphertext was made for and that pair is settled: the
\* two users of pqc-vault.rs:231-275 end up with the same secret on their disks.
THEOREM ExchangesAgree == Spec => []ExchangeAgrees
<1>1. SafetyInv /\ OutputsInv /\ SettledOutputsMatch => ExchangeAgrees
  <2>1. SUFFICES ASSUME SafetyInv, OutputsInv, SettledOutputsMatch,
                        NEW e \in PairCommands, NEW d \in Command, e.name = "encapsulate",
                        Quiet(Range(Outputs(e))), RecoveredFrom(e, d)
                 PROVE  fs[e.secret_out] = fs[d.secret_out]
    BY DEF ExchangeAgrees
  <2>2. PICK r \in recovered : /\ fs[e.ct_out] = Whole(HexDoc(r.ct))
                               /\ fs[d.secret_out] = Whole(HexDoc(r.secret))
                               /\ PkBytes(r.kp.sk_bytes.key) = r.ct.pk
    BY <2>1 DEF RecoveredFrom
  <2>3. Outputs(e) = <<e.ct_out, e.secret_out>>
    BY <2>1 DEF Outputs
  <2>4. SameOrigin(fs[e.ct_out], fs[e.secret_out])
    <3>1. Len(Outputs(e)) = 2 /\ Outputs(e)[1] = e.ct_out /\ Outputs(e)[2] = e.secret_out
      BY <2>3
    <3>2. SameOrigin(fs[Outputs(e)[1]], fs[Outputs(e)[2]])
      BY <2>1, <3>1 DEF SettledOutputsMatch
    <3> QED
      BY <3>1, <3>2
  <2>5. /\ r.ct.tag = "ct" /\ Intact(fs[e.secret_out]) /\ fs[e.secret_out].doc.kind = "hex"
        /\ fs[e.secret_out].doc.bytes = SsBytes(r.ct.pk, r.ct.rnd)
    BY <2>2, <2>4 DEF SameOrigin, MatchingDocs, Whole, File, HexDoc, Exists
  <2>6. fs[e.secret_out] \in FileType
    <3>1. Outputs(e) \in Seq(Path \ MsgPath)
      BY OutputsType DEF PairCommands
    <3>2. e.secret_out \in Path
      BY <2>3, <3>1, PairOfPaths DEF PairCommands
    <3> QED
      BY <2>1, <3>2 DEF SafetyInv, TypeOK, FilesTypeOK
  <2>7. fs[e.secret_out] = Whole(HexDoc(SsBytes(r.ct.pk, r.ct.rnd)))
    BY <2>5, <2>6, HexFile
  <2>8. r.secret = SsBytes(r.ct.pk, r.ct.rnd)
    <3>1. r.kp.sk_bytes.tag = "sk"
      BY <2>1 DEF SafetyInv, TypeOK, HistoryTypeOK, KeyPair, SkString
    <3>2. Ok(r.secret) = decapsulate(r.kp, r.ct)
      BY <2>1 DEF OutputsInv
    <3>3. r.secret = kyber_decapsulate(r.ct, r.kp.sk_bytes)
      BY <3>2 DEF decapsulate, Ok, Err
    <3> QED
      BY <2>2, <2>5, <3>1, <3>3 DEF kyber_decapsulate
  <2> QED
    BY <2>2, <2>7, <2>8
<1> QED
  BY <1>1, Safety, OutputsAreInOrder, FilesBelongTogether, PTL
=============================================================================
