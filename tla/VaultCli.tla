------------------------------- MODULE VaultCli -------------------------------
(***************************************************************************)
(* src/bin/pqc-vault.rs: the commands, as processes that share a file      *)
(* system.  A shell runs one command at a time; a command reads its input  *)
(* files, prompts, computes, and writes its output files one after the     *)
(* other with fs::write.  No file is locked and none is renamed into       *)
(* place, so the commands of two shells interleave at every read and       *)
(* write, and a command may be killed, or a call may fail, between any two.*)
(***************************************************************************)
EXTENDS Files, Sequences, Functions

CONSTANTS
  Shell,        \* the processes
  Path,
  MsgPath,      \* the paths of files that are signed; only their user writes them
  PubPath,      \* pub_path: [Path -> Path], out to out.pub
  Message,      \* what a signed file may hold
  Passphrase,   \* what may be typed at a prompt that is not empty
  Command,      \* the command lines
  MaxCommands,  \* bound: commands started in a behaviour
  MayFail       \* whether commands may be killed and calls may fail

\* The empty line at a passphrase prompt.
NoPassphrase == ""

KeygenCommand ==
  [name : {"keygen"}, algo : Algo, level : 0..255, out : Path]
EncapsulateCommand ==
  [name : {"encapsulate"}, key : Path, ct_out : Path, secret_out : Path]
DecapsulateCommand ==
  [name : {"decapsulate"}, key : Path, ct : Path, secret_out : Path]
SignCommand   == [name : {"sign"}, key : Path, file : MsgPath, sig_out : Path]
VerifyCommand == [name : {"verify"}, key : Path, file : MsgPath, sig : Path]
InspectCommand == [name : {"inspect"}, key : Path]

NoCommand == [name |-> "none"]

\* The files a command writes, in the order it writes them.
Outputs(c) ==
  IF c.name = "keygen" THEN <<c.out, PubPath[c.out]>>
  ELSE IF c.name = "encapsulate" THEN <<c.ct_out, c.secret_out>>
  ELSE IF c.name = "decapsulate" THEN <<c.secret_out>>
  ELSE IF c.name = "sign" THEN <<c.sig_out>>
  ELSE <<>>

\* The kinds of documents they are.
OutputKinds(c) ==
  IF c.name = "keygen" THEN <<"bundle", "pem">>
  ELSE IF c.name = "encapsulate" THEN <<"hex", "hex">>
  ELSE <<"hex">>

ASSUME CommandAssumption ==
  Command \subseteq KeygenCommand \cup EncapsulateCommand \cup DecapsulateCommand
                      \cup SignCommand \cup VerifyCommand \cup InspectCommand
ASSUME PathAssumption ==
  /\ PubPath \in [Path -> Path]
  /\ MsgPath \subseteq Path
  /\ \A c \in Command : Range(Outputs(c)) \cap MsgPath = {}
\* No path is an output of two kinds: nobody writes a signature over a bundle.
ASSUME OneKindAssumption ==
  \A c, d \in Command : \A i \in DOMAIN Outputs(c), j \in DOMAIN Outputs(d) :
    Outputs(c)[i] = Outputs(d)[j] => OutputKinds(c)[i] = OutputKinds(d)[j]
ASSUME PassphraseAssumption == NoPassphrase \notin Passphrase
ASSUME BoundAssumption == MaxCommands \in Nat /\ MayFail \in BOOLEAN

VARIABLES
  fs,         \* the file system: path to file
  pc,         \* where each shell's command is; an ended one's exit code
  cmd,        \* its command line
  local,      \* what it holds between two steps: a file it read, a key, ...
  out,        \* what it has yet to write: a sequence of [path, doc]
  runs,       \* number of commands started
  draws,      \* entropy drawn: every draw is fresh
  disturbed,  \* paths whose writer was stopped half-way or overlapped by another, until
              \* the next run of their writer starts on them alone
  stored, published, signed, verdicts, sent, recovered  \* what happened, see VaultService

process == <<pc, cmd, local, out>>
history == <<stored, published, signed, verdicts, sent, recovered>>
vars == <<fs, process, runs, draws, disturbed, history>>

Ended == {"new", "exit0", "exit1", "exit2", "killed"}
Running(p) == pc[p] \notin Ended

Init ==
  /\ \E content \in [MsgPath -> Message] :
       fs = [f \in Path |-> IF f \in MsgPath THEN Whole(MsgDoc(content[f])) ELSE NoFile]
  /\ pc = [p \in Shell |-> "new"]
  /\ cmd = [p \in Shell |-> NoCommand]
  /\ local = [p \in Shell |-> <<>>]
  /\ out = [p \in Shell |-> <<>>]
  /\ runs = 0 /\ draws = 0 /\ disturbed = {}
  /\ stored = {} /\ published = {} /\ signed = {}
  /\ verdicts = {} /\ sent = {} /\ recovered = {}

-----------------------------------------------------------------------------
(* Control of one process. *)

Start(p, c) ==
  /\ ~Running(p)
  /\ runs < MaxCommands
  /\ runs' = runs + 1
  /\ pc' = [pc EXCEPT ![p] = "begin"]
  /\ cmd' = [cmd EXCEPT ![p] = c]
  /\ UNCHANGED <<fs, local, out, draws, disturbed, history>>

Exit(p, code) ==
  /\ pc' = [pc EXCEPT ![p] = code]
  /\ cmd' = [cmd EXCEPT ![p] = NoCommand]
  /\ local' = [local EXCEPT ![p] = <<>>]
  /\ out' = [out EXCEPT ![p] = <<>>]

\* main prints the error and exits with 1.
Fail(p) == Exit(p, "exit1") /\ UNCHANGED <<fs, runs, draws, disturbed, history>>

Proceed(p, to, holding) ==
  /\ pc' = [pc EXCEPT ![p] = to]
  /\ local' = [local EXCEPT ![p] = holding]
  /\ UNCHANGED <<fs, cmd, out, runs, disturbed>>

StartWriting(p, docs) ==
  /\ pc' = [pc EXCEPT ![p] = "open"]
  /\ local' = [local EXCEPT ![p] = <<>>]
  /\ out' = [out EXCEPT ![p] =
               [i \in DOMAIN docs |-> [path |-> Outputs(cmd[p])[i], doc |-> docs[i]]]]
  /\ UNCHANGED <<fs, cmd, runs, disturbed>>

-----------------------------------------------------------------------------
(* keygen *)

parse_level(n) ==
  CASE n = 1 -> Ok("Level1")
    [] n = 3 -> Ok("Level3")
    [] n = 5 -> Ok("Level5")
    [] OTHER -> Err("Invalid security level")

prompt_new_passphrase(pass, confirm) ==
  IF pass = NoPassphrase THEN Err("Passphrase cannot be empty")
  ELSE IF pass # confirm THEN Err("Passphrases do not match")
  ELSE Ok(pass)

prompt_passphrase(pass) ==
  IF pass = NoPassphrase THEN Err("Passphrase cannot be empty") ELSE Ok(pass)

\* Mutation: the public key is written where the bundle should go first.
cmd_keygen_pub_first(p) ==
  /\ pc[p] = "begin" /\ cmd[p].name = "keygen"
  /\ LET level == parse_level(cmd[p].level)
         kp == generate(cmd[p].algo, level.val, draws)
     IN  IF ~level.ok THEN Fail(p)
         ELSE \E pass \in Passphrase :
                /\ StartWriting(p, <<PemDoc(public_key_to_pem(public_key(kp))),
                                     BundleDoc(seal(kp, pass, draws))>>)
                /\ draws' = draws + 1
                /\ UNCHANGED history

\* Mutation: the bundle and the public key come from two calls of generate.
cmd_keygen_twice(p) ==
  /\ pc[p] = "begin" /\ cmd[p].name = "keygen"
  /\ LET level == parse_level(cmd[p].level)
         kp  == generate(cmd[p].algo, level.val, draws)
         kp2 == generate(cmd[p].algo, level.val, draws + 1)
     IN  IF ~level.ok THEN Fail(p)
         ELSE \E pass \in Passphrase :
                /\ StartWriting(p, <<BundleDoc(seal(kp, pass, draws)),
                                     PemDoc(public_key_to_pem(public_key(kp2)))>>)
                /\ draws' = draws + 1
                /\ UNCHANGED history

\* The bundle goes first, then the public key: --pub-key cannot be turned off.
cmd_keygen(p) ==
  /\ pc[p] = "begin" /\ cmd[p].name = "keygen"
  /\ \E pass, confirm \in Passphrase \cup {NoPassphrase} :
       LET level == parse_level(cmd[p].level)
           typed == prompt_new_passphrase(pass, confirm)
       IN  IF ~level.ok \/ ~typed.ok THEN Fail(p)
           ELSE LET kp == generate(cmd[p].algo, level.val, draws)
                IN  /\ StartWriting(p, <<BundleDoc(seal(kp, typed.val, draws)),
                                         PemDoc(public_key_to_pem(public_key(kp)))>>)
                    /\ draws' = draws + 1
                    /\ UNCHANGED history

-----------------------------------------------------------------------------
(* encapsulate *)

\* Mutation: the secret written is that of a second encapsulation.
cmd_encapsulate_twice(p) ==
  /\ pc[p] = "begin" /\ cmd[p].name = "encapsulate"
  /\ LET pem == pem_in(fs[cmd[p].key])
         pub == public_key_from_pem("kem", pem.val)
         enc == encapsulate(pub.val, draws)
     IN  IF ~pem.ok THEN Fail(p)
         ELSE IF ~pub.ok THEN Fail(p)
         ELSE /\ StartWriting(p, <<HexDoc(enc.val.ct),
                                   HexDoc(encapsulate(pub.val, draws + 1).val.secret)>>)
              /\ draws' = draws + 1
              /\ sent' = sent \cup {enc.val.secret}
              /\ UNCHANGED <<stored, published, signed, verdicts, recovered>>

cmd_encapsulate(p) ==
  /\ pc[p] = "begin" /\ cmd[p].name = "encapsulate"
  /\ LET pem == pem_in(fs[cmd[p].key])
         pub == public_key_from_pem("kem", pem.val)
         enc == encapsulate(pub.val, draws)
     IN  IF ~pem.ok THEN Fail(p)
         ELSE IF ~pub.ok THEN Fail(p)
         ELSE IF ~enc.ok THEN Fail(p)
         ELSE /\ StartWriting(p, <<HexDoc(enc.val.ct), HexDoc(enc.val.secret)>>)
              /\ draws' = draws + 1
              /\ sent' = sent \cup {enc.val.secret}
              /\ UNCHANGED <<stored, published, signed, verdicts, recovered>>

-----------------------------------------------------------------------------
(* decapsulate and sign: both read the bundle, then prompt, then unseal what they read *)
(* before the prompt, and only then read the other input.                              *)

ReadBundle(p) ==
  /\ pc[p] = "begin" /\ cmd[p].name \in {"decapsulate", "sign"}
  /\ LET f == fs[cmd[p].key]
     IN  IF ~Exists(f) THEN Fail(p)
         ELSE Proceed(p, "prompt", f) /\ UNCHANGED <<draws, history>>

KeyType(c) == IF c.name = "decapsulate" THEN "kem" ELSE "dsa"

\* prompt_passphrase, from_json and unseal_kem or unseal_dsa, on the text in `local`.
Unseal(p) ==
  /\ pc[p] = "prompt"
  /\ \E pass \in Passphrase \cup {NoPassphrase} :
       LET typed == prompt_passphrase(pass)
           bundle == from_json(local[p])
           kp == unseal(bundle.val, KeyType(cmd[p]), typed.val)
       IN  IF ~typed.ok THEN Fail(p)
           ELSE IF ~bundle.ok THEN Fail(p)
           ELSE IF ~kp.ok THEN Fail(p)
           ELSE Proceed(p, "unsealed", kp.val) /\ UNCHANGED <<draws, history>>

cmd_decapsulate(p) ==
  /\ pc[p] = "unsealed" /\ cmd[p].name = "decapsulate"
  /\ LET ct == hex_decode(fs[cmd[p].ct])
         secret == decapsulate(local[p], ct.val)
     IN  IF ~ct.ok THEN Fail(p)
         ELSE IF ~secret.ok THEN Fail(p)
         ELSE /\ StartWriting(p, <<HexDoc(secret.val)>>)
              /\ recovered' = recovered \cup
                   {[kp |-> local[p], ct |-> ct.val, secret |-> secret.val]}
              /\ UNCHANGED <<draws, stored, published, signed, verdicts, sent>>

cmd_sign(p) ==
  /\ pc[p] = "unsealed" /\ cmd[p].name = "sign"
  /\ LET message == fs[cmd[p].file].doc.msg
         signature == sign(local[p], message)
     IN  IF ~signature.ok THEN Fail(p)
         ELSE /\ StartWriting(p, <<HexDoc(signature.val)>>)
              /\ signed' = signed \cup
                   {[key |-> local[p].sk_bytes.key, msg |-> message]}
              /\ UNCHANGED <<draws, stored, published, verdicts, sent, recovered>>

-----------------------------------------------------------------------------
(* verify: three files read one after the other. *)

VerifyReadKey(p) ==
  /\ pc[p] = "begin" /\ cmd[p].name = "verify"
  /\ LET pem == pem_in(fs[cmd[p].key])
         pub == public_key_from_pem("dsa", pem.val)
     IN  IF ~pem.ok THEN Fail(p)
         ELSE IF ~pub.ok THEN Fail(p)
         ELSE Proceed(p, "file", pub.val) /\ UNCHANGED <<draws, history>>

VerifyReadFile(p) ==
  /\ pc[p] = "file"
  /\ Proceed(p, "sig", [pub |-> local[p], msg |-> fs[cmd[p].file].doc.msg])
  /\ UNCHANGED <<draws, history>>

\* Mutation: only VerificationFailed counts as invalid, not the other errors.
cmd_verify_lenient(p) ==
  /\ pc[p] = "sig"
  /\ LET sig == hex_decode(fs[cmd[p].sig])
         result == verify_with_typed_key(local[p].pub, local[p].msg, sig.val)
         valid == IF result.ok THEN TRUE ELSE result.err # "VerificationFailed"
     IN  IF ~sig.ok THEN Fail(p)
         ELSE /\ Exit(p, IF valid THEN "exit0" ELSE "exit2")
              /\ verdicts' = verdicts \cup
                   {[pub |-> local[p].pub, msg |-> local[p].msg,
                     sig |-> sig.val, valid |-> valid]}
              /\ UNCHANGED <<fs, runs, draws, disturbed,
                             stored, published, signed, sent, recovered>>

\* Every error of the verification itself, a signature of the wrong length included, is
\* reported as an invalid signature with exit code 2.
cmd_verify(p) ==
  /\ pc[p] = "sig"
  /\ LET sig == hex_decode(fs[cmd[p].sig])
         valid == verify_with_typed_key(local[p].pub, local[p].msg, sig.val).ok
     IN  IF ~sig.ok THEN Fail(p)
         ELSE /\ Exit(p, IF valid THEN "exit0" ELSE "exit2")
              /\ verdicts' = verdicts \cup
                   {[pub |-> local[p].pub, msg |-> local[p].msg,
                     sig |-> sig.val, valid |-> valid]}
              /\ UNCHANGED <<fs, runs, draws, disturbed,
                             stored, published, signed, sent, recovered>>

-----------------------------------------------------------------------------
(* inspect: the header of a bundle is printed without a passphrase (Serial!inspect); any     *)
(* other JSON is an unknown one, and only what is not JSON is an error.                      *)

cmd_inspect(p) ==
  /\ pc[p] = "begin" /\ cmd[p].name = "inspect"
  /\ \E json \in may_be_json(fs[cmd[p].key]) :
       IF json
         THEN Exit(p, "exit0") /\ UNCHANGED <<fs, runs, draws, disturbed, history>>
         ELSE Fail(p)

-----------------------------------------------------------------------------
(* fs::write of the first of out[p]. *)

OutPath(p) == out[p][1].path
OutDoc(p)  == out[p][1].doc

\* One write(2) call is not interleaved with another open or write of the same file.
Locked(p) ==
  \E q \in Shell : q # p /\ pc[q] = "rest" /\ OutPath(q) = OutPath(p)

\* Some of p's outputs are written and some are not.
HalfWay(p) ==
  \/ pc[p] \in {"write", "rest"}
  \/ pc[p] = "open" /\ Len(out[p]) < Len(Outputs(cmd[p]))

\* The other commands that are half-way with an output of p.
Disturbs(p) ==
  {q \in Shell \ {p} :
     HalfWay(q) /\ Range(Outputs(cmd[p])) \cap Range(Outputs(cmd[q])) # {}}

\* Opening a file while others are half-way with it or its pair disturbs the outputs of all
\* of them.  A command that opens its first file with no other half-way starts afresh.
DisturbedBy(p) ==
  IF Disturbs(p) # {}
    THEN disturbed \cup UNION {Range(Outputs(cmd[q])) : q \in Disturbs(p) \cup {p}}
  ELSE IF HalfWay(p) THEN disturbed
  ELSE disturbed \ Range(Outputs(cmd[p]))

\* Mutation: the file is opened for writing but not truncated.
OpenOut_no_truncate(p) ==
  /\ pc[p] = "open" /\ ~Locked(p)
  /\ fs' = [fs EXCEPT ![OutPath(p)] = IF Exists(@) THEN @ ELSE Truncated]
  /\ pc' = [pc EXCEPT ![p] = "write"]
  /\ disturbed' = DisturbedBy(p)
  /\ UNCHANGED <<cmd, local, out, runs, draws, history>>

OpenOut(p) ==
  /\ pc[p] = "open" /\ ~Locked(p)
  /\ fs' = [fs EXCEPT ![OutPath(p)] = Truncated]
  /\ pc' = [pc EXCEPT ![p] = "write"]
  /\ disturbed' = DisturbedBy(p)
  /\ UNCHANGED <<cmd, local, out, runs, draws, history>>

WriteFirstBlock(p) ==
  /\ pc[p] = "write" /\ ~Locked(p)
  /\ DocLen(OutDoc(p)) > BLOCK
  /\ fs' = [fs EXCEPT ![OutPath(p)] = FirstBlockOver(@, OutDoc(p))]
  /\ pc' = [pc EXCEPT ![p] = "rest"]
  /\ UNCHANGED <<cmd, local, out, runs, draws, disturbed, history>>

\* What a completely written file adds to the history.
Written(d) ==
  /\ stored' = stored \cup
       IF d.kind = "bundle" THEN {d.bundle.ciphertext.data.pk.key} ELSE {}
  /\ published' = published \cup IF d.kind = "pem" THEN {d.pem.bytes.key} ELSE {}
  /\ UNCHANGED <<signed, verdicts, sent, recovered>>

\* Mutation: a buffered writer that is not flushed, so what is left of its last block (all
\* of a short document) never reaches the file.
WriteAll_unflushed(p) ==
  /\ \/ pc[p] = "rest"
     \/ pc[p] = "write" /\ ~Locked(p)
  /\ Written(OutDoc(p))
  /\ IF Len(out[p]) > 1
       THEN /\ pc' = [pc EXCEPT ![p] = "open"]
            /\ out' = [out EXCEPT ![p] = Tail(@)]
            /\ UNCHANGED <<cmd, local>>
       ELSE Exit(p, "exit0")
  /\ UNCHANGED <<fs, runs, draws, disturbed>>

\* The file is written; the command goes on to its next one or is done.
WriteAll(p) ==
  /\ \/ pc[p] = "rest"
     \/ pc[p] = "write" /\ ~Locked(p)
  /\ fs' = [fs EXCEPT ![OutPath(p)] = WrittenOver(@, OutDoc(p))]
  /\ Written(OutDoc(p))
  /\ IF Len(out[p]) > 1
       THEN /\ pc' = [pc EXCEPT ![p] = "open"]
            /\ out' = [out EXCEPT ![p] = Tail(@)]
            /\ UNCHANGED <<cmd, local>>
       ELSE Exit(p, "exit0")
  /\ UNCHANGED <<runs, draws, disturbed>>

-----------------------------------------------------------------------------
(* Failures, and the user of the signed files. *)

Stop(p, code) ==
  /\ MayFail /\ Running(p)
  /\ Exit(p, code)
  /\ disturbed' = disturbed \cup IF HalfWay(p) THEN Range(Outputs(cmd[p])) ELSE {}
  /\ UNCHANGED <<fs, runs, draws, history>>

\* A read, an open or a write that returns an error: main exits with 1.
IoError(p) == Stop(p, "exit1")

Kill(p) == Stop(p, "killed")

\* The user replaces a file to be signed or verified, at any time.
EditMessage(f, m) ==
  /\ fs' = [fs EXCEPT ![f] = Whole(MsgDoc(m))]
  /\ UNCHANGED <<process, runs, draws, disturbed, history>>

-----------------------------------------------------------------------------
Step(p) ==
  \/ cmd_keygen(p) \/ cmd_encapsulate(p)
  \/ ReadBundle(p) \/ Unseal(p) \/ cmd_decapsulate(p) \/ cmd_sign(p)
  \/ VerifyReadKey(p) \/ VerifyReadFile(p) \/ cmd_verify(p) \/ cmd_inspect(p)
  \/ OpenOut(p) \/ WriteFirstBlock(p) \/ WriteAll(p)

Next ==
  \/ \E p \in Shell :
       \/ \E c \in Command : Start(p, c)
       \/ Step(p) \/ IoError(p) \/ Kill(p)
  \/ \E f \in MsgPath, m \in Message : EditMessage(f, m)

Spec == Init /\ [][Next]_vars

\* A command that can go on does: the system schedules it and the user answers prompts.
FairSpec == Spec /\ \A p \in Shell : WF_vars(Step(p))

-----------------------------------------------------------------------------
(* Types. *)

Key == [algo : Algo, level : SecurityLevel, id : Nat]

PkString   == [tag : {"pk"}, key : Key, len : Nat]
SkString   == [tag : {"sk"}, key : Key, len : Nat]
JunkString == [tag : {"junk"}, len : Nat]
CtString   == [tag : {"ct"}, pk : PkString, rnd : Nat, len : Nat]
SsString   == [tag : {"ss"}, pk : PkString, rnd : Nat, len : {SHARED_SECRET}]
SigString  == [tag : {"sig"}, sk : SkString, msg : Message, len : Nat]
\* None of these is the secret of a rejected ciphertext.
PlainString == PkString \cup SkString \cup JunkString \cup CtString \cup SsString
                 \cup SigString
RejectedString ==
  [tag : {"rejected"}, sk : SkString, ct : PlainString, len : {SHARED_SECRET}]
ByteString == PlainString \cup RejectedString

KeyPair ==
  [algo : Algo, level : SecurityLevel, pk_bytes : PkString, sk_bytes : SkString]
PublicKey == [algo : Algo, level : SecurityLevel, bytes : PkString]

HexFieldType == [hex : {TRUE}, len : Nat, val : Nat]
PlaintextType == {d \in [pk_len : Nat, pk : PkString, sk : SkString] : d.pk_len = d.pk.len}
CiphertextType ==
  [hex : {TRUE}, authentic : {TRUE}, data : PlaintextType,
   key : [pass : Passphrase, salt_len : Nat, salt : Nat], nonce : Nat]
BundleType ==
  [version : Nat, kind : Algo, level : {1, 3, 5}, salt : HexFieldType,
   nonce : HexFieldType, ciphertext : CiphertextType]
PemType == [label : Algo, header : SecurityLevel, bytes : PkString]

OutDocType ==
  [kind : {"bundle"}, bundle : BundleType] \cup [kind : {"pem"}, pem : PemType]
    \cup [kind : {"hex"}, bytes : ByteString]
DocType ==
  OutDocType \cup [kind : {"msg"}, msg : Message] \cup {MissingDoc, EmptyDoc, MixedDoc}
FileType == [doc : DocType, len : Nat]

\* What a command holds at each point; an output list is as long as what is left to write.
LocalTypeOK(p) ==
  /\ pc[p] = "prompt" => local[p] \in FileType
  /\ pc[p] = "unsealed" => local[p] \in KeyPair
  /\ pc[p] = "file" => local[p] \in PublicKey
  /\ pc[p] = "sig" => local[p] \in [pub : PublicKey, msg : Message]
OutTypeOK(p) ==
  /\ out[p] \in Seq([path : Path \ MsgPath, doc : OutDocType])
  /\ pc[p] \in {"open", "write", "rest"} => out[p] # <<>>

CommandTypeOK(p) ==
  /\ cmd[p] \in Command \cup {NoCommand}
  /\ Running(p) => cmd[p] \in Command
  /\ pc[p] = "prompt" => cmd[p].name \in {"decapsulate", "sign"}
  /\ pc[p] \in {"file", "sig"} => cmd[p].name = "verify"

FilesTypeOK ==
  /\ fs \in [Path -> FileType]
  /\ \A f \in MsgPath : fs[f].doc.kind = "msg"

ProcessTypeOK ==
  /\ pc \in [Shell -> Ended \cup {"begin", "prompt", "unsealed", "file", "sig",
                                  "open", "write", "rest"}]
  /\ DOMAIN cmd = Shell /\ DOMAIN local = Shell /\ DOMAIN out = Shell
  /\ \A p \in Shell : LocalTypeOK(p) /\ OutTypeOK(p) /\ CommandTypeOK(p)

HistoryTypeOK ==
  /\ runs \in 0..MaxCommands /\ draws \in Nat
  /\ disturbed \subseteq Path
  /\ stored \subseteq Key /\ published \subseteq Key
  /\ signed \subseteq [key : Key, msg : Message]
  /\ verdicts \subseteq [pub : PublicKey, msg : Message, sig : ByteString, valid : BOOLEAN]
  /\ sent \subseteq SsString
  /\ recovered \subseteq [kp : KeyPair, ct : PlainString, secret : ByteString]

\* Every variable holds a value of its type; what a command holds fits the point it is
\* at; a file to be signed always holds a message.
TypeOK == FilesTypeOK /\ ProcessTypeOK /\ HistoryTypeOK

-----------------------------------------------------------------------------
(* Safety. *)

\* "Signature valid." (pqc-vault.rs:317) is printed only when a sign command signed this
\* message with the private half of the verifier's key, and that key was published by a
\* keygen, whatever the commands read while others were writing.
ValidMeansSigned ==
  \A v \in verdicts : v.valid =>
    /\ [key |-> v.pub.bytes.key, msg |-> v.msg] \in signed
    /\ v.pub.bytes.key \in published

\* A public key is on disk, even half replaced, only if its private key was once completely
\* on disk: keygen writes the bundle first (pqc-vault.rs:198,204 and 216,222).
PublishedIsStored ==
  /\ published \subseteq stored
  /\ \A f \in Path :
       fs[f].doc.kind = "pem" => fs[f].doc.pem.bytes.key \in stored

\* Every signature in a file, or about to be written to one, is of something signed.
SignaturesAreSigned ==
  LET Signed(d) == d.kind = "hex" /\ d.bytes.tag = "sig" =>
                     [key |-> d.bytes.sk.key, msg |-> d.bytes.msg] \in signed
  IN  /\ \A f \in Path : Signed(fs[f].doc)
      /\ \A p \in Shell : \A i \in DOMAIN out[p] : Signed(out[p][i].doc)

\* A public key that can be read from a file, or was, had been completely written.
ReadableIsPublished ==
  /\ \A f \in Path : pem_in(fs[f]).ok => fs[f].doc.pem.bytes.key \in published
  /\ \A p \in Shell :
       /\ pc[p] = "file" => local[p].bytes.key \in published
       /\ pc[p] = "sig" => local[p].pub.bytes.key \in published

\* A public key about to be written is that of a stored bundle, or of one written before.
BundleGoesFirst ==
  \A p \in Shell : \A i \in DOMAIN out[p] :
    out[p][i].doc.kind = "pem" =>
      \/ out[p][i].doc.pem.bytes.key \in stored
      \/ \E j \in DOMAIN out[p] :
           /\ j < i /\ out[p][j].doc.kind = "bundle"
           /\ out[p][j].doc.bundle.ciphertext.data.pk.key = out[p][i].doc.pem.bytes.key

\* The inductive invariant: what makes ValidMeansSigned and PublishedIsStored hold after
\* every step, from the files on disk to what each command has read and has yet to write.
SafetyInv ==
  /\ TypeOK
  /\ SignaturesAreSigned
  /\ ReadableIsPublished
  /\ BundleGoesFirst
  /\ ValidMeansSigned
  /\ PublishedIsStored

\* Two documents one run of a command writes.
MatchingDocs(d, e) ==
  \/ /\ d.kind = "bundle" /\ e.kind = "pem"
     /\ d.bundle.ciphertext.data.pk = e.pem.bytes
  \/ /\ d.kind = "hex" /\ e.kind = "hex"
     /\ d.bytes.tag = "ct" /\ e.bytes.tag = "ss"
     /\ SsBytes(d.bytes.pk, d.bytes.rnd) = e.bytes

\* The two files a command writes come from the same run of it.
SameOrigin(f, g) ==
  \/ ~Exists(f) /\ ~Exists(g)
  \/ Intact(f) /\ Intact(g) /\ MatchingDocs(f.doc, g.doc)

\* The outputs of c are different files, and commands that write some of these files write
\* all of them.
OwnOutputs(c) ==
  /\ \A i, j \in DOMAIN Outputs(c) : Outputs(c)[i] = Outputs(c)[j] => i = j
  /\ \A d \in Command :
       Range(Outputs(c)) \cap Range(Outputs(d)) # {} => Outputs(d) = Outputs(c)

\* The commands with a pair of files of their own.
PairCommands == {c \in Command : Len(Outputs(c)) = 2 /\ OwnOutputs(c)}

Quiet(files) ==
  /\ files \cap disturbed = {}
  /\ \A p \in Shell : HalfWay(p) => Range(Outputs(cmd[p])) \cap files = {}

\* A bundle and its .pub hold the same key (keygen), and a ciphertext and a secret file belong
\* together (encapsulate), whenever nobody is half-way with them, except from the moment a
\* writer of them is stopped half-way or overlapped by another (pqc-vault.rs:198,204,242)
\* until one run of theirs has gone through them alone: that run mends whatever the others
\* left there, mixed, cut short or of two generations.
SettledOutputsMatch ==
  \A c \in PairCommands :
    Quiet(Range(Outputs(c))) => SameOrigin(fs[Outputs(c)[1]], fs[Outputs(c)[2]])

\* What a command has yet to write is its last file, or both of its two.
OutputsInOrder(p) ==
  pc[p] \in {"open", "write", "rest"} =>
    LET files == Outputs(cmd[p])
    IN  \/ Len(out[p]) = 1 /\ Len(files) \in {1, 2} /\ OutPath(p) = files[Len(files)]
        \/ /\ Len(out[p]) = 2 /\ Len(files) = 2
           /\ out[p][1].path = files[1] /\ out[p][2].path = files[2]
           /\ MatchingDocs(out[p][1].doc, out[p][2].doc)

Writers(c) == {p \in Shell : HalfWay(p) /\ Outputs(cmd[p]) = Outputs(c)}

\* One command at most is half-way with the outputs of c.  While none is, they match; and
\* while one is, its first file is whole when it is at the second.
PairInv(c) ==
  LET first == fs[Outputs(c)[1]]
  IN  /\ \A p, q \in Writers(c) : p = q
      /\ Writers(c) = {} => SameOrigin(first, fs[Outputs(c)[2]])
      /\ \A p \in Writers(c) :
           /\ pc[p] = "write" => fs[OutPath(p)] = Truncated
           /\ pc[p] = "rest" => /\ DocLen(OutDoc(p)) > BLOCK
                                /\ fs[OutPath(p)] = File(OutDoc(p), BLOCK)
           /\ Len(out[p]) = 1 => Intact(first) /\ MatchingDocs(first.doc, OutDoc(p))

\* The inductive invariant behind SettledOutputsMatch and ExchangeAgrees.
OutputsInv ==
  /\ \A p \in Shell : OutputsInOrder(p)
  /\ \A c \in PairCommands : Range(Outputs(c)) \cap disturbed = {} => PairInv(c)
  /\ \A r \in recovered : decapsulate(r.kp, r.ct) = Ok(r.secret)

\* The secret file of d was decapsulated from the ciphertext file of e with the key that
\* ciphertext was made for.
RecoveredFrom(e, d) ==
  \E r \in recovered :
    /\ fs[e.ct_out] = Whole(HexDoc(r.ct)) /\ fs[d.secret_out] = Whole(HexDoc(r.secret))
    /\ PkBytes(r.kp.sk_bytes.key) = r.ct.pk

\* End to end over the files: when the recovered secret on disk was decapsulated from the
\* ciphertext on disk with the key that ciphertext was made for, it is the sender's secret,
\* and the sender's copy of it is the one beside the ciphertext.
ExchangeAgrees ==
  \A e \in PairCommands, d \in Command :
    /\ e.name = "encapsulate" /\ d.name = "decapsulate"
    /\ Quiet(Range(Outputs(e)))
    /\ RecoveredFrom(e, d)
    => fs[e.secret_out] = fs[d.secret_out]

\* pqc-vault.rs:322-323 explains exit code 2: "The file may have been modified, or the
\* wrong key was used".  So a message that was signed with this very key is not refused.
InvalidMeansModifiedOrWrongKey ==
  \A v \in verdicts :
    ~v.valid => [key |-> v.pub.bytes.key, msg |-> v.msg] \notin signed

-----------------------------------------------------------------------------
(* Refinement of VaultService. *)

SigId(bytes) == IF bytes.tag = "sig" THEN <<bytes.sk.key, bytes.msg>> ELSE <<>>
CtId(bytes)  == IF bytes.tag \in {"ct", "ss"} THEN <<bytes.pk.key, bytes.rnd>> ELSE <<>>

Service == INSTANCE VaultService WITH
  Keys      <- [algo : Algo, level : SecurityLevel, id : 0..MaxCommands],
  Messages  <- Message,
  Draws     <- 0..MaxCommands,
  signed    <- {<<s.key, s.msg>> : s \in signed},
  verdicts  <- {[key |-> v.pub.bytes.key, msg |-> v.msg, sig |-> SigId(v.sig),
                 valid |-> v.valid] : v \in verdicts},
  sent      <- {CtId(s) : s \in sent},
  recovered <- {[key |-> r.kp.sk_bytes.key, ct |-> CtId(r.ct), secret |-> CtId(r.secret)]
                  : r \in recovered}

\* The commands, interleaved and killed at any point, only ever do what the service
\* promises: keys are published after they are stored, only stored keys sign and
\* decapsulate, only published ones are used by others, verify answers as VaultService
\* does, and decapsulate gives the sender's secret to the right key and to no other.
ImplementsService == Service!Spec

-----------------------------------------------------------------------------
(* Liveness. *)

\* A file found empty, half written or mixed (verify, encapsulate and decapsulate read such
\* files as damaged ones, pqc-vault.rs:292,312) becomes a whole document again, or a writer
\* of it is stopped half-way or overlapped by another.  What such writers left damaged stays
\* so only until a next run opens it alone.
OutputsComplete ==
  \A f \in Path :
    Exists(fs[f]) /\ ~Intact(fs[f]) ~> Intact(fs[f]) \/ f \in disturbed
=============================================================================
