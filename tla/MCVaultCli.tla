----------------------------- MODULE MCVaultCli -----------------------------
(***************************************************************************)
(* Instances of VaultCli for TLC: the command lines of one exchange        *)
(* (keygen, encapsulate, decapsulate) and of one signature (keygen, sign,  *)
(* verify), each on one set of paths, so that every command can meet the   *)
(* files of every other, old, new or half written.                         *)
(***************************************************************************)
EXTENDS VaultCli, TLC

CONSTANTS s1, s2, hello, edited

ExchangePaths == {"alice.json", "alice.json.pub", "ct.hex", "sent.hex", "recovered.hex"}
SignPaths     == {"alice.json", "alice.json.pub", "document", "document.sig"}
DocumentPath  == {"document"}

\* Only keygen's --out has a public key beside it.
ExchangePub == [f \in ExchangePaths |-> IF f = "alice.json" THEN "alice.json.pub" ELSE f]
SignPub     == [f \in SignPaths |-> IF f = "alice.json" THEN "alice.json.pub" ELSE f]

KeygenLine(algo, level) ==
  [name |-> "keygen", algo |-> algo, level |-> level, out |-> "alice.json"]

EncapsulateLine ==
  [name |-> "encapsulate", key |-> "alice.json.pub",
   ct_out |-> "ct.hex", secret_out |-> "sent.hex"]
DecapsulateLine ==
  [name |-> "decapsulate", key |-> "alice.json",
   ct |-> "ct.hex", secret_out |-> "recovered.hex"]
SignLine ==
  [name |-> "sign", key |-> "alice.json", file |-> "document", sig_out |-> "document.sig"]
VerifyLine ==
  [name |-> "verify", key |-> "alice.json.pub", file |-> "document", sig |-> "document.sig"]

InspectLine == [name |-> "inspect", key |-> "alice.json"]

\* Level 5 documents are longer than level 1 ones.
ExchangeCommands ==
  {KeygenLine("kem", 1), KeygenLine("kem", 5), EncapsulateLine, DecapsulateLine}
SignCommands ==
  {KeygenLine("dsa", 1), SignLine, VerifyLine}
\* Keys of both algorithms take turns on the same paths; level 2 does not exist.
MixedCommands ==
  {KeygenLine("dsa", 1), KeygenLine("kem", 2), KeygenLine("kem", 5),
   SignLine, VerifyLine, InspectLine}

OnePassphrase == {"correct"}

Shells == Permutations({s1, s2})
=============================================================================
