# Verification of pqc-vault

pqc-vault is a Rust library of post-quantum keys (ML-KEM, ML-DSA, a hybrid exchange), an
encrypted format to keep them on disk, a PEM format to publish them, and a command-line tool
over both. This directory holds TLA+ models of it, TLC configurations and TLAPS proofs. Paths
and line numbers are those of the repository (`src/kem.rs:188` and so on).

## The system

| Part | State | Operations | Interacts with |
|---|---|---|---|
| `src/kem.rs` | typed keys: level and bytes | generate, public_key, encapsulate, decapsulate, export, from_bytes, from_validated | pqcrypto-kyber; every other part |
| `src/dsa.rs` | the same for signatures | generate, public_key, sign, verify, verify_with_typed_key, export, from_bytes, from_validated | pqcrypto-dilithium |
| `src/serial.rs` | an encrypted bundle: version, kind, level, salt, nonce, ciphertext | seal, unseal, to_json, from_json | kem, dsa; aes-gcm, argon2 |
| `src/pem.rs` | none | public keys to and from text | kem, dsa |
| `src/hybrid.rs` | X25519 and ML-KEM keys, a two-part ciphertext | generate, encapsulate, decapsulate, to_hex, from_hex | kem; x25519-dalek, hkdf |
| `src/bin/pqc-vault.rs` | none in memory; files are its only state | keygen, encapsulate, decapsulate, sign, verify, inspect | all of the above, through files that several commands share |
| `src/utils.rs`, `src/error.rs`, `src/lib.rs` | none | hex, ct_eq, error values, `SecurityLevel` | all |

The library is sequential and keeps no state of its own. What is hard is at its edges:

- **The commands share files with no lock, no temporary file and no rename.** `fs::write`
  truncates and then writes; keygen and encapsulate write two files one after the other; the
  key is read before a passphrase prompt that may take minutes and used after it; verify reads
  three files. Any of them can be replaced, half replaced or left half-way by a crash.
- **A bundle's header is not authenticated** by the cipher, nor does `from_bytes` relate the
  public to the secret key, so what an edited or spliced bundle gives depends on all the checks
  of unseal together.
- **The PEM decoder searches a text** for its first BEGIN and first END line, so what else the
  text holds (other documents, the tail of a longer file, lost lines) decides what it decodes.
- **A hybrid ciphertext is a bare line of hex**: no sender, number, checksum or length check of
  its own, and a combiner that does not hash the ciphertext; key holders may replace their keys
  while ciphertexts to the old ones are on their way.
- **Decapsulation never fails** for a ciphertext of the right length (implicit rejection), so
  a sequence of commands that all exit 0 can leave two different secrets.

What makes each part correct:

- keys: an operation accepts exactly the byte lengths of its level; sign/verify and
  encapsulate/decapsulate agree.
- bundle: what opens is exactly what was sealed, under that passphrase and as that kind; a
  damaged bundle is an error.
- plaintext codec: decoding is the inverse of encoding, in both directions.
- PEM: a whole document decodes to its key wherever it stands in a text; a body that lost lines
  gives no key under its own label and level.
- hybrid: both ends have the same secret exactly for the sender's own ciphertext and the key pair
  of the public key it was made for.
- commands: a key is published only after it is stored; "Signature valid." is only printed for
  what was signed; the files a command leaves belong together; a recovered secret is the
  sender's when it was recovered with the right key.

## Modules

| Module | Models | How it corresponds |
|---|---|---|
| `Primitives` | `kem.rs`, `dsa.rs` | one operator for each method, with an `algo` argument for the two copies of the same code. Byte strings are what they are (public key of k, ciphertext for pk with randomness r, junk, ...) and a length |
| `Serial` | `serial.rs`, what `inspect` prints | `seal`, `unseal`, `encrypt`, `decrypt`, `derive_key` and the codec; the checks are in the order of the code, and the panic of `Nonce::from_slice` is a result of its own |
| `KeyCodec` | the plaintext of a bundle, `serial.rs:273-321` | bytes, the four-byte prefix and the addition `4 + pk_len` in a usize of finite width |
| `Pem` | `pem.rs` | label, header level, validated bytes; the exact length of the text |
| `PemText` | `pem.rs:77-138` | a text is a sequence of lines: documents are appended, lines lost, inserted and edited; the decoder searches it as the code does. Decoding is compared with `Pem`'s |
| `Hybrid` | `hybrid.rs` | holders generate, replace and announce keys, anybody sends to any announced key, the network keeps every wire for ever and makes up others. Instantiates `VaultService` |
| `Files` | `std::fs::write`, and what the readers make of a file | a file is a document and a length: shorter than the document while it is written, longer when it was written over a longer one |
| `VaultCli` | `bin/pqc-vault.rs` | each shell is a process; each command is split where another process can see a difference: at each file read, each prompt, each open and each write. Instantiates `VaultService` |
| `VaultService` | the promise of the commands and of the hybrid exchange | no files and no processes: stored, published and signed sets, answers of verify and decapsulate |
| `BundleLife` | bundles at rest | seal, reseal, field damage, splices of two bundles, unseal |
| `MCVaultCli`, `MCBundleLife`, `MCHybrid`, `MCPemText`, `MCKeyCodec` | instances | paths, command lines, keys, sizes and symmetry for TLC |
| `VaultCliProofs`, `OutputProofs`, `VaultRefines` | proofs about `VaultCli` | the safety of one command at a time; the pairs of files; that it implements `VaultService` |
| `SerialProofs`, `BundleLifeProofs` | proofs about `Serial` and `BundleLife` | what seal, unseal and decapsulate return; the life of bundles |
| `KeyCodecProofs`, `HybridProofs`, `PemProofs` | proofs about `KeyCodec`, `Hybrid` and `PemText` | lemmas on the operators, the inductive invariants, the theorems |

`VaultCli` in detail. `pc[p]` is where the command of shell p is ("begin", "prompt", "unsealed",
"file", "sig", then "open", "write", "rest" for each output) or how the last one ended (exit
code, killed). `local[p]` is what it holds between two steps, `out[p]` the documents it has yet
to write. `cmd_keygen` is lines 186-197 and 210-215: parse the level, prompt twice, generate and
seal; its two `fs::write` calls are then `OpenOut`, `WriteFirstBlock` and `WriteAll`. `ReadBundle`
is lines 259/282, `Unseal` lines 260-264/283-287, `cmd_inspect` one step, as it reads one file
and prints. `IoError` and `Kill` stop a command anywhere.
The history variables (`stored`, `published`, `signed`, `verdicts`, `sent`, `recovered`) record
what the properties speak of, `disturbed` which paths had a writer stopped half-way or overlapped. It is a mark that heals: a
command that opens its first output while no other command is half-way with any of its outputs takes
the mark off all of them (`DisturbedBy`), so what the properties say of undisturbed pairs they also
say of every pair that was damaged and then written again by a run nobody stopped or overlapped.

Simplifications, each one chosen so that nothing the properties tell apart is lost:

- A read of a file is one step (`fs::read` loops, but the readers here are read once). Writes
  have two blocks of 4096 bytes: the only distinctions a reader can make are empty, a prefix,
  all, and a mixture. One `write(2)` call holds the inode's lock (`Locked`).
- Only documents longer than a block are written in two steps. `DocLen` is exact, so it is the
  sizes of the code that decide: bundles and ML-DSA signatures are, public keys are not.
- Two halves of two bundles count as invalid JSON; in reality they may parse, and then fail to
  decrypt. Both are exit code 1.
- The user's own edits of signed files are atomic. Other users' behaviour is not modelled.
- No path is an output of two kinds of documents (`OneKindAssumption`).
- Cryptography is ideal and randomness never repeats (`draws`).
- `Hybrid`: the hash of the combiner is injective. X25519 has no invalid points: any 32 bytes are
  a public key, and the top bit, which X25519 ignores, is kept apart so that a wire may differ in
  it alone. What was sent stays in `net`: receiving does not consume it, so loss, delay,
  repetition and reordering need no actions of their own.
- `PemText`: a body has as many lines as its length asks for, `LINE_BYTES` bytes in each, and any
  of them may be lost; whether the last is padded is that of the exact length. A text line is the set
  of level names in it (`LevelSets`), of which the decoder takes the first of the three, and stands
  for a header or for a comment. The white space of a line is left out, and a text line in a body is
  always invalid base64.
- `KeyCodec`: key bytes are arbitrary. Bytes and usize have as many values as the constants say
  (256 and 2^32 or 2^64 in the code); an overflow of the addition is a panic in both builds, at the
  addition with overflow checks and at the slice without.

## Runs

| Run | Instance | Checks |
|---|---|---|
| `cli_kem` | 2 shells, 4 commands out of keygen (level 1, level 5), encapsulate, decapsulate; any kills and errors | types, `PublishedIsStored`, `SettledOutputsMatch`, `ExchangeAgrees`, `OutputsInv` (the invariant the last two are proved from), `ImplementsService` |
| `cli_dsa` | 2 shells, 4 commands out of keygen, sign, verify; 2 messages, edits at any time | `ValidMeansSigned`, `SafetyInv` (the invariant the proofs use, types among it), `ImplementsService` |
| `cli_live` | 2 shells, 3 commands (inspect among them), ML-DSA level 1 and ML-KEM level 5 keys on the same paths | `OutputsComplete` under fairness |
| `bundle_damage` | 1 bundle, 3 changes of fields, 2 passphrases, all levels and kinds | `UnsealedWasSealed`, `InspectAgrees` |
| `bundle_splice` | 2 bundles, sealed or resealed, 1 change or splice | `UnsealedWasSealed`, `UntouchedOpens` |
| `cli_invalid` | 2 shells, 3 commands | `InvalidMeansModifiedOrWrongKey`, violated |
| `bundle_nonce` | 1 bundle, 1 change | `CorruptionIsAnError`, violated |
| `key_codec` | all plaintexts of at most 11 one-bit bytes, a usize of 16 values, two levels | types, `RoundTrip`, `DecodeIsInverse`, `OnlyHugePrefixesPanic` |
| `pem_text` | 2 documents out of 4 keys (two of one type, another level, the other algorithm at the level without padding), lines that name no level, one or two, 2 edits | types, `WholeDocumentDecodes`, `LossIsDetected` |
| `pem_slice` | 2 documents of one key, 1 edit | `TruncatedIsRejected`, violated |
| `hybrid_network` | 2 holders, 2 levels, 4 draws, 1 made-up wire, 2 decapsulations | types, `AgreementIsExact`, `RefusedForItsLength`, `ExchangeImplementsService` |

Bounds. Four commands are enough for a complete exchange with one command of each kind
replaced or repeated (keygen, keygen, encapsulate, decapsulate), and two shells for any overlap
of two writers or of a writer and a reader; a third shell adds no new pair. `MaxCommands` also
bounds the entropy drawn. Two levels of key give documents of different lengths on one path;
`cli_dsa` has one level, so its files differ in content and in state of completion. Shells are symmetric.
In `bundle_damage` three changes allow kind, level and version, or salt, nonce and ciphertext,
to be wrong at once. In `hybrid_network` four draws are two key pairs and two encapsulations (a
key replaced between two sends, or two holders), one made-up wire is any damage or splice of
them, and two answers are enough for one wire at two holders or before and after a replacement.
In `pem_text` two documents and two edits remove both label lines between two bodies, which is
what mixes them. A line there has 384 bytes, eight lines of 48 as one: 384 is what ML-KEM keys of
neighbouring levels differ by, so the losses that the length does not tell are among those tried, and
the ML-DSA key of level 5, 2592 bytes, has base64 without padding at either width. In `key_codec` the usize is as narrow as the prefix, so the wrap is reached by
short plaintexts, and the second level's lengths need two digits. Every behaviour is finite, so deadlock is not checked: all shells may stop.

What the passing runs show. `SettledOutputsMatch`: however many runs replaced a pair of output
files, and whatever stopped or overlapped runs left there, once a run that nobody stopped or
overlapped has written it the pair belongs together. Until then it need not, and nothing is claimed of
it: a keygen stopped between its two files leaves two that do not match. `ExchangeAgrees`: over
files, with the ciphertext in such a pair, a secret recovered with the key the ciphertext was made
for is the sender's. `ValidMeansSigned` is about the three values verify holds, which need not have
been on disk together. `ImplementsService` is refinement: every step of the commands is one of the
service's or invisible to it. `UntouchedOpens` and `UnsealedWasSealed` are the two directions of
the bundle's contract. `WholeDocumentDecodes` covers the file that `VaultCli` leaves when a short
document is written over a longer one. `LossIsDetected` is as much as the decoder can tell by the length
alone: lines of two keys joined, or lost lines together with a line that names another level, decode to a
key nobody made when the length comes out right. `AgreementIsExact` is an equivalence: it also says that a
wire which arrives late, twice or with white space around it still works. In
`hybrid_network` `ExchangeImplementsService` is the same abstract specification as for the commands:
a network in place of files changes nothing of what is promised.

Findings, each a run that TLC ends with a violation:

1. `bundle_nonce`: a nonce of other than 12 bytes panics at `serial.rs:251` where the error
   "wrong passphrase or corrupted bundle" is promised.
2. `cli_invalid`: verify during a sign reports a modified file or a wrong key (exit 2) when
   neither is the case: the signature file was empty or half written.
3. `pem_slice`: two concatenated public keys that lost the first lines have an END line before the
   first BEGIN line; `pem.rs:102` slices from after the one to before the other and panics, where
   truncated keys "are rejected". Searching END only after BEGIN repairs it.

Also worth knowing, though no document says otherwise: keygen overwrites an existing bundle
without asking, and what was encapsulated to the old public key is then recovered as another secret,
with exit code 0: the tests of `kem.rs` and `hybrid.rs` say that a wrong key succeeds. A keygen stopped
between its two writes leaves a new bundle beside the old public key.

Fairness. `FairSpec` is weak fairness of each shell's `Step`: the system schedules a process that
can go on, and the user answers its prompt. Nothing is assumed of `Start`, of failures or of edits.
A writer waits only for the one `write(2)` another process has begun, and commands are finitely
many, so weak fairness suffices. `OutputsComplete` then says that a file found empty, half written or
mixed becomes a whole document, unless a writer of it is stopped half-way or overlapped, and after that
again from the next run on that opens it alone.

## Proofs

Every safety property of the passing runs is also a theorem, for every value of the constants
that satisfies the modules' assumptions; the runs show it on a small instance and, with the
mutated definitions of `PROJECT.json`, that it can fail. Each theorem has an invariant that is
inductive and a lemma for each action or operator it depends on. `SafetyInv` and `OutputsInv` are
invariants of a run too, so TLC looked for counterexamples to them first.

### The commands

`VaultCliProofs`, for all shells, paths, command lines, passphrases, messages and bounds:

- `Safety`: `Spec => []SafetyInv`
- `TypeCorrect`: `Spec => []TypeOK`
- `ValidSignaturesWereMade`: `Spec => []ValidMeansSigned`
- `NoKeyBeforeItsBundle`: `Spec => []PublishedIsStored`

`ValidMeansSigned` is not inductive: verify trusts a signature read from a file that sign is still
about to write. `SafetyInv` therefore also says, of all files and of all documents not yet
written, that a signature is of something signed (`SignaturesAreSigned`); of every readable public
key and every one a verify holds, that it was published (`ReadableIsPublished`); and of a public key
in a list of outputs, that its bundle was stored or comes before it (`BundleGoesFirst`), which is
what makes `PublishedIsStored` survive a kill between the two writes. There is one lemma for each
action, one step for each conjunct the action can disturb. The lemmas about the operators come
first: types of what seal, unseal, from_bytes and `fs::write` return; a first block never makes a
public key readable; a signature that verifies is one of that message by that key.

`OutputProofs`, of the pairs of files keygen and encapsulate leave:

- `OutputsAreInOrder`: `Spec => []OutputsInv`
- `FilesBelongTogether`: `Spec => []SettledOutputsMatch`
- `ExchangesAgree`: `Spec => []ExchangeAgrees`

A settled pair belongs together because of what holds while it is not settled. `OutputsInv` says of
a pair of paths that only such commands write, and that no stopped or overlapping writer has
touched since it was last opened by a command alone: at most one command is half-way with it; the first file is whole before the second is
opened; what is still to be written belongs to what is already there; with nobody writing, the two
files match. That the overlaps are recorded is essential: the moment a second writer opens either
file, the pair is disturbed and nothing is claimed of it until a command opens the first of the two with
no other half-way. That one is then the only writer of both, so the invariant holds again at its first step
with nothing known of what it found: this is why `fs::write` has to truncate. `OutputsInv` also says that every recorded
secret is what `decapsulate` gives, from which `ExchangesAgree` follows: the secret file beside a
settled ciphertext is the sender's, and so is what the right key gives. The proof showed a condition the pairs need: the two outputs
of a command have to be different files, which is now part of `OwnOutputs`.

`VaultRefines`:

- `VaultIsAService`: `Spec => ImplementsService`, every step of the commands is a step of
  `VaultService` or leaves its variables alone

Most steps of a command are invisible to the service, and the visible ones happen where the code
could not yet know that they are: a key is stored by the write that completes its bundle.
`RefInv` carries what the abstract guards ask of the concrete state: every document on disk, held by
a process or about to be written was made of keys, secrets and signatures the service knows (`MadeFile`,
`MadeHeld`, `MadeDoc`); every draw belongs to a started command (`EntropyBounded`, which is what
bounds the abstract entropy), and every secret sent was drawn before (`SecretsAreOld`), so a new one
is fresh.

These three assume that the command lines are of the six forms, that outputs are not files to be
signed (the tool writes where it is told; this says nobody tells it to overwrite the document), that
`""` is not a passphrase and that the bounds are numbers; what is proved does not depend on the
bounds, nor on `OneKindAssumption`. `Message` and `Passphrase` are arbitrary sets.

### Bundles

`BundleLifeProofs`, for any slots and passphrases and any number of seals and changes:

- `TypesHold`: `Spec => []TypeOK`
- `OnlySealedComesOut`: `Spec => []UnsealedWasSealed`
- `InspectIsRight`: `Spec => []InspectAgrees`
- `SealedCanBeOpened`: `Spec => []UntouchedOpens`

`UnsealedWasSealed` speaks of an answer and of the sealings, and is silent on bundles that nobody has
opened yet. The invariant `IInv` adds where both come from: a sealing is `seal` of a generated key
pair (`SealingsAreSeals`); a bundle's ciphertext, however the rest was changed or spliced, is that of a
sealing (`BundlesAreSealed`); an answer is `unseal` of such a bundle (`AnswersAreUnseals`). Then
`OpensToWhatItIsOf` of `SerialProofs` does the work: if the cipher opens under what the header and
the passphrase derive, all of version, kind, level, salt, nonce and passphrase were right together.

### The plaintext codec

`KeyCodecProofs`, for every number of values of a byte and of a usize that holds a u32, and
all key lengths a prefix can hold:

- `CodecTypes`: `Spec => []TypeOK`
- `CodecRoundTrip`: `Spec => []RoundTrip`
- `CodecIsInjective`: `Spec => []DecodeIsInverse`
- `NoPanicOnSealed`: `Spec => []OnlyHugePrefixesPanic`

TLC checks them with one-bit bytes; the theorems cover the 256 values and the 32 or 64 bits of the
code. The argument: division with remainder is unique (`DivisionUnique`), so four digits and a u32
determine each other (`PrefixOfLength`, `LengthOfPrefix`); the addition wraps below the prefix or
not at all (`SplitPoint`); hence `DecodeOfEncode` and `EncodeOfDecode`, for any byte string. The
inductive invariant `SealedIsEncoded` ties the plaintext to the key pair it was sealed from.

### The PEM text

`PemProofs`, for every set of keys and any number of documents and edits:

- `DecodedKeysAreTyped`: `Spec => []TypeOK`
- `WholeDocumentsDecode`: `Spec => []WholeDocumentDecodes`
- `LossesAreDetected`: `Spec => []LossIsDetected`

The invariant is only that a text is made of lines (`TextOfLines`); what is hard is the decoder.
`NonBlank` is defined by ranks (`Nth`: the line with n kept ones up to it), and three lemmas make it usable:
a set of numbers has a least element (`MinIsLeast`, by well-foundedness of the strict subset order on
finite sets), ranks enumerate a set in order (`NthEnumerates`), and only they do
(`EnumerationIsNth`). `FirstLine` says what `str::find` finds. With them `DocumentBetween` shows that the lines
between the first BEGIN and the first END line are those of the document and no others: nothing before
it is a label line, and none of its own lines is one. For `LossIsDetected`, line numbers that increase and are
as many as the key's lines are those of all its lines (`RisingSteps`), and the length of a body is a sum over
its lines (`BodyLenIsSum`) that is at most a full line for each (`BodyLenBound`): with a line missing
it is below the key's (`LossLengths`). That a whole body gives no other key is arithmetic of the six
key lengths, no two of which are equal (`KeyLengths`). The lines may have any width that holds whole
groups of three bytes; 48 is that of the code.

### The hybrid exchange

`HybridProofs`, for all holders and levels and any number of draws, changes and deliveries:

- `HybridTypes`: `Spec => []TypeOK`
- `ExchangeIsExact`: `Spec => []AgreementIsExact`
- `LengthIsTheOnlyCheck`: `Spec => []RefusedForItsLength`
- `ExchangeIsAService`: `Spec => ExchangeImplementsService`, the refinement

`AgreementIsExact` speaks of answers and encapsulations only, and says nothing of what is still on the
network; its inductive invariant `IInv` adds where each of them comes from: key pairs and
encapsulations were drawn before (`KeysAreDrawn`, `MadeForKeys`), announced keys are those of
key pairs, a Kyber part that is one is that of an encapsulation (`WiresAreMade`: the network cannot
make up a Kyber ciphertext), and an answer is what a generated key pair makes of a wire
(`AnswersAreComputed`). Agreement then follows from the operators (`SecretComesFrom`: a shared secret
gives away the parts it is of; `AgreementNeedsTheWire` and `TheWireAgrees` are the two directions).
For the refinement, `RecoversAsPromised` shows that an answer is the abstract one, and
`RecoveriesStay` that an encapsulation made later never changes where an earlier answer came from:
its entropy is new, and `OldWires` says that nothing on the network has it yet. The module assumes
only that the levels are those of the code and that the bounds are numbers.

### Only model-checked

`OutputsComplete`: liveness under fairness is out of the prover's reach. The three findings are
violations, which only a run can show. What the cryptography, `Argon2`, AES-GCM and base64 do is
assumed, not proved: it is the definitions of the operators marked external in `PROJECT.json`.

## Not modelled

`utils.rs` (wrappers of two crates; constant time is not a property of a state machine);
zeroizing of buffers; texts, `Display` and argument parsing; fsync and what a power failure does to a file
system's cache; cryptographic strength. The examples and benchmarks are straight-line calls of the library
(`examples/hybrid_exchange.rs` names fields of `HybridPublicKey` that are private to the crate).
A command line that names one path for two outputs (`pqc-vault.rs:242-243`) is excluded from the runs
(`OneKindAssumption`), and from the properties about pairs of files by `OwnOutputs`: the code neither
checks nor promises anything about it, and the pair would not belong together.

## Plan

1. Done: the models and runs above; every safety property of the passing runs as a theorem; that the
   commands and the hybrid exchange both implement `VaultService`.
2. Left: an abstract specification of a bundle at rest (a sealed box with a label) that `BundleLife`
   implements, and its refinement proof.
3. Left: that `Pem`, where a document is one value, and `PemText` agree on every text a single
   `fs::write` over another document can leave, as `VaultCli` uses it.
