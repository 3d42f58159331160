-------------------------------- MODULE PemText --------------------------------
(***************************************************************************)
(* src/pem.rs line by line: the decoder looks for a BEGIN and an END line  *)
(* anywhere in a text it was given, which may hold several documents, have *)
(* lost lines, or have been edited by hand.  There is no checksum: what    *)
(* tells a whole key from a damaged one is the base64, the header's level  *)
(* and the length.                                                         *)
(***************************************************************************)
EXTENDS Primitives, SequencesExt

CONSTANTS
  Keys,          \* the keys that are written
  LINE_BYTES,    \* the bytes in a full line of base64: 48, of 64 characters
  LevelSets,     \* sets of level names that a line of text may contain
  MaxDocuments,  \* bound: documents appended in a behaviour
  MaxEdits       \* bound: edits in a behaviour

\* Full lines hold whole groups of three bytes, so none of them is padded.
ASSUME PemTextAssumption ==
  /\ Keys \subseteq [algo : Algo, level : SecurityLevel, id : Nat]
  /\ LINE_BYTES \in Nat \ {0} /\ LINE_BYTES % 3 = 0
  /\ LevelSets \subseteq SUBSET SecurityLevel
  /\ MaxDocuments \in Nat /\ MaxEdits \in Nat

-----------------------------------------------------------------------------
(* Lines. *)

BeginLine(label) == [kind |-> "begin", label |-> label]
EndLine(label)   == [kind |-> "end", label |-> label]
\* The n-th line of the base64 of k.
BodyLine(k, n)   == [kind |-> "body", key |-> k, line |-> n]
\* A header or a comment: all that matters of it is which level names are in it.
TextLine(levels) == [kind |-> "text", levels |-> levels]
BlankLine        == [kind |-> "blank"]

KeyLen(k) == SizeOf(k.algo, k.level).public_key

LineCount(k) == (KeyLen(k) + LINE_BYTES - 1) \div LINE_BYTES

\* The bytes in a line of base64: all but the last of a key are full.
LineLen(l) ==
  IF l.line < LineCount(l.key)
    THEN LINE_BYTES
    ELSE KeyLen(l.key) - (LineCount(l.key) - 1) * LINE_BYTES

\* The line ends in =: ML-DSA keys of Level5, of 2592 bytes, have no such line.
Padded(l) == l.line = LineCount(l.key) /\ KeyLen(l.key) % 3 # 0

-----------------------------------------------------------------------------
(* Encode. *)

level_name(level) ==
  [Level1 |-> "Level1", Level3 |-> "Level3", Level5 |-> "Level5"][level]

HeaderLine(level) == TextLine({level_name(level)})

BodyOf(k) == [n \in 1..LineCount(k) |-> BodyLine(k, n)]

encode_pem(label, header, k) == <<BeginLine(label), header>> \o BodyOf(k) \o <<EndLine(label)>>

\* kem_public_key_to_pem and dsa_public_key_to_pem.
public_key_to_text(k) == encode_pem(k.algo, HeaderLine(k.level), k)

-----------------------------------------------------------------------------
(* Decode. *)

\* The first of the three names that the line contains, which is any line that comes first.
parse_level_from_header(line) ==
  LET names == IF line.kind = "text" THEN line.levels ELSE {}
  IN  IF "Level1" \in names THEN Ok("Level1")
      ELSE IF "Level3" \in names THEN Ok("Level3")
      ELSE IF "Level5" \in names THEN Ok("Level5")
      ELSE Err("Cannot parse security level")

\* Nothing may follow the padding.
IsBase64(lines) ==
  \A i \in DOMAIN lines : lines[i].kind = "body" /\ (Padded(lines[i]) => i = Len(lines))

\* The length of what base64 lines decode to.
BodyLen(lines) ==
  LET sum[n \in 0..Len(lines)] == IF n = 0 THEN 0 ELSE sum[n - 1] + LineLen(lines[n])
  IN  sum[Len(lines)]

\* The bytes of a body: a public key when it is the whole of one.
BodyBytes(lines) ==
  IF lines # <<>> /\ lines = BodyOf(lines[1].key)
    THEN PkBytes(lines[1].key)
    ELSE [tag |-> "junk", lines |-> lines, len |-> BodyLen(lines)]

\* Where the n-th of the lines in `kept` is.
Nth(kept, n) == CHOOSE i \in kept : Cardinality({j \in kept : j <= i}) = n

\* The lines that are not blank, in their order.
NonBlank(lines) ==
  LET kept == {i \in DOMAIN lines : lines[i].kind # "blank"}
  IN  [n \in 1..Cardinality(kept) |-> lines[Nth(kept, n)]]

\* str::find: the first of the lines that is `line`, 0 when there is none.
Find(lines, line) == SelectInSeq(lines, LAMBDA l : l = line)

\* Slicing with an end before the start panics, no Err is returned.
Panic == Err("panic")

\* Mutation: the END line is looked for from the end of the text.
Between_last_end(text, label) ==
  LET start  == Find(text, BeginLine(label))
      finish == SelectLastInSeq(text, LAMBDA l : l = EndLine(label))
  IN  IF start = 0 THEN Err("Missing PEM header")
      ELSE IF finish = 0 THEN Err("Missing PEM footer")
      ELSE IF finish < start THEN Panic
      ELSE Ok(NonBlank(SubSeq(text, start + 1, finish - 1)))

\* What the lines between BEGIN and END are: the first of either in the text.
Between(text, label) ==
  LET start  == Find(text, BeginLine(label))
      finish == Find(text, EndLine(label))
  IN  IF start = 0 THEN Err("Missing PEM header")
      ELSE IF finish = 0 THEN Err("Missing PEM footer")
      ELSE IF finish < start THEN Panic
      ELSE Ok(NonBlank(SubSeq(text, start + 1, finish - 1)))

decode_pem(text, expected_label) ==
  LET body  == Between(text, expected_label)
      level == parse_level_from_header(Head(body.val))
  IN  IF ~body.ok THEN body
      ELSE IF body.val = <<>> THEN Err("Empty PEM body")
      ELSE IF ~level.ok THEN level
      ELSE IF ~IsBase64(Tail(body.val)) THEN Err("Invalid base64 in PEM body")
      ELSE Ok([level |-> level.val, bytes |-> BodyBytes(Tail(body.val))])

\* Mutation: from_raw in place of from_validated.
public_key_from_text_raw(algo, text) ==
  LET decoded == decode_pem(text, algo)
  IN  IF decoded.ok
        THEN Ok([algo |-> algo, level |-> decoded.val.level, bytes |-> decoded.val.bytes])
        ELSE decoded

\* kem_public_key_from_pem and dsa_public_key_from_pem.
public_key_from_text(algo, text) ==
  LET decoded == decode_pem(text, algo)
  IN  IF decoded.ok
        THEN from_validated(algo, decoded.val.level, decoded.val.bytes)
        ELSE decoded

-----------------------------------------------------------------------------
(* A text and what happens to it. *)

VARIABLES
  text,       \* a sequence of lines
  documents,  \* number of documents appended
  edits       \* number of edits

vars == <<text, documents, edits>>

Init == text = <<>> /\ documents = 0 /\ edits = 0

\* A public key is appended to the text, as a key ring or a concatenation of files has it.
AppendDocument(k) ==
  /\ documents < MaxDocuments
  /\ documents' = documents + 1
  /\ text' = text \o public_key_to_text(k)
  /\ UNCHANGED edits

Edit(to) ==
  /\ edits < MaxEdits
  /\ edits' = edits + 1
  /\ text' = to
  /\ UNCHANGED documents

\* Lines i to j are lost: the beginning of the text, its end, or anything inside.
LoseLines(i, j) == Edit(SubSeq(text, 1, i - 1) \o SubSeq(text, j + 1, Len(text)))

InsertLine(i, line) == Edit(InsertAt(text, i, line))

\* A header or a comment is changed: into a line that names other levels, or none.
EditLine(i, levels) ==
  /\ text[i].kind = "text"
  /\ text[i].levels # levels
  /\ Edit(ReplaceAt(text, i, TextLine(levels)))

Next ==
  \/ \E k \in Keys : AppendDocument(k)
  \/ \E i \in DOMAIN text :
       \/ \E j \in i..Len(text) : LoseLines(i, j)
       \/ InsertLine(i, BlankLine)
       \/ \E levels \in LevelSets : InsertLine(i, TextLine(levels)) \/ EditLine(i, levels)

Spec == Init /\ [][Next]_vars

-----------------------------------------------------------------------------
LineType ==
  [kind : {"begin", "end"}, label : Algo] \cup [kind : {"text"}, levels : SUBSET SecurityLevel]
    \cup [kind : {"body"}, key : Keys, line : Nat \ {0}] \cup {BlankLine}

\* A text is made of lines; every decoded key has the length of its level, whatever the
\* text, and a level only one of the three.
TypeOK ==
  /\ text \in Seq(LineType)
  /\ documents \in 0..MaxDocuments /\ edits \in 0..MaxEdits
  /\ \A algo \in Algo :
       LET pub == public_key_from_text(algo, text)
       IN  pub.ok => pub.val.bytes.len = SizeOf(algo, pub.val.level).public_key

-----------------------------------------------------------------------------
(* Safety. *)

\* The decoder of the module Pem, where a document is one value.
Document == INSTANCE Pem

Marks(label) == {BeginLine(label), EndLine(label)}

\* The document of k is at i in these lines, and no label line of k's algorithm before it.
HasDocumentAt(lines, k, i) ==
  LET doc == public_key_to_text(k)
  IN  /\ i + Len(doc) - 1 <= Len(lines)
      /\ SubSeq(lines, i, i + Len(doc) - 1) = doc
      /\ \A j \in 1..(i - 1) : lines[j] \notin Marks(k.algo)

\* Whatever comes before a document (comments, documents of the other algorithm, remains of
\* any that lost both label lines), whatever follows it, and however many blank lines there
\* are, a whole document decodes to the key that was encoded, as Pem says (pem.rs:59-122):
\* the tail of a longer file written over by a shorter one, which VaultCli leaves behind,
\* does no harm.
WholeDocumentDecodes ==
  LET lines == NonBlank(text)
  IN  \A k \in Keys, i \in DOMAIN lines :
        LET pub == [algo |-> k.algo, level |-> k.level, bytes |-> PkBytes(k)]
        IN  HasDocumentAt(lines, k, i) =>
              public_key_from_text(k.algo, text)
                = Document!public_key_from_pem(k.algo, Document!public_key_to_pem(pub))

\* What is left of the body of k between the label lines, in order.
IsLossOf(lines, k) ==
  /\ \A i \in DOMAIN lines :
       lines[i].kind = "body" /\ lines[i].key = k /\ lines[i].line \in 1..LineCount(k)
  /\ \A i, j \in DOMAIN lines : i < j => lines[i].line < lines[j].line

\* A body that lost any of its lines never gives a key under k's label and a header that
\* reads as k's level, and a whole body gives no other key under any label and header
\* (pem.rs:57-58).  The length alone is what tells, so more is not true: under a header of
\* another level, or the other label, 384, 768 or 1152 bytes of lines may be lost unnoticed.
LossIsDetected ==
  \A k \in Keys, algo \in Algo :
    LET body  == Between(text, algo)
        pub   == public_key_from_text(algo, text)
        lines == Tail(body.val)
    IN  /\ body.ok /\ pub.ok
        /\ IsLossOf(lines, k)
        /\ \/ Len(lines) = LineCount(k)
           \/ algo = k.algo /\ parse_level_from_header(Head(body.val)) = Ok(k.level)
        => pub.val = [algo |-> k.algo, level |-> k.level, bytes |-> PkBytes(k)]

\* pem.rs:57-58 and 67-68: "Bytes are parsed through pqcrypto before the key is constructed -
\* invalid or truncated keys are rejected before they can be used."  So a truncated text is
\* an error.
TruncatedIsRejected == \A algo \in Algo : public_key_from_text(algo, text) # Panic
=============================================================================
