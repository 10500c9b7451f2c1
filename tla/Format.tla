------------------------------- MODULE Format -------------------------------
(***************************************************************************)
(* The output formats (src/src/output.rs): how -f and --payload-format are *)
(* compiled, which metadata of a record they need, and what they and the   *)
(* JSON envelope write. A line is a sequence of pieces, a piece being what *)
(* one call writes; a byte string is its data, its length and whether it   *)
(* is UTF-8. A piece of text or a number counts as one byte.               *)
(***************************************************************************)
EXTENDS Integers, SequencesExt

CONSTANTS
    None,    \* no key, value, timestamp or payload
    I32Max   \* i32::MAX

ASSUME I32MaxAssumption == I32Max \in Nat

IsList(s) == s \in Seq(Range(s))
Plus(a, b) == a + b
Sum(sizes) == FoldLeft(Plus, 0, sizes)

IsBytes(bytes) == bytes = None \/ bytes.length \in Nat

-----------------------------------------------------------------------------
\* Compiling. A source is a sequence of what the scanner takes in one turn.

Placeholders == {"%o", "%k", "%K", "%s", "%S", "%L", "%R", "%t", "%p", "%T", "%h", "%a"}

\* An unknown or incomplete placeholder or escape, and a bad \x.
Malformed == {"%", "%?", "\\", "\\?", "\\x?"}

Escaped(x) == CASE x = "\\n" -> "newline" [] x = "%%" -> "%" [] OTHER -> x

Token(field, text) == [field |-> field, text |-> text]

\* flush_literal
Flushed(scan) ==
    IF scan.literal = <<>> THEN scan.tokens
    ELSE Append(scan.tokens, Token("literal", scan.literal))

Scan(scan, x) ==
    CASE x \in Malformed -> [scan EXCEPT !.failed = TRUE]
      [] x \in Placeholders ->
            [scan EXCEPT !.tokens = Append(Flushed(scan), Token(x, <<>>)), !.literal = <<>>]
      [] x = "%%" ->
            [scan EXCEPT !.tokens = Append(Flushed(scan), Token("literal", <<Escaped(x)>>)),
                         !.literal = <<>>]
      [] OTHER -> [scan EXCEPT !.literal = Append(@, Escaped(x))]

ScanStart == [tokens |-> <<>>, literal |-> <<>>, failed |-> FALSE]

\* The tokens, or None when the source is refused.
Compile(source) ==
    LET scan == FoldLeft(Scan, ScanStart, source)
    IN  IF scan.failed THEN None ELSE Flushed(scan)

Uses(format, fields) == \E i \in DOMAIN format : format[i].field \in fields

\* CompiledFormat::requirements
Requirements(format) ==
    {need \in {"key", "headers", "timestamp"} :
        Uses(format, CASE need = "key" -> {"%k", "%K"}
                       [] need = "headers" -> {"%h"}
                       [] need = "timestamp" -> {"%T"})}

-----------------------------------------------------------------------------
\* Writing.

Piece(is, of, length) == [is |-> is, of |-> of, length |-> length]
Literal(text) == Piece("literal", text, 1)
Number(n) == Piece("number", n, 1)

\* Nothing is written of an empty byte string, or of none.
Raw(bytes) ==
    IF bytes = None \/ bytes.length = 0 THEN <<>>
    ELSE <<Piece("bytes", bytes.data, bytes.length)>>

LengthOf(bytes) == IF bytes = None THEN -1 ELSE bytes.length

\* Payload::length, which for compacted JSON is the length of its source.
PayloadLength(payload) == IF payload = None THEN -1 ELSE payload.reported

HeaderPieces(headers) ==
    FlattenSeq([i \in DOMAIN headers |->
        (IF i = 1 THEN <<>> ELSE <<Literal(",")>>)
          \o <<Literal(headers[i].name), Literal("=")>>
          \o IF headers[i].value = None THEN <<Literal("NULL")>> ELSE Raw(headers[i].value)])

\* What a token writes of an output record.
Pieces(token, r) ==
    CASE token.field = "literal" -> [i \in DOMAIN token.text |-> Literal(token.text[i])]
      [] token.field = "%k" -> Raw(r.key)
      [] token.field = "%K" -> <<Number(LengthOf(r.key))>>
      [] token.field = "%s" -> Raw(r.payload)
      [] token.field = "%S" -> <<Number(PayloadLength(r.payload))>>
      [] token.field = "%L" -> <<Number(r.sourceLength)>>
      [] token.field = "%R" -> <<Piece("int32", PayloadLength(r.payload), 4)>>
      [] token.field = "%T" -> <<Number(IF r.timestamp = None THEN -1 ELSE r.timestamp.value)>>
      [] token.field = "%h" -> HeaderPieces(r.headers)
      [] token.field = "%a" -> <<Literal(r.action)>>
      [] token.field \in {"%t", "%p"} -> <<Literal(token.field)>>
      [] token.field = "%o" -> <<Number(r.offset)>>

\* Nothing is written of a record whose length does not fit %R.
Overflows(format, r) == PayloadLength(r.payload) > I32Max /\ Uses(format, {"%R"})

Line(format, r) == FlattenSeq([i \in DOMAIN format |-> Pieces(format[i], r)])

\* The count that write_to and write_envelope return.
Written(line) == Sum([n \in DOMAIN line |-> line[n].length])

-----------------------------------------------------------------------------
\* The JSON envelope: a value is followed by its encoding and its length.

\* write_bytes_fields, write_base64
BytesFields(bytes) ==
    IF bytes = None THEN <<Literal("null"), Literal("null"), Number(-1)>>
    ELSE <<IF bytes.utf8 THEN Piece("utf8", bytes.data, bytes.length)
           ELSE Piece("base64", bytes.data, 4 * ((bytes.length + 2) \div 3)),
           Literal(IF bytes.utf8 THEN "utf8" ELSE "base64"), Number(bytes.length)>>

\* write_json_fields
JsonFields(payload) ==
    <<Piece("json", payload.data, payload.length), Literal("json"), Number(payload.reported)>>

TimestampFields(timestamp) ==
    IF timestamp = None THEN <<Literal("null"), Literal("null")>>
    ELSE <<Number(timestamp.value), Literal(timestamp.kind)>>

Envelope(r) ==
    <<Literal("topic"), Literal("partition"), Number(r.offset)>>
      \o TimestampFields(r.timestamp) \o BytesFields(r.key) \o <<Literal("[")>>
      \o FlattenSeq([i \in DOMAIN r.headers |->
             <<Literal(r.headers[i].name)>> \o BytesFields(r.headers[i].value)])
      \o <<Literal("]"), Literal(r.action)>>
      \o IF r.payload # None /\ r.payload.json THEN JsonFields(r.payload)
                                               ELSE BytesFields(r.payload)

-----------------------------------------------------------------------------
\* The plan of the output (OutputPlan in src/src/cli.rs).

\* Mutant: the inner format is left out.
PlanRequirementsOfLine(plan) ==
    IF plan.envelope THEN {"key", "headers", "timestamp"} ELSE Requirements(Compile(plan.format))

\* OutputPlan::requirements
PlanRequirements(plan) ==
    IF plan.envelope THEN {"key", "headers", "timestamp"}
    ELSE Requirements(Compile(plan.format))
           \union IF plan.payloadFormat = None THEN {}
                  ELSE Requirements(Compile(plan.payloadFormat))

PlanCompiles(plan) ==
    plan.envelope \/ /\ Compile(plan.format) # None
                     /\ plan.payloadFormat # None => Compile(plan.payloadFormat) # None
=============================================================================
