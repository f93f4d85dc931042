--------------------------- MODULE RequirementText ---------------------------
(***************************************************************************)
(* The text of requirement trees (common/endorsement/endorsement_text.cpp): *)
(* printing a tree and parsing it.                                         *)
(*                                                                         *)
(* A text is a sequence of tokens: a keyword with its parenthesis, a       *)
(* punctuation mark, a blank, a name, a pair of hex digits, a letter, a    *)
(* run of decimal digits.  An identifier has two bytes, printed with a     *)
(* dash between them.  A parse is [ok, value, rest].                       *)
(***************************************************************************)
EXTENDS RequirementTrees

CONSTANTS Word64, Word32   \* 2^64 and 2^32 in the code

Keyword == [and |-> "AND(", or |-> "OR(", equals |-> "EQ(", all_of |-> "ALLOF(", any_of |-> "ANYOF("]
Hex     == <<"01", "02", "03">>   \* the bytes that occur
Letter  == <<"a", "b", "c">>      \* the characters that occur in string literals

-----------------------------------------------------------------------------
(* Printing.                                                                *)
bytesToHex(bytes)  == [i \in DOMAIN bytes |-> Hex[bytes[i]]]
bytesToUUID(bytes) == <<Hex[bytes[1]], "-", Hex[bytes[2]]>>

\* appendBinary and appendNary, over the texts of the operands.
AppendConnective(op, texts) ==
    <<Keyword[op]>> \o
    FlattenSeq([i \in DOMAIN texts |-> (IF i = 1 THEN <<>> ELSE <<",", " ">>) \o texts[i]]) \o <<")">>

AppendConstant(tree) == CASE tree.op = "true"  -> <<"TRUE">>
                          [] tree.op = "false" -> <<"FALSE">>
                          [] OTHER             -> <<>>

RECURSIVE appendEndTree(_), appendMessageTree(_), appendTree(_)

appendEndTree(tree) ==
    CASE tree.op \in Connectives   ->
           AppendConnective(tree.op, [i \in DOMAIN Operands(tree) |-> appendEndTree(Operands(tree)[i])])
      [] tree.op = "type_equals"   -> <<"ENDORSEMENT_TYPE(">> \o bytesToUUID(tree.value) \o <<")">>
      [] tree.op = "value_equals"  -> <<"ENDORSEMENT_VALUE(">> \o bytesToHex(tree.value) \o <<")">>
      [] tree.op = "signer_equals" -> <<"ENDORSEMENT_SIGNER(">> \o bytesToUUID(tree.value) \o <<")">>
      [] OTHER                     -> AppendConstant(tree)

appendFieldPath(path) ==
    FlattenSeq([i \in DOMAIN path |-> (IF i = 1 THEN <<>> ELSE <<".">>) \o <<path[i]>>])

to_string(n) == IF n < 0 THEN <<"-", ToString(-n)>> ELSE <<ToString(n)>>

appendFieldValue(val) ==
    CASE val[1] = "bytes"  -> <<"0x">> \o bytesToHex(val[2])
      [] val[1] = "string" -> <<"\"">> \o [i \in DOMAIN val[2] |-> Letter[val[2][i]]] \o <<"\"">>
      [] val[1] = "int"    -> to_string(val[2])
      [] val[1] = "uint"   -> to_string(val[2]) \o <<"u">>
      [] val[1] = "bool"   -> <<IF val[2] THEN "true" ELSE "false">>
      [] val[1] = "enum"   -> <<"enum(">> \o to_string(val[2]) \o <<")">>

appendMessageTree(tree) ==
    CASE tree.op \in Connectives ->
           AppendConnective(tree.op, [i \in DOMAIN Operands(tree) |-> appendMessageTree(Operands(tree)[i])])
      [] tree.op = "field_equals" ->
           <<"FIELD_EQ(">> \o appendFieldPath(tree.path) \o <<",", " ">> \o appendFieldValue(tree.value) \o <<")">>
      [] tree.op = "field_exists" -> <<"FIELD_EXISTS(">> \o appendFieldPath(tree.path) \o <<")">>
      [] tree.op = "field_contains" ->
           <<"FIELD_CONTAINS(">> \o appendFieldPath(tree.path) \o <<",", " ">> \o
           appendFieldPath(tree.sub_path) \o <<",", " ">> \o appendFieldValue(tree.value) \o <<")">>
      [] OTHER -> AppendConstant(tree)

appendTree(tree) ==
    CASE tree.op \in Connectives   ->
           AppendConnective(tree.op, [i \in DOMAIN Operands(tree) |-> appendTree(Operands(tree)[i])])
      [] tree.op = "endorsement"   -> <<"ENDORSEMENT(">> \o appendEndTree(tree.tree) \o <<")">>
      [] tree.op = "message"       -> <<"MESSAGE(">> \o appendMessageTree(tree.tree) \o <<")">>
      [] OTHER                     -> AppendConstant(tree)

\* The text of the empty tree is empty.
toString(tree) == appendTree(tree)

-----------------------------------------------------------------------------
(* Parsing.                                                                 *)
Failed           == [ok |-> FALSE]
Got(value, rest) == [ok |-> TRUE, value |-> value, rest |-> rest]
At(text, token)  == text # <<>> /\ Head(text) = token

RECURSIVE skipWhitespace(_)
skipWhitespace(text) == IF At(text, " ") THEN skipWhitespace(Tail(text)) ELSE text

\* What was parsed, when the token c comes next.
expect(parsed, c) ==
    IF parsed.ok /\ At(skipWhitespace(parsed.rest), c)
    THEN Got(parsed.value, Tail(skipWhitespace(parsed.rest))) ELSE Failed

\* What Make builds from what was parsed.
Wrap(parsed, Make(_)) == IF parsed.ok THEN Got(Make(parsed.value), parsed.rest) ELSE Failed

\* What parse finds after what was parsed, and the two together.
Follow(parsed, parse(_)) ==
    IF ~parsed.ok THEN Failed
    ELSE Wrap(parse(parsed.rest), LAMBDA value : Append(parsed.value, value))

IndexOf(sequence, token) == CHOOSE i \in DOMAIN sequence : sequence[i] = token
IsHex(text) == text # <<>> /\ Head(text) \in ToSet(Hex)

parseUUIDBytes(text) ==
    IF /\ Len(text) >= 3 /\ text[2] = "-"
       /\ IsHex(text) /\ text[3] \in ToSet(Hex)
    THEN Got(<<IndexOf(Hex, text[1]), IndexOf(Hex, text[3])>>, SubSeq(text, 4, Len(text)))
    ELSE Failed

RECURSIVE HexFrom(_, _)
HexFrom(bytes, text) ==
    IF IsHex(text) THEN HexFrom(Append(bytes, IndexOf(Hex, Head(text))), Tail(text)) ELSE Got(bytes, text)
parseHexBytes(text) == HexFrom(<<>>, text)

NoVariables == [name \in {} |-> Empty]

RECURSIVE parseEndTree(_), parseMessageTree(_), parseTree(_, _)

\* An operand, by the kind of tree it belongs to.
Operand(kind, variables, text) ==
    CASE kind = "endorsement" -> parseEndTree(text)
      [] kind = "message"     -> parseMessageTree(text)
      [] kind = "tree"        -> parseTree(text, variables)

\* What stands between the parentheses of a keyword with two operands.
parseBinaryArgs(text, kind, variables) ==
    LET Then(parsed) == Follow(parsed, LAMBDA t : Operand(kind, variables, t))
    IN  expect(Then(expect(Then(Got(<<>>, text)), ",")), ")")

parseNaryArgs(text, kind, variables) ==
    LET RECURSIVE Terms(_)
        Terms(parsed) ==
            LET next == Follow(parsed, LAMBDA t : Operand(kind, variables, t))
            IN  IF next.ok /\ At(skipWhitespace(next.rest), ",") THEN Terms(expect(next, ","))
                ELSE expect(next, ")")
    IN  IF At(skipWhitespace(text), ")") THEN Got(<<>>, Tail(skipWhitespace(text)))
        ELSE Terms(Got(<<>>, text))

Opens(text) == {op \in Connectives : At(text, Keyword[op])}
parseConnective(text, kind, variables) ==
    LET op == CHOOSE o \in Opens(text) : TRUE
    IN  Wrap(IF op \in Binary THEN parseBinaryArgs(Tail(text), kind, variables)
             ELSE parseNaryArgs(Tail(text), kind, variables),
             LAMBDA operands : MakeTree(op, operands))

ParseConstant(text) ==
    CASE At(text, "TRUE") \/ At(text, "true")   -> Got(Constant("true"), Tail(text))
      [] At(text, "FALSE") \/ At(text, "false") -> Got(Constant("false"), Tail(text))
      [] OTHER                                  -> Failed

\* The text after a keyword with its parenthesis.
Argument(text) == skipWhitespace(Tail(text))

EndLeaves == {"ENDORSEMENT_TYPE(", "ENDORSEMENT_VALUE(", "ENDORSEMENT_SIGNER("}
parseEndLeaf(text) ==
    CASE Head(text) = "ENDORSEMENT_TYPE(" ->
           Wrap(expect(parseUUIDBytes(Argument(text)), ")"), LAMBDA v : [op |-> "type_equals", value |-> v])
      [] Head(text) = "ENDORSEMENT_VALUE(" ->
           Wrap(expect(parseHexBytes(Argument(text)), ")"), LAMBDA v : [op |-> "value_equals", value |-> v])
      [] Head(text) = "ENDORSEMENT_SIGNER(" ->
           Wrap(expect(parseUUIDBytes(Argument(text)), ")"), LAMBDA v : [op |-> "signer_equals", value |-> v])

parseEndTree(spaced) ==
    LET text == skipWhitespace(spaced) IN
    CASE Opens(text) # {} -> parseConnective(text, "endorsement", NoVariables)
      [] text # <<>> /\ Head(text) \in EndLeaves -> parseEndLeaf(text)
      [] OTHER -> ParseConstant(text)

\* Names separated by dots; a dot at the end is dropped.
RECURSIVE PathFrom(_, _)
PathFrom(segments, text) ==
    IF text = <<>> \/ Head(text) \in {",", ")", " ", "."} THEN Failed
    ELSE LET more == Append(segments, Head(text))
             dot  == At(Tail(text), ".")
             rest == IF dot THEN SubSeq(text, 3, Len(text)) ELSE Tail(text)
         IN  IF dot /\ rest # <<>> /\ Head(rest) \notin {",", ")", " "} THEN PathFrom(more, rest)
             ELSE Got(more, rest)
parseFieldPath(text) == PathFrom(<<>>, skipWhitespace(text))

\* A number of one width read as signed.
Signed(n, width) == ((n + width \div 2) % width) - width \div 2

Numerals == {ToString(n) : n \in 0..Word64}
NumberOf(token) == (CHOOSE n \in 0..Word64 : ToString(n) = token) % Word64

\* Mutant: the sign is not read.
ParseUnsigned(text) ==
    IF text # <<>> /\ Head(text) \in Numerals THEN Got(NumberOf(Head(text)), Tail(text)) ELSE Failed

\* An optional sign and digits.  The least signed number is its own negation.
ParseNumber(text) ==
    CASE text # <<>> /\ Head(text) \in Numerals -> Got(NumberOf(Head(text)), Tail(text))
      [] Len(text) >= 2 /\ Head(text) = "-" /\ text[2] \in Numerals ->
           Got(Signed(-Signed(NumberOf(text[2]), Word64), Word64), SubSeq(text, 3, Len(text)))
      [] OTHER -> Failed

\* Of an enum the digits may be missing; it keeps the low 32 bits.
ParseEnum(text) ==
    LET number == ParseNumber(text)
    IN  IF number.ok THEN Got(Signed(number.value, Word32), number.rest)
        ELSE Got(0, IF At(text, "-") THEN Tail(text) ELSE text)

Value(kind, parsed) == Wrap(parsed, LAMBDA v : <<kind, v>>)

parseFieldValue(spaced) ==
    LET text   == skipWhitespace(spaced)
        number == ParseNumber(text)
        quote  == {i \in 2..Len(text) : text[i] = "\""}
        close  == CHOOSE i \in quote : \A j \in quote : i <= j
    IN  CASE At(text, "\"") ->
               IF quote = {} THEN Failed
               ELSE Got(<<"string", [i \in 1..(close - 2) |-> IndexOf(Letter, text[i + 1])]>>,
                        SubSeq(text, close + 1, Len(text)))
          [] At(text, "0x")    -> Value("bytes", parseHexBytes(Tail(text)))
          [] At(text, "true")  -> Got(<<"bool", TRUE>>, Tail(text))
          [] At(text, "false") -> Got(<<"bool", FALSE>>, Tail(text))
          [] At(text, "enum(") -> Value("enum", expect(ParseEnum(Argument(text)), ")"))
          [] number.ok -> IF At(number.rest, "u") /\ Head(text) # "-"
                          THEN Got(<<"uint", number.value>>, Tail(number.rest))
                          ELSE Got(<<"int", Signed(number.value, Word64)>>, number.rest)
          [] OTHER -> Failed

\* DESTINATION(id) and SOURCE(id) are short for a field and its value.
FieldOf == ("DESTINATION(" :> <<"destination", "value">>) @@ ("SOURCE(" :> <<"signature", "signer", "value">>)
parseShorthand(text) ==
    Wrap(expect(parseUUIDBytes(Argument(text)), ")"),
         LAMBDA v : [op |-> "field_equals", path |-> FieldOf[Head(text)], value |-> <<"bytes", v>>])

MessageLeaves == {"FIELD_EQ(", "FIELD_EXISTS(", "FIELD_CONTAINS("}
parseFieldLeaf(text) ==
    LET path == Follow(Got(<<>>, Tail(text)), parseFieldPath) IN
    CASE Head(text) = "FIELD_EQ(" ->
           Wrap(expect(Follow(expect(path, ","), parseFieldValue), ")"),
                LAMBDA v : [op |-> "field_equals", path |-> v[1], value |-> v[2]])
      [] Head(text) = "FIELD_EXISTS(" ->
           Wrap(expect(path, ")"), LAMBDA v : [op |-> "field_exists", path |-> v[1]])
      [] Head(text) = "FIELD_CONTAINS(" ->
           Wrap(expect(Follow(expect(Follow(expect(path, ","), parseFieldPath), ","), parseFieldValue), ")"),
                LAMBDA v : [op |-> "field_contains", path |-> v[1], sub_path |-> v[2], value |-> v[3]])

parseMessageTree(spaced) ==
    LET text == skipWhitespace(spaced) IN
    CASE Opens(text) # {} -> parseConnective(text, "message", NoVariables)
      [] text # <<>> /\ Head(text) \in DOMAIN FieldOf -> parseShorthand(text)
      [] text # <<>> /\ Head(text) \in MessageLeaves  -> parseFieldLeaf(text)
      [] OTHER -> ParseConstant(text)

\* ${name}: a copy of the tree of a variable that is declared.
parseVariable(text, variables) ==
    IF Len(text) >= 3 /\ text[3] = "}" /\ text[2] \in DOMAIN variables
    THEN Got(variables[text[2]], SubSeq(text, 4, Len(text))) ELSE Failed

Over(op, parsed) == Wrap(parsed, LAMBDA tree : [op |-> op, tree |-> tree])

parseTree(spaced, variables) ==
    LET text == skipWhitespace(spaced) IN
    CASE At(text, "${")    -> parseVariable(text, variables)
      [] Opens(text) # {}  -> parseConnective(text, "tree", variables)
      [] At(text, "ENDORSEMENT(") -> Over("endorsement", expect(parseEndTree(Argument(text)), ")"))
      [] At(text, "MESSAGE(")     -> Over("message", expect(parseMessageTree(Argument(text)), ")"))
      [] text # <<>> /\ Head(text) \in EndLeaves      -> Over("endorsement", parseEndLeaf(text))
      [] text # <<>> /\ Head(text) \in DOMAIN FieldOf -> Over("message", parseShorthand(text))
      [] OTHER -> ParseConstant(text)

\* fromString: nothing is the empty tree, and nothing may follow a tree.
AtEnd(parsed) ==
    IF parsed.ok /\ skipWhitespace(parsed.rest) = <<>> THEN Got(parsed.value, <<>>) ELSE Failed
fromString(text, variables) ==
    IF skipWhitespace(text) = <<>> THEN Got(Empty, <<>>) ELSE AtEnd(parseTree(text, variables))
=============================================================================
