---------------------------- MODULE ResourceQuery ----------------------------
(***************************************************************************)
(* The resource query language (resource_manager.cpp): the parser, over    *)
(* the tokens of a query, and the evaluation of an expression for one      *)
(* advertised schema of one node.                                          *)
(*                                                                         *)
(* A token is [type, text], an expression [kind, ...].  A parse is a       *)
(* record of the expression and the tokens left, or Fail: the exception    *)
(* that makes the resource manager answer "invalid resource query".        *)
(***************************************************************************)
EXTENDS Integers, SequencesExt

CONSTANT UInt32   \* 2^32 in the code: an integer literal is taken modulo it

Fail == [ok |-> FALSE]
Parsed(expr, rest) == [ok |-> TRUE, expr |-> expr, rest |-> rest]
Combine(kind, left, right) == [kind |-> kind, left |-> left, right |-> right]

\* The type of the current token.
Current(tokens) == IF tokens = <<>> THEN "End" ELSE Head(tokens).type

\* parseComparison: a field, an operator and a literal.  Every operator takes
\* every literal.
parseComparison(tokens) ==
    IF /\ Len(tokens) >= 3 /\ tokens[1].type = "Identifier"
       /\ tokens[2].type \in {"Equal", "NotEqual", "Has"}
       /\ tokens[3].type \in {"String", "Integer"}
    THEN Parsed([kind |-> "Comparison", field |-> tokens[1].text, op |-> tokens[2].type,
                 isInteger |-> tokens[3].type = "Integer",
                 value |-> IF tokens[3].type = "Integer" THEN tokens[3].text % UInt32
                                                         ELSE tokens[3].text],
                SubSeq(tokens, 4, Len(tokens)))
    ELSE Fail

RECURSIVE parseOr(_), MoreOr(_), parseAnd(_), MoreAnd(_), parseUnary(_)

\* parsePrimary: an expression in parentheses, or a comparison.
parsePrimary(tokens) ==
    IF Current(tokens) # "LeftParen" THEN parseComparison(tokens)
    ELSE LET inner == parseOr(Tail(tokens))
         IN  IF inner.ok /\ Current(inner.rest) = "RightParen"
             THEN Parsed(inner.expr, Tail(inner.rest))
             ELSE Fail

parseUnary(tokens) ==
    IF Current(tokens) # "Not" THEN parsePrimary(tokens)
    ELSE LET inner == parseUnary(Tail(tokens))
         IN  IF inner.ok THEN Parsed([kind |-> "Not", left |-> inner.expr], inner.rest) ELSE Fail

MoreAnd(left) ==
    IF ~left.ok \/ Current(left.rest) # "And" THEN left
    ELSE LET right == parseUnary(Tail(left.rest))
         IN  IF right.ok THEN MoreAnd(Parsed(Combine("And", left.expr, right.expr), right.rest))
                         ELSE Fail

parseAnd(tokens) == MoreAnd(parseUnary(tokens))

MoreOr(left) ==
    IF ~left.ok \/ Current(left.rest) # "Or" THEN left
    ELSE LET right == parseAnd(Tail(left.rest))
         IN  IF right.ok THEN MoreOr(Parsed(Combine("Or", left.expr, right.expr), right.rest))
                         ELSE Fail

\* Mutant: AND and OR have the same precedence.
parseFlat(tokens) == MoreOr(parseUnary(tokens))

parseOr(tokens) == MoreOr(parseAnd(tokens))

\* parseQueryExpression: the empty query matches everything; nothing may follow
\* an expression.
parseQueryExpression(tokens) ==
    IF tokens = <<>> THEN Parsed([kind |-> "Empty"], <<>>)
    ELSE LET parsed == parseOr(tokens)
         IN  IF parsed.ok /\ parsed.rest = <<>> THEN parsed ELSE Fail

(***************************************************************************)
(* A candidate is [node, schema], a schema [file, hash, version, types].   *)
(***************************************************************************)
ScalarMatches(actual, op, expected) ==
    CASE op = "Equal" -> actual = expected
      [] op = "NotEqual" -> actual # expected
      [] op = "Has" -> FALSE

\* matchesComparison: a literal of the wrong type, or an unknown field, does not
\* match, whatever the operator.
matchesComparison(expression, candidate) ==
    LET schema == candidate.schema IN
    IF expression.field = "service.schema_version"
    THEN expression.isInteger /\ ScalarMatches(schema.version, expression.op, expression.value)
    ELSE /\ ~expression.isInteger
         /\ CASE expression.field = "node.id" ->
                   ScalarMatches(candidate.node, expression.op, expression.value)
              [] expression.field = "service.proto_file_name" ->
                   ScalarMatches(schema.file, expression.op, expression.value)
              [] expression.field = "service.schema_hash" ->
                   ScalarMatches(schema.hash, expression.op, expression.value)
              [] expression.field = "service.accepted_type_urls" ->
                   (expression.op = "NotEqual") # (expression.value \in schema.types)
              [] OTHER -> FALSE

RECURSIVE matchesExpression(_, _)
matchesExpression(expression, candidate) ==
    CASE expression.kind = "Empty" -> TRUE
      [] expression.kind = "Comparison" -> matchesComparison(expression, candidate)
      [] expression.kind = "And" -> /\ matchesExpression(expression.left, candidate)
                                    /\ matchesExpression(expression.right, candidate)
      [] expression.kind = "Or" -> \/ matchesExpression(expression.left, candidate)
                                   \/ matchesExpression(expression.right, candidate)
      [] expression.kind = "Not" -> ~matchesExpression(expression.left, candidate)

\* Every schema of every advertisement, in the order of the map and of the list.
Candidates(advertisements) ==
    LET Of(node) == [i \in DOMAIN advertisements[node] |->
                        [node |-> node, schema |-> advertisements[node][i]]]
    IN  FlattenSeq([i \in 1..Len(SetToSeq(DOMAIN advertisements)) |->
                        Of(SetToSeq(DOMAIN advertisements)[i])])

\* The services of a reply: the matches, up to maxRecords of them (0: all).
Services(advertisements, expression, maxRecords) ==
    LET matched == SelectSeq(Candidates(advertisements),
                             LAMBDA candidate : matchesExpression(expression, candidate))
    IN  IF maxRecords = 0 \/ Len(matched) <= maxRecords THEN matched
        ELSE SubSeq(matched, 1, maxRecords)

=============================================================================
