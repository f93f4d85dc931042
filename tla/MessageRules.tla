---------------------------- MODULE MessageRules ----------------------------
(***************************************************************************)
(* The message rules of the resource manager's configuration               *)
(* (common/config/message_rules.cpp): lines that declare variables, then   *)
(* the line of the rule, which becomes the authorization tree.             *)
(***************************************************************************)
EXTENDS RequirementText

CONSTANT Identifiers   \* the names that may be given to a variable

RECURSIVE trimmed(_)
trimmed(line) ==
    CASE At(line, " ") -> trimmed(Tail(line))
      [] line # <<>> /\ ~At(line, " ") /\ Last(line) = " " -> trimmed(Front(line))
      [] OTHER -> line

isCommentOrBlank(line) == line = <<>> \/ Head(line) \in {"#", "//"}

\* let <name> = <expr>.
isLet(line) == Len(line) >= 2 /\ line[1] = "let" /\ line[2] = " "
Named(declared, equals) ==
    IF /\ declared # equals /\ Head(declared) \in Identifiers
       /\ At(equals, "=") /\ skipWhitespace(Tail(equals)) # <<>>
    THEN [ok |-> TRUE, name |-> Head(declared), expr |-> skipWhitespace(Tail(equals))] ELSE Failed
tryParseLet(line) ==
    LET declared == skipWhitespace(Tail(line))
    IN  Named(declared, IF At(declared, "=") \/ declared = <<>> THEN declared ELSE skipWhitespace(Tail(declared)))

\* The node's own identifier, and the one of a public key file.  `ctx' maps a
\* macro to the identifier it stands for, a set of at most one: a file that
\* cannot be read, or a macro that is not closed, has none.
expandMacros(text, ctx) ==
    LET Expanded(token) == IF token \in DOMAIN ctx THEN bytesToUUID(CHOOSE id \in ctx[token] : TRUE) ELSE <<token>>
    IN  IF \E i \in DOMAIN text : text[i] \in DOMAIN ctx /\ ctx[text[i]] = {} THEN Failed
        ELSE Got(FlattenSeq([i \in DOMAIN text |-> Expanded(text[i])]), <<>>)

\* The tree of an expression, with the variables declared so far.
Expand(expanded, variables) == IF expanded.ok THEN fromString(expanded.value, variables) ELSE Failed

\* The lines so far: `built' is [ok, variables, rule], where rule has at most
\* one tree.  A variable is declared once, and nothing follows the rule.
Declare(built, name, tree) ==
    IF tree.ok THEN [built EXCEPT !.variables = @ @@ (name :> tree.value)] ELSE Failed
AddLet(built, let, ctx) ==
    IF ~let.ok THEN Failed
    ELSE IF let.name \in DOMAIN built.variables THEN Failed
    ELSE Declare(built, let.name, Expand(expandMacros(let.expr, ctx), built.variables))
AddRule(built, tree) == IF tree.ok THEN [built EXCEPT !.rule = {tree.value}] ELSE Failed

AddLine(built, line, ctx) ==
    IF ~built.ok \/ isCommentOrBlank(line) THEN built
    ELSE IF built.rule # {} THEN Failed
    ELSE IF isLet(line) THEN AddLet(built, tryParseLet(line), ctx)
    ELSE AddRule(built, Expand(expandMacros(line, ctx), built.variables))

\* The tree of the rule line, or Failed: the resource manager does not start.
TheRule(built) ==
    IF ~built.ok THEN Failed
    ELSE IF built.rule = {} THEN Failed
    ELSE Got(CHOOSE tree \in built.rule : TRUE, <<>>)
buildMessageRulesTree(rules, ctx) ==
    TheRule(FoldLeft(LAMBDA b, line : AddLine(b, trimmed(line), ctx),
                     [ok |-> TRUE, variables |-> NoVariables, rule |-> {}], rules))
=============================================================================
