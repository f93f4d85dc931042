-------------------------- MODULE RequirementTrees --------------------------
(***************************************************************************)
(* Requirement trees (common/endorsement): evaluating one for an           *)
(* endorsement or for a message, resolving the field paths it names, and   *)
(* reducing it to what the endorsements at hand leave unsatisfied.         *)
(*                                                                         *)
(* A node is [op, lhs, rhs] (equals, and, or), [op, terms] (all_of,        *)
(* any_of), [op, tree] (endorsement, message: a tree over one endorsement  *)
(* or over the message), a leaf of such a tree, or a constant [op].        *)
(* Identifiers have the right length: what is thrown for others is left    *)
(* out.  A path that goes on below a list is left out as well: protobuf's  *)
(* reflection ends the process there.                                      *)
(***************************************************************************)
EXTENDS MessageSchema, Integers, SequencesExt

Constant(op) == [op |-> op]
Empty        == Constant("unset")    \* NODE_TYPE_NOT_SET
FalseTree    == Constant("false")
Missing      == Constant("missing")  \* an operand that is not there

Binary      == {"equals", "and", "or"}
Connectives == Binary \union {"all_of", "any_of"}

Operands(tree) == IF tree.op \in Binary THEN <<tree.lhs, tree.rhs>> ELSE tree.terms
MakeTree(op, operands) ==
    IF op \in Binary THEN [op |-> op, lhs |-> operands[1], rhs |-> operands[2]]
                     ELSE [op |-> op, terms |-> operands]

\* has_lhs() and has_rhs(), or at least one term.
Complete(tree) == Operands(tree) # <<>> /\ \A i \in DOMAIN Operands(tree) : Operands(tree)[i] # Missing

\* The connectives, which the evaluations of all three kinds of tree share,
\* over the values of the operands.
Connective(tree, values) ==
    /\ Complete(tree)
    /\ CASE tree.op = "equals"           -> values[1] = values[2]
         [] tree.op \in {"and", "all_of"} -> \A i \in DOMAIN values : values[i]
         [] tree.op \in {"or", "any_of"}  -> \E i \in DOMAIN values : values[i]

-----------------------------------------------------------------------------
(* Field paths (field_resolver.cpp).  What may be missing is a set of at    *)
(* most one.  A resolved value is [kind, value], where bytes and strings    *)
(* are one kind; the value of a leaf is <<kind, value>>.                    *)
KindOf(type) == CASE type \in {"bytes", "string"}  -> "text"
                  [] type \in {"uint32", "uint64"} -> "uint"
                  [] OTHER                         -> type
DefaultOf(type) == CASE type \in {"bytes", "string"} -> <<>>
                     [] type = "bool"                -> FALSE
                     [] OTHER                        -> 0

FieldsNamed(type, name) == {f \in ToSet(Schema[type]) : f.name = name}

\* What a path goes into at a field: an absent sub-message is walked as its
\* default, an Any is unpacked when its type is in the snapshot of the schemas.
Inside(f, message, schemas) ==
    LET present == IF f.name \in DOMAIN message THEN {message[f.name]} ELSE {} IN
    CASE f.type \in Scalars -> {}
      [] f.type = "Any"     -> {a \in present : a.type \in schemas}
      [] OTHER -> {[type |-> f.type, message |-> m] : m \in IF present = {} THEN {<<>>} ELSE present}

\* The message and the field where a path ends.
RECURSIVE walkPath(_, _, _, _)
walkPath(type, message, path, schemas) ==
    LET named == FieldsNamed(type, Head(path)) IN
    IF Len(path) = 1 THEN {[message |-> message, field |-> f] : f \in named}
    ELSE UNION {walkPath(next.type, next.message, Tail(path), schemas) :
                    next \in UNION {Inside(f, message, schemas) : f \in named}}

\* Mutant: a message field is resolved whether it is there or not.
ResolvedUnchecked(type, path, message, schemas) ==
    {[kind |-> "bool", value |-> TRUE] : at \in
        {a \in walkPath(type, message, path, schemas) : a.field.rule # "repeated"}}

\* resolveFieldPath and readScalar: a list has no value, a message field that
\* is there has the value true, a scalar always has one.
resolveFieldPath(type, path, message, schemas) ==
    LET Read(at) ==
            LET has == at.field.name \in DOMAIN at.message IN
            CASE at.field.rule = "repeated" -> {}
              [] at.field.rule # "repeated" /\ at.field.type \in Scalars ->
                   {[kind  |-> KindOf(at.field.type),
                     value |-> IF has THEN at.message[at.field.name] ELSE DefaultOf(at.field.type)]}
              [] OTHER -> IF has THEN {[kind |-> "bool", value |-> TRUE]} ELSE {}
    IN  IF path = <<>> THEN {} ELSE UNION {Read(at) : at \in walkPath(type, message, path, schemas)}

\* Only values of one type are compared; both bytes and string take text.
resolvedValueEquals(resolved, expected) ==
    \E r \in resolved : /\ r.kind = IF expected[1] \in {"bytes", "string"} THEN "text" ELSE expected[1]
                        /\ r.value = expected[2]

resolvedValuePresent(resolved) == resolved # {}

\* The elements of a list of messages, as [type, message].
resolveRepeatedMessages(type, path, message, schemas) ==
    LET Elements(at) ==
            IF at.field.rule = "repeated" /\ at.field.type \notin Scalars /\ at.field.name \in DOMAIN at.message
            THEN {[type |-> at.field.type, message |-> m] : m \in ToSet(at.message[at.field.name])} ELSE {}
    IN  IF path = <<>> THEN {} ELSE UNION {Elements(at) : at \in walkPath(type, message, path, schemas)}

-----------------------------------------------------------------------------
(* Evaluation.  An endorsement is [subject, service, type, value, until].   *)
RECURSIVE evaluateEndorsementTree(_, _), evaluateRequirementTree(_, _)
RECURSIVE evaluateMessageTree(_, _, _), evaluateMessageRequirementTree(_, _, _)

evaluateEndorsementTree(tree, endorsement) ==
    CASE tree.op \in Connectives ->
           Connective(tree, [i \in DOMAIN Operands(tree) |->
                                evaluateEndorsementTree(Operands(tree)[i], endorsement)])
      [] tree.op = "type_equals"   -> endorsement.type = tree.value
      [] tree.op = "value_equals"  -> endorsement.value = tree.value
      [] tree.op = "signer_equals" -> endorsement.service = tree.value
      [] OTHER                     -> tree.op = "true"

evaluateRequirementTree(tree, endorsement) ==
    CASE tree.op \in Connectives ->
           Connective(tree, [i \in DOMAIN Operands(tree) |->
                                evaluateRequirementTree(Operands(tree)[i], endorsement)])
      [] tree.op = "endorsement" -> evaluateEndorsementTree(tree.tree, endorsement)
      [] OTHER                   -> tree.op = "true"

evaluateMessageTree(tree, message, schemas) ==
    CASE tree.op \in Connectives ->
           Connective(tree, [i \in DOMAIN Operands(tree) |->
                                evaluateMessageTree(Operands(tree)[i], message, schemas)])
      [] tree.op = "field_equals" ->
           resolvedValueEquals(resolveFieldPath("RSPMessage", tree.path, message, schemas), tree.value)
      [] tree.op = "field_exists" ->
           resolvedValuePresent(resolveFieldPath("RSPMessage", tree.path, message, schemas))
      [] tree.op = "field_contains" ->
           \E element \in resolveRepeatedMessages("RSPMessage", tree.path, message, schemas) :
               resolvedValueEquals(
                   resolveFieldPath(element.type, tree.sub_path, element.message, schemas), tree.value)
      [] OTHER -> tree.op = "true"

evaluateMessageRequirementTree(tree, message, schemas) ==
    CASE tree.op \in Connectives ->
           Connective(tree, [i \in DOMAIN Operands(tree) |->
                                evaluateMessageRequirementTree(Operands(tree)[i], message, schemas)])
      [] tree.op = "message" -> evaluateMessageTree(tree.tree, message, schemas)
      [] OTHER               -> tree.op = "true"

-----------------------------------------------------------------------------
(* Reduction.                                                               *)
RECURSIVE getConstantTreeValue(_), reduceRequirementTree(_, _, _, _)

\* "true", "false" or "unknown".
getConstantTreeValue(tree) ==
    IF tree.op \notin Connectives
    THEN IF tree.op \in {"true", "false"} THEN tree.op ELSE "unknown"
    ELSE LET values == {getConstantTreeValue(Operands(tree)[i]) : i \in DOMAIN Operands(tree)}
         IN  IF ~Complete(tree) THEN "unknown"
             ELSE CASE tree.op = "equals" ->
                         IF "unknown" \in values THEN "unknown"
                         ELSE IF values = {"true", "false"} THEN "false" ELSE "true"
                    [] tree.op \in {"and", "all_of"} ->
                         IF "false" \in values THEN "false"
                         ELSE IF values = {"true"} THEN "true" ELSE "unknown"
                    [] tree.op \in {"or", "any_of"} ->
                         IF "true" \in values THEN "true"
                         ELSE IF values = {"false"} THEN "false" ELSE "unknown"

anyEndorsementMatchesTree(tree, endorsements) ==
    \E e \in endorsements : evaluateRequirementTree(tree, e)

\* One term that remains stands for itself.
Rebuild(op, remaining) == IF Len(remaining) = 1 THEN remaining[1] ELSE MakeTree(op, remaining)

ReducedAnd(op, operands) ==
    LET remaining == SelectSeq(operands, LAMBDA t : t # Empty)
    IN  IF remaining = <<>> THEN Empty
        ELSE IF FalseTree \in ToSet(remaining) THEN FalseTree ELSE Rebuild(op, remaining)

\* Mutant: what is left of a disjunction is forgotten with its false terms.
ReducedOrDropsAll(op, operands) ==
    IF Empty \in ToSet(operands) THEN Empty
    ELSE IF FalseTree \in ToSet(operands) THEN FalseTree ELSE Rebuild(op, operands)

ReducedOr(op, operands) ==
    LET remaining == SelectSeq(operands, LAMBDA t : t # FalseTree)
    IN  IF Empty \in ToSet(operands) THEN Empty
        ELSE IF remaining = <<>> THEN FalseTree ELSE Rebuild(op, remaining)

ReducedEquals(left, right) ==
    IF left = Empty THEN right
    ELSE IF right = Empty THEN left
    ELSE IF left = FalseTree /\ right = FalseTree THEN Empty
    ELSE MakeTree("equals", <<left, right>>)

\* `message' is a set of at most one message.
reduceRequirementTree(tree, endorsements, message, schemas) ==
    LET constant == getConstantTreeValue(tree)
        Reduced  == [i \in DOMAIN Operands(tree) |->
                        reduceRequirementTree(Operands(tree)[i], endorsements, message, schemas)]
    IN  IF constant = "true" THEN Empty
        ELSE IF constant = "false" THEN FalseTree
        ELSE IF anyEndorsementMatchesTree(tree, endorsements) THEN Empty
        ELSE IF message # {} /\ tree.op = "message"
        THEN IF \A m \in message : evaluateMessageRequirementTree(tree, m, schemas) THEN Empty ELSE FalseTree
        ELSE IF tree.op \notin Connectives THEN tree
        ELSE IF ~Complete(tree) THEN tree
        ELSE CASE tree.op = "equals"            -> ReducedEquals(Reduced[1], Reduced[2])
               [] tree.op \in {"and", "all_of"} -> ReducedAnd(tree.op, Reduced)
               [] tree.op \in {"or", "any_of"}  -> ReducedOr(tree.op, Reduced)
=============================================================================
