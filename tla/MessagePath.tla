---------------------------- MODULE MessagePath ----------------------------
(***************************************************************************)
(* The way of one message through the resource manager: the rules are      *)
(* loaded, a node signs the message, it arrives, its signature is checked, *)
(* the rules are evaluated, and a resource query is answered.  A sender    *)
(* whose message is refused may ask an endorsement service for an          *)
(* endorsement and send the message again.                                 *)
(*                                                                         *)
(* A job is what one behaviour is about:                                   *)
(*   rules     the lines of message_rules, as a set of at most one list    *)
(*   default   the tree when there are none (a subclass may have its own)  *)
(*   message   the message, unsigned, and sender, the node that signs it   *)
(*   languages the implementations that may sign it                        *)
(*   altered   whether another message may arrive in its place             *)
(*   schemas   the message types that the resource manager knows           *)
(*   held      the endorsements the resource manager finds for the sender  *)
(*   remembers whether it also finds those granted later                   *)
(*   requests  what the sender may ask the endorsement service for         *)
(*   configured the endorsements the service is set up to grant            *)
(*   query, advertisements   of a resource query                           *)
(*   meaning, expression   what the rules and the query mean: at most one  *)
(***************************************************************************)
EXTENDS MessageRules, MessageHash, FiniteSets

CONSTANTS Jobs,           \* the jobs
          Messages,       \* the messages that may arrive in the place of another
          Context,        \* the identifiers that the rules' macros stand for
          Service,        \* the endorsement service
          Endorsements    \* the endorsements a sender may have or obtain

VARIABLES job, stage, tree, wire, arrived, granted, reply

vars == <<job, stage, tree, wire, arrived, granted, reply>>

Q == INSTANCE ResourceQuery WITH UInt32 <- Word32

NoMessage == <<>>
NoReply   == [status |-> "none"]

Init ==
    /\ job \in Jobs
    /\ stage = "start"
    /\ tree = Empty
    /\ wire = <<>>
    /\ arrived = NoMessage
    /\ granted = {}
    /\ reply = NoReply

\* The configuration of the resource manager: without rules, the default.
Start(built) ==
    /\ stage' = IF built.ok THEN "loaded" ELSE "stopped"
    /\ tree' = IF built.ok THEN built.value ELSE tree
LoadRules ==
    /\ stage = "start"
    /\ Start(IF job.rules = {} THEN Got(job.default, <<>>)
             ELSE buildMessageRulesTree(CHOOSE rules \in job.rules : TRUE, Context))
    /\ UNCHANGED <<job, wire, arrived, granted, reply>>

-----------------------------------------------------------------------------
(* Signing.  The signer is written big-endian, source and destination in    *)
(* the byte order of the host, which is the other one.                      *)
SignatureBlock(node) == [signer |-> [value |-> node], algorithm |-> 1, signature |-> <<1>>]
Unsigned(message) == [name \in DOMAIN message \ {"signature"} |-> message[name]]

signMessage(language) ==
    /\ stage = "loaded"
    /\ LET hash == HashOf(language, job.message)
       IN  IF hash = Raise
           THEN stage' = "unsent" /\ UNCHANGED wire
           ELSE /\ stage' = "sent"
                /\ wire' = [language |-> language, hash |-> hash,
                            message |-> job.message @@ [signature |-> SignatureBlock(job.sender)]]
    /\ UNCHANGED <<job, tree, arrived, granted, reply>>

\* The message, or another one with its signature.
Deliver ==
    /\ stage = "sent"
    /\ \E message \in {job.message} \union (IF job.altered THEN Messages ELSE {}) :
           arrived' = message @@ [signature |-> wire.message.signature]
    /\ stage' = "arrived"
    /\ UNCHANGED <<job, tree, wire, granted, reply>>

\* verifyMessageSignature; a message that fails is answered with an error.
CheckSignature ==
    /\ stage = "arrived"
    /\ IF computeMessageHash(arrived) = wire.hash
       THEN stage' = "verified" /\ UNCHANGED reply
       ELSE stage' = "rejected" /\ reply' = [status |-> "SIGNATURE_FAILED"]
    /\ UNCHANGED <<job, tree, wire, arrived, granted>>

-----------------------------------------------------------------------------
(* Authorization (mq_authz.cpp and the callbacks of the resource manager).  *)
nodeIdFromSourceField(field) == IF Len(field.value) = 2 THEN {Reverse(field.value)} ELSE {}
nodeIdFromSignerField(field) == IF Len(field.value) = 2 THEN {field.value} ELSE {}

\* The signer, else the source; a set of at most one node.
senderNodeIdFromMessage(message) ==
    LET signer == IF "signature" \in DOMAIN message
                  THEN nodeIdFromSignerField(message.signature.signer) ELSE {}
    IN  IF signer # {} THEN signer
        ELSE IF "source" \in DOMAIN message THEN nodeIdFromSourceField(message.source) ELSE {}

\* None in the resource manager as it is; a subclass looks them up.
getAuthorizationEndorsements(node) == job.held \union (IF job.remembers THEN granted ELSE {})

handleMessage ==
    /\ stage = "verified"
    /\ LET sender       == senderNodeIdFromMessage(arrived)
           endorsements == UNION {getAuthorizationEndorsements(node) : node \in sender}
           reduced      == reduceRequirementTree(tree, endorsements, {arrived}, job.schemas)
       IN  IF sender # {} /\ reduced = Empty
           THEN stage' = "authorized" /\ UNCHANGED reply
           \* handleAuthorizationFailure: the whole tree is sent back.
           ELSE stage' = "needed" /\ reply' = IF sender = {} THEN NoReply ELSE [needed |-> tree]
    /\ UNCHANGED <<job, tree, wire, arrived, granted>>

-----------------------------------------------------------------------------
(* The endorsement service.  A request is [identity, values]: the key that  *)
(* the service has for the sender ("unknown", "own" or "other"), and at     *)
(* most one of the requested values [whole, subject, service, type, value,  *)
(* signer], not whole when fields are missing.  A configured endorsement is *)
(* [requestor, type, value, validFor], its requestor a set of at most one.  *)
Day == 1

\* Mutant: the requestor of a configured endorsement is not looked at.
MatchesAnybody(node, values) ==
    {i \in DOMAIN job.configured : /\ job.configured[i].type = values.type
                                   /\ job.configured[i].value = values.value}

findMatchingConfiguredEndorsement(node, values) ==
    {i \in DOMAIN job.configured : /\ job.configured[i].requestor \in {{}, {node}}
                                   /\ job.configured[i].type = values.type
                                   /\ job.configured[i].value = values.value}

\* The values as requested, valid for as long as the first match says.
createSigned(values) ==
    LET matches == findMatchingConfiguredEndorsement(job.sender, values)
        first   == CHOOSE i \in matches : \A k \in matches : i <= k
    IN  [subject |-> values.subject, service |-> Service, type |-> values.type, value |-> values.value,
         until |-> IF matches # {} /\ job.configured[first].validFor > 0
                   THEN job.configured[first].validFor ELSE Day]

EndorsementStatus(request) ==
    LET values == CHOOSE v \in request.values : TRUE IN
    IF request.identity = "unknown" THEN "ENDORSEMENT_UNKNOWN_IDENTITY"
    ELSE IF request.values = {} \/ request.identity = "other" THEN "ENDORSEMENT_INVALID_SIGNATURE"
    ELSE IF ~values.whole THEN "ENDORSEMENT_FAILED"
    ELSE IF {values.subject, values.service, values.signer} # {job.sender} THEN "ENDORSEMENT_INVALID_SIGNATURE"
    ELSE IF job.configured # <<>> /\ findMatchingConfiguredEndorsement(job.sender, values) = {}
         THEN "ENDORSEMENT_FAILED"
    ELSE "ENDORSEMENT_SUCCESS"

handleBeginEndorsementRequest(request) ==
    /\ stage = "needed"
    /\ reply' = [status |-> EndorsementStatus(request)]
    /\ IF EndorsementStatus(request) = "ENDORSEMENT_SUCCESS"
       THEN /\ stage' = "granted"
            /\ granted' = granted \union {createSigned(values) : values \in request.values}
       ELSE stage' = "refused" /\ UNCHANGED granted
    /\ UNCHANGED <<job, tree, wire, arrived>>

\* The sender tries once more.
Retry ==
    /\ stage = "granted"
    /\ stage' = "loaded"
    /\ UNCHANGED <<job, tree, wire, arrived, granted, reply>>

-----------------------------------------------------------------------------
\* handleResourceQuery for a query that came through.
AnswerQuery ==
    /\ stage = "authorized" /\ job.query # {}
    /\ LET parsed == Q!parseQueryExpression(CHOOSE tokens \in job.query : TRUE)
       IN  reply' = IF ~parsed.ok THEN [status |-> "invalid resource query"]
                    ELSE [services |-> Q!Services(job.advertisements, parsed.expr,
                                                  job.message.resource_query.max_records)]
    /\ stage' = "answered"
    /\ UNCHANGED <<job, tree, wire, arrived, granted>>

Next ==
    \/ LoadRules
    \/ \E language \in job.languages : signMessage(language)
    \/ Deliver
    \/ CheckSignature
    \/ handleMessage
    \/ \E request \in job.requests : handleBeginEndorsementRequest(request)
    \/ Retry
    \/ AnswerQuery

Spec == Init /\ [][Next]_vars

Stages == {"start", "stopped", "loaded", "unsent", "sent", "arrived", "verified", "rejected",
           "authorized", "needed", "refused", "granted", "answered"}

TypeOK ==
    /\ stage \in Stages
    /\ granted \subseteq Endorsements
    /\ wire # <<>> => wire.language \in job.languages

-----------------------------------------------------------------------------
(* What the properties compare the code with.                               *)
Has(message, names) == DOMAIN message \intersect names # {}

\* The fields in which the hand-written hash and the schema differ.
HashedApart(message) ==
    \/ Has(message, {"trace", "resource_advertisement", "log_record"})
    \/ Has(message, {"endorsement_needed"}) /\ "tree" \in DOMAIN message.endorsement_needed

\* What a client cannot hash.
Unhashable(message) ==
    \/ Has(message, {"service_message", "log_record"})
    \/ Has(message, {"error"}) /\ message.error = <<>>
    \/ /\ Has(message, {"ping_request"}) /\ "time_sent" \in DOMAIN message.ping_request
       /\ message.ping_request.time_sent.milliseconds_since_epoch > SafeInteger

\* Messages that have content which is not hashed at all.
FedInPart(message) ==
    \/ Has(message, {"resource_advertisement"})
    \/ Has(message, {"service_message"}) /\ message.service_message.type \notin DOMAIN Schema

\* Every field of a message that a path can name, with its kind and value.
RECURSIVE Facts(_, _, _)
Facts(type, message, schemas) ==
    LET Present(f)      == IF f.name \in DOMAIN message THEN {<< <<f.name>>, "bool", TRUE>>} ELSE {}
        Below(f, facts) == {<< <<f.name>> \o fact[1], fact[2], fact[3]>> : fact \in facts}
        Of(f) ==
            CASE f.rule = "repeated" -> {}
              [] f.rule # "repeated" /\ f.type \in Scalars ->
                   {<< <<f.name>>, KindOf(f.type),
                       IF f.name \in DOMAIN message THEN message[f.name] ELSE DefaultOf(f.type)>>}
              [] f.type = "Any" ->
                   Present(f) \union
                   (IF f.name \in DOMAIN message /\ message[f.name].type \in schemas
                    THEN Below(f, Facts(message[f.name].type, message[f.name].message, schemas)) ELSE {})
              [] f.rule # "repeated" /\ f.type \notin Scalars \union {"Any"} ->
                   Present(f) \union
                   Below(f, Facts(f.type, IF f.name \in DOMAIN message THEN message[f.name] ELSE <<>>, schemas))
    IN  UNION {Of(Schema[type][i]) : i \in DOMAIN Schema[type]}

FieldHolds(leaf, type, message, schemas) ==
    <<leaf.path, IF leaf.value[1] \in {"bytes", "string"} THEN "text" ELSE leaf.value[1], leaf.value[2]>>
        \in Facts(type, message, schemas)

LeafHolds(leaf, message, schemas) ==
    CASE leaf.op = "field_equals" -> FieldHolds(leaf, "RSPMessage", message, schemas)
      [] leaf.op = "field_exists" -> \E fact \in Facts("RSPMessage", message, schemas) : fact[1] = leaf.path
      [] leaf.op = "field_contains" ->
           /\ leaf.path = <<"endorsements">> /\ "endorsements" \in DOMAIN message
           /\ \E i \in DOMAIN message.endorsements :
                  FieldHolds([leaf EXCEPT !.path = leaf.sub_path], "Endorsement", message.endorsements[i], schemas)
      [] OTHER -> FALSE

\* A tree whose leaves are true or false.
Truth(root, Leaf(_)) ==
    LET RECURSIVE Holds(_)
        Holds(t) == CASE t.op \in {"and", "all_of"} ->
                            Complete(t) /\ \A i \in DOMAIN Operands(t) : Holds(Operands(t)[i])
                       [] t.op \in {"or", "any_of"} ->
                            Complete(t) /\ \E i \in DOMAIN Operands(t) : Holds(Operands(t)[i])
                       [] t.op = "equals" -> Complete(t) /\ (Holds(t.lhs) <=> Holds(t.rhs))
                       [] t.op \in {"true", "false"} -> t.op = "true"
                       [] OTHER -> Leaf(t)
    IN  Holds(root)

EndorsementHolds(leaf, e) ==
    \/ leaf.op = "type_equals" /\ leaf.value = e.type
    \/ leaf.op = "value_equals" /\ leaf.value = e.value
    \/ leaf.op = "signer_equals" /\ leaf.value = e.service

\* What a requirement says: each endorsement leaf of some endorsement, each
\* message leaf of the message.
Satisfied(requirement, endorsements, message) ==
    Truth(requirement, LAMBDA t :
        CASE t.op = "endorsement" ->
               \E e \in endorsements : Truth(t.tree, LAMBDA leaf : EndorsementHolds(leaf, e))
          [] t.op = "message" -> Truth(t.tree, LAMBDA leaf : LeafHolds(leaf, message, job.schemas))
          [] OTHER -> t.op = "unset")

RECURSIVE Monotone(_)
Monotone(t) == \/ t.op \notin Connectives
               \/ t.op # "equals" /\ \A i \in DOMAIN Operands(t) : Monotone(Operands(t)[i])

RECURSIVE Printable(_)
Printable(t) == \/ t.op \in Connectives /\ \A i \in DOMAIN Operands(t) : Printable(Operands(t)[i])
                \/ t.op \in {"endorsement", "message"} /\ Printable(t.tree)
                \/ t.op \notin Connectives \union {"unset", "missing", "endorsement", "message"}

\* The candidates a query means, as an algebra of sets.
RECURSIVE Selected(_, _)
Selected(expression, candidates) ==
    LET Attributes(c) == {<<"node.id", FALSE, c.node>>, <<"service.proto_file_name", FALSE, c.schema.file>>,
                          <<"service.schema_hash", FALSE, c.schema.hash>>,
                          <<"service.schema_version", TRUE, c.schema.version>>}
        fact == <<expression.field, expression.isInteger, expression.value>>
        Typed(c) == \E a \in Attributes(c) : a[1] = expression.field /\ a[2] = expression.isInteger
    IN  CASE expression.kind = "Empty" -> candidates
          [] expression.kind = "And" -> Selected(expression.left, candidates) \intersect
                                        Selected(expression.right, candidates)
          [] expression.kind = "Or"  -> Selected(expression.left, candidates) \union
                                        Selected(expression.right, candidates)
          [] expression.kind = "Not" -> candidates \ Selected(expression.left, candidates)
          [] expression.kind = "Comparison" ->
               IF expression.field = "service.accepted_type_urls"
               THEN {c \in candidates : /\ ~expression.isInteger
                                        /\ (expression.value \in c.schema.types) # (expression.op = "NotEqual")}
               ELSE {c \in candidates : /\ Typed(c)
                                        /\ \/ expression.op = "Equal" /\ fact \in Attributes(c)
                                           \/ expression.op = "NotEqual" /\ fact \notin Attributes(c)}

-----------------------------------------------------------------------------
(* The properties.                                                          *)

\* The four implementations of the canonical hash (mq_signing.cpp and the
\* schema-driven hashes of the clients) give the same hash to a message outside
\* the fields named in HashedApart; a client fails to hash only a service
\* message (Python, Rust), an enum that is absent (Python), and an integer that
\* a JavaScript number cannot hold or a type it does not know (Node.js).
HashesAgree ==
    /\ wire # <<>> /\ ~HashedApart(job.message) => wire.hash = computeMessageHash(job.message)
    /\ stage = "unsent" => Unhashable(job.message)

\* The comment in hashServiceMessage: the fields of a service message are hashed
\* so that the result matches the hash that the JS and Python clients produce
\* from their schemas.
ServiceMessageHashesMatch ==
    Has(job.message, {"service_message"}) =>
        /\ stage # "unsent"
        /\ wire # <<>> => wire.hash = computeMessageHash(job.message)

\* A message that passes the signature check (verifyMessageSignature) is the
\* one that was signed, although lists, absent fields and byte strings of any
\* length are fed one after the other.  What is left out of the hash (the hash
\* and version of advertised schemas, a service message of a type that is not
\* linked in) is left out here.
OnlyTheSignedMessagePasses ==
    stage \in {"verified", "authorized", "needed", "answered"} /\ ~FedInPart(job.message)
        => Unsigned(arrived) = job.message

\* A message is authorized (MessageQueueAuthZ::handleMessage) exactly when the
\* tree holds of it and of the sender's endorsements: reducing the tree step by
\* step, with constants folded and single endorsements tried on whole subtrees,
\* changes nothing in what it means.
AuthorizedIffSatisfied ==
    stage \in {"authorized", "needed"} /\ Monotone(tree)
        => ((stage = "authorized") <=>
               Satisfied(tree, getAuthorizationEndorsements(job.sender), arrived))

\* What reduceRequirementTree leaves is what is missing: further endorsements
\* satisfy the reduced tree exactly when, with those already there, they
\* satisfy the whole, whether or not the message was at hand.
ReducedTellsWhatIsMissing ==
    stage = "verified" /\ Monotone(tree) =>
        \A more \in SUBSET Endorsements, known \in {{}, {arrived}} :
            LET held == getAuthorizationEndorsements(job.sender)
            IN  Satisfied(reduceRequirementTree(tree, held, known, job.schemas), more, arrived)
                    <=> Satisfied(tree, held \union more, arrived)

\* A tree is read back from its text as it was (toString, fromString), a tree
\* that was reduced as well.  And the authorization tree is what the rule lines
\* mean (buildMessageRulesTree): the rule with its variables and macros
\* substituted; lines that mean nothing are refused, and only those.
TextKeepsItsMeaning ==
    /\ stage = "stopped" => job.meaning = {}
    /\ stage = "loaded" => job.meaning = {tree}
    /\ stage \in {"loaded", "verified"} =>
         LET reduced == reduceRequirementTree(tree, job.held, {}, job.schemas)
         IN  \A t \in {tree, reduced} :
                 Printable(t) \/ t = Empty => fromString(toString(t), NoVariables) = Got(t, <<>>)

\* The state keeps its types, and
\* the endorsement service grants a node nothing but what that node asked for
\* itself and, when the service has a list, what the list has for that node.
GrantedAsConfigured ==
    /\ TypeOK
    /\ \A e \in granted :
        /\ e.subject = job.sender /\ e.service = Service
        /\ job.configured # <<>> =>
               \E i \in DOMAIN job.configured :
                   /\ job.configured[i].type = e.type /\ job.configured[i].value = e.value
                   /\ job.configured[i].requestor = {} \/ job.sender \in job.configured[i].requestor

\* A query is answered with the services it means: NOT binds before AND, AND
\* before OR, and a literal of the wrong type selects nothing (parseOr,
\* matchesExpression); max_records cuts the answer and nothing else.
QuerySelectsWhatItMeans ==
    stage = "answered" =>
        LET all  == ToSet(Q!Candidates(job.advertisements))
            max  == job.message.resource_query.max_records
        IN  IF job.expression = {} THEN reply = [status |-> "invalid resource query"]
            ELSE LET selected == Selected(CHOOSE e \in job.expression : TRUE, all)
                 IN  /\ "services" \in DOMAIN reply
                     /\ ToSet(reply.services) \subseteq selected
                     /\ Cardinality(ToSet(reply.services)) =
                            IF max = 0 \/ max > Cardinality(selected) THEN Cardinality(selected) ELSE max
=============================================================================
