--------------------------- MODULE MCMessagePath ---------------------------
(***************************************************************************)
(* The jobs of the model checker: messages with every kind of field, trees *)
(* of up to three leaves, rule files, endorsement requests and queries.    *)
(***************************************************************************)
EXTENDS MessagePath

Node == <<1, 2>>
MCService == <<3, 3>>
MCContext == ("MY_NODEID()" :> {Node}) @@ ("NODEID_FROM_FILE(key.pem)" :> {<<2, 3>>}) @@
             ("NODEID_FROM_FILE(no.pem)" :> {})
MCIdentifiers == {"x", "y"}

Plain == [rules |-> {}, default |-> Constant("true"), message |-> <<>>, sender |-> Node, languages |-> {"c++"},
          altered |-> FALSE, schemas |-> {"StreamClose"}, held |-> {}, remembers |-> FALSE,
          requests |-> {}, configured |-> <<>>, query |-> {}, advertisements |-> <<>>,
          meaning |-> {Constant("true")}, expression |-> {}]

-----------------------------------------------------------------------------
(* Messages to hash.                                                        *)
Id(n)  == [value |-> <<n>>]
Key(n) == [algorithm |-> 1, public_key |-> <<n>>]
At1(n) == [milliseconds_since_epoch |-> n]
Endorsed(n) == [subject |-> Id(n), endorsement_service |-> Id(2), endorsement_type |-> Id(1),
                endorsement_value |-> <<n>>, valid_until |-> At1(300), signature |-> <<1>>]
Bare(n) == [endorsement_value |-> <<>>, signature |-> <<n>>]
Encrypted(iv, text) == [path |-> [segments |-> <<<<1>>, <<2>>>>], iv |-> iv, ciphertext |-> text,
                        tag |-> <<>>, algorithm |-> 1]
ServiceSchema(n) == [proto_file_name |-> <<1>>, proto_file_descriptor_set |-> <<n>>,
                     accepted_type_urls |-> <<<<1>>>>, schema_hash |-> <<n>>, schema_version |-> n]
Packed(type, message) == [type |-> type, message |-> message]

Bodies ==
  {<<>>,
   [challenge_request |-> <<>>], [challenge_request |-> [nonce |-> Id(1)]],
   [identity |-> [nonce |-> Id(1), public_key |-> Key(1)]],
   [identity |-> [public_key |-> Key(1), boot_id |-> Id(1)]],
   [route |-> <<>>],
   [route |-> [entries |-> <<[hops_away |-> 1], [node_id |-> Id(1), hops_away |-> 0]>>]],
   [route |-> [entries |-> <<[hops_away |-> 1, last_seen |-> At1(1)], [hops_away |-> 0]>>]],
   [error |-> <<>>], [error |-> [error_code |-> 2, message |-> <<1, 2>>]],
   [ping_request |-> [nonce |-> Id(1), sequence |-> 17]],
   [ping_request |-> [sequence |-> 17, time_sent |-> At1(70)]],
   [ping_request |-> [sequence |-> 17, time_sent |-> At1(60000)]],
   [resource_query |-> [query |-> <<1>>, max_records |-> 1]],
   [nonce |-> Id(1)], [nonce |-> Id(2)],
   [endorsement_needed |-> [message_nonce |-> Id(1)]],
   [resource_query_reply |-> [services |-> <<[node_id |-> Id(1), schema |-> ServiceSchema(1)], <<>>>>]],
   [resource_query_reply |-> [services |-> <<[node_id |-> Id(1)], [schema |-> ServiceSchema(2)]>>]],
   [aes_key_negotiation_error |-> [error_code |-> 1, key_id |-> Id(2), message |-> <<>>]],
   [service_message |-> Packed("StreamClose", <<>>)],
   [service_message |-> Packed("StreamClose", [stream_id |-> Id(3)])]}

\* The fields that the clients hash in another way, or that the hash leaves out.
OddBodies ==
  {[trace |-> [value |-> TRUE]], [trace |-> [value |-> FALSE]],
   [log_record |-> [producer_node_id |-> Id(1), payload |-> Packed("StreamClose", [stream_id |-> Id(3)])]],
   [endorsement_needed |-> [message_nonce |-> Id(1), tree |-> [true_value |-> <<>>]]],
   [endorsement_needed |-> [message_nonce |-> Id(1), tree |-> [false_value |-> <<>>]]],
   [resource_advertisement |-> [schemas |-> <<ServiceSchema(1)>>]],
   [resource_advertisement |-> [schemas |-> <<[ServiceSchema(1) EXCEPT !.schema_version = 2]>>]],
   [resource_advertisement |->
       [records |-> <<[tcp_connect |->
           [node_id |-> Id(1), source_addresses |-> <<[ipv4 |-> 1], [ipv6 |-> <<1>>]>>]]>>]],
   [service_message |-> Packed("Unlinked", <<>>)], [service_message |-> Packed("Unlinked", [stream_id |-> Id(1)])]}

Lists ==
  {<<>>,
   [endorsements |-> <<Endorsed(1), Bare(2)>>], [endorsements |-> <<Bare(2), Endorsed(1)>>],
   [identities |-> <<[public_key |-> Key(1)], [public_key |-> Key(2), boot_id |-> Id(1)]>>],
   [encrypted_fields |-> <<Encrypted(<<1>>, <<0, 3>>)>>],
   [encrypted_fields |-> <<Encrypted(<<1, 0, 3>>, <<>>)>>]}

Addressed == [destination |-> Id(1), source |-> Id(2)]
MCMessages == {body @@ list : body \in Bodies, list \in Lists} \union
              {Addressed @@ body : body \in Bodies \union OddBodies}

\* The service messages of the clients for the comment on their hash.
ServiceJobs == {[Plain EXCEPT !.message = m, !.languages = {"nodejs", "python"}] :
                    m \in {m \in MCMessages : ~FedInPart(m)}}
HashJobs ==
    {[Plain EXCEPT !.message = m, !.languages = {"c++", "nodejs", "python", "rust"}] : m \in MCMessages} \union
    {[Plain EXCEPT !.message = m, !.altered = TRUE] : m \in MCMessages}

-----------------------------------------------------------------------------
(* Trees.                                                                   *)
Grant(type, until) == [subject |-> Node, service |-> MCService, type |-> type, value |-> <<2>>, until |-> until]
MCEndorsements ==
    {Grant(<<1, 1>>, 1), Grant(<<1, 2>>, 2),
     [subject |-> Node, service |-> Node, type |-> <<1, 1>>, value |-> <<3>>, until |-> 1]}

End(t) == [op |-> "endorsement", tree |-> t]
Mes(t) == [op |-> "message", tree |-> t]
Two(op, left, right) == [op |-> op, lhs |-> left, rhs |-> right]
TypeIs(type)   == [op |-> "type_equals", value |-> type]
ValueIs(value) == [op |-> "value_equals", value |-> value]
SignerIs(node) == [op |-> "signer_equals", value |-> node]
FieldIs(path, kind, value) == [op |-> "field_equals", path |-> path, value |-> <<kind, value>>]
Exists(path) == [op |-> "field_exists", path |-> path]
ListHas(value) == [op |-> "field_contains", path |-> <<"endorsements">>, sub_path |-> <<"endorsement_value">>,
                    value |-> <<"bytes", value>>]

EndLeavesOf == {End(TypeIs(<<1, 1>>)), End(Two("and", ValueIs(<<2>>), SignerIs(MCService))),
                End([op |-> "any_of", terms |-> <<TypeIs(<<1, 2>>), ValueIs(<<3>>)>>])}
MesLeavesOf == {Mes(FieldIs(<<"ping_request", "sequence">>, "uint", 1)),
                Mes(Two("or", Exists(<<"service_message", "stream_id">>), ListHas(<<2>>)))}
Leaves == EndLeavesOf \union MesLeavesOf \union {Constant("true"), FalseTree}

\* Leaves about every kind of field and value.
OddLeaves ==
  {Mes(t) : t \in
     {FieldIs(<<"ping_request", "sequence">>, "uint", 0), FieldIs(<<"ping_request">>, "bool", TRUE),
      FieldIs(<<"trace", "value">>, "bool", FALSE), FieldIs(<<"error", "error_code">>, "enum", -2),
      FieldIs(<<"error", "message">>, "string", <<1, 3>>), FieldIs(<<"ping_request", "sequence">>, "int", -8),
      FieldIs(<<"ping_request", "sequence">>, "int", 7), FieldIs(<<"ping_request", "sequence">>, "uint", 15),
      FieldIs(<<"signature", "signer", "value">>, "bytes", Node), FieldIs(<<"signature", "signer">>, "bytes", Node),
      FieldIs(<<"service_message", "stream_id", "value">>, "bytes", <<3>>),
      FieldIs(<<"destination", "none">>, "bytes", <<>>), Exists(<<"endorsements">>), Exists(<<"destination">>),
      Exists(<<"destination", "value">>), Exists(<<"service_message">>), Exists(<<"nothing">>),
      Exists(<<"service_message", "stream_id", "value">>),
      [ListHas(<<1>>) EXCEPT !.path = <<"ping_request">>], ListHas(<<1>>),
      [op |-> "all_of", terms |-> <<>>],
      [op |-> "all_of", terms |-> <<Exists(<<"ping_request">>), Constant("true"), Exists(<<"signature">>)>>],
      Two("equals", Exists(<<"ping_request">>), FalseTree), Empty}}
OddTrees ==
  OddLeaves \union {Empty, [op |-> "all_of", terms |-> <<>>], End(Constant("true")), End(Empty)} \union
  {Two("and", t, Missing) : t \in Leaves} \union {Two("or", Empty, t) : t \in Leaves} \union
  {Two("equals", s, t) : s \in Leaves, t \in Leaves}

Pairs == {Two(op, s, t) : op \in {"and", "or"}, s \in Leaves, t \in Leaves}
Nested == {[op |-> op, terms |-> <<s, Two(inner, t, u), s>>] :
              op \in {"all_of", "any_of"}, inner \in {"and", "or"}, s \in Leaves,
              t \in EndLeavesOf, u \in EndLeavesOf \union MesLeavesOf}

TreeMessages ==
  {<<>>, [ping_request |-> [sequence |-> 1]], [service_message |-> Packed("StreamClose", [stream_id |-> Id(3)])],
   [ping_request |-> <<>>, endorsements |-> <<Endorsed(1), Endorsed(2)>>]}

TreeJob(t, m, held) == [Plain EXCEPT !.default = t, !.meaning = {t}, !.message = m, !.held = held]
TreeJobs ==
    {TreeJob(t, m, held) : t \in Leaves \union Pairs, m \in TreeMessages, held \in SUBSET MCEndorsements} \union
    {TreeJob(t, m, held) : t \in Nested, m \in {<<>>, [ping_request |-> [sequence |-> 1]]},
                           held \in {{}, {Grant(<<1, 1>>, 1)}, MCEndorsements}} \union
    {[TreeJob(t, m, {}) EXCEPT !.schemas = schemas] :
        t \in OddTrees, m \in TreeMessages, schemas \in {{}, {"StreamClose"}}}

-----------------------------------------------------------------------------
(* Rule files, each with what it means.                                     *)
Sp == " "
Let(name, text) == <<"let", Sp, name, Sp, "=", Sp>> \o text
Use(name) == <<"${", name, "}">>
File(lines, meaning) == [lines |-> lines, meaning |-> meaning]

Files(s, t) ==
  LET S == toString(s) T == toString(t) IN
  {File(<<<<"#", "NODEID_FROM_FILE(no.pem)">>, <<Sp, Sp>>, <<Sp>> \o S \o <<Sp>>, <<"//">> \o T>>, {s}),
   File(<<Let("x", S), Let("y", <<"OR(">> \o Use("x") \o <<",">> \o T \o <<Sp, ")">>),
          <<"AND(", Sp>> \o Use("y") \o <<Sp, ",">> \o Use("x") \o <<")">>>>, {Two("and", Two("or", s, t), s)}),
   File(<<Let("x", S), Let("x", T), Use("x")>>, {}),
   File(<<Let("x", S), Use("y")>>, {}), File(<<Let("x", Use("x")), S>>, {}),
   File(<<S, T>>, {}), File(<<S, Let("x", T)>>, {}), File(<<Let("x", T)>>, {}), File(<<>>, {}),
   File(<<Let("1x", S), T>>, {}), File(<<<<"let", Sp, "x", Sp>> \o S, T>>, {}), File(<<Let("x", <<>>), T>>, {}),
   File(<<S \o <<")">>>>, {}), File(<<Front(S)>>, {}), File(<<<<"AND(">> \o S \o <<")">>>>, {}),
   File(<<<<"ALLOF(">> \o S \o <<",">> \o T \o <<",">> \o S \o <<")">>>>, {[op |-> "all_of", terms |-> <<s, t, s>>]}),
   File(<<<<"ANYOF(", Sp, ")">>>>, {[op |-> "any_of", terms |-> <<>>]}),
   File(<<<<"SOURCE(", "MY_NODEID()", ")">>>>, {Mes(FieldIs(<<"signature", "signer", "value">>, "bytes", Node))}),
   File(<<<<"ENDORSEMENT_SIGNER(", "NODEID_FROM_FILE(key.pem)", ")">>>>, {End(SignerIs(<<2, 3>>))}),
   File(<<<<"ENDORSEMENT_SIGNER(", "NODEID_FROM_FILE(no.pem)", ")">>>>, {}),
   File(<<<<"ENDORSEMENT(", "OR(", "ENDORSEMENT_VALUE(", "02", ")", ",", "TRUE", ")", ")">>>>,
        {End(Two("or", ValueIs(<<2>>), Constant("true")))}),
   File(<<<<"MESSAGE(", "FIELD_EQ(", "error", ".", "error_code", ".", ",", "enum(", "-", ")", ")", ")">>>>,
        {Mes(FieldIs(<<"error", "error_code">>, "enum", 0))}),
   File(<<<<"MESSAGE(", "FIELD_EQ(", "error", ",", "-", "01", "u", ")", ")">>>>, {})}

RuleJobs == {[Plain EXCEPT !.rules = {file.lines}, !.meaning = file.meaning, !.message = [ping_request |-> <<>>]] :
                file \in UNION {Files(s, t) : s \in EndLeavesOf, t \in MesLeavesOf \union {FalseTree}}}

-----------------------------------------------------------------------------
(* Requests for endorsements.                                               *)
Values(type, value) == [whole |-> TRUE, subject |-> Node, service |-> Node, signer |-> Node,
                        type |-> type, value |-> value]
Good == Values(<<1, 1>>, <<2>>)
Request(identity, values) == [identity |-> identity, values |-> values]
Requests == {Request("unknown", {Good}), Request("other", {Good}), Request("own", {}), Request("own", {Good}),
             Request("own", {Values(<<1, 2>>, <<2>>)}), Request("own", {[Good EXCEPT !.whole = FALSE]}),
             Request("own", {[Good EXCEPT !.subject = <<2, 2>>]}), Request("own", {[Good EXCEPT !.signer = <<2, 2>>]}),
             Request("own", {[Good EXCEPT !.service = MCService]})}
Offer(requestor, type, validFor) == [requestor |-> requestor, type |-> type, value |-> <<2>>, validFor |-> validFor]
RequestJobs ==
    {[TreeJob(Two("and", End(TypeIs(<<1, 1>>)), End(TypeIs(type))), m, {})
        EXCEPT !.remembers = TRUE, !.requests = Requests, !.configured = configured] :
        type \in {<<1, 1>>, <<1, 2>>}, m \in TreeMessages,
        configured \in {<<Offer({<<2, 2>>}, <<1, 1>>, 2), Offer({}, <<1, 2>>, 2), Offer({Node}, <<1, 2>>, 0)>>,
                        <<Offer({Node}, <<1, 1>>, 0), Offer({<<2, 2>>}, <<1, 2>>, 1)>>,
                        <<Offer({Node}, <<1, 1>>, 0), Offer({}, <<1, 2>>, 2)>>}}

-----------------------------------------------------------------------------
(* Queries, written with the fewest parentheses.  Strings are numbers as    *)
(* well; a token says which of the two it is.                               *)
Compare(field, op, isInteger, value) ==
    [kind |-> "Comparison", field |-> field, op |-> op, isInteger |-> isInteger, value |-> value]
Comparisons == {Compare("node.id", "Equal", FALSE, 1), Compare("service.schema_version", "NotEqual", TRUE, 1),
                Compare("service.accepted_type_urls", "Has", FALSE, 1),
                Compare("service.accepted_type_urls", "NotEqual", FALSE, 1)}
OddComparisons == {Compare("node.id", "NotEqual", TRUE, 1), Compare("service.schema_version", "Equal", FALSE, 1),
                   Compare("service.schema_hash", "Has", FALSE, 1), Compare("nothing", "NotEqual", FALSE, 1),
                   Compare("service.proto_file_name", "NotEqual", FALSE, 1), [kind |-> "Empty"]}
Not(e) == [kind |-> "Not", left |-> e]
Both(kind, e, f) == [kind |-> kind, left |-> e, right |-> f]
Halves == Comparisons \union {Not(e) : e \in Comparisons} \union
          {Both(kind, e, f) : kind \in {"And", "Or"}, e \in Comparisons, f \in Comparisons}
Expressions == Halves \union OddComparisons \union {Not(e) : e \in Halves} \union
               {Both(kind, e, f) : kind \in {"And", "Or"}, e \in Halves, f \in Comparisons} \union
               {Both(kind, e, f) : kind \in {"And", "Or"}, e \in Comparisons, f \in Halves}

Token(type) == <<[type |-> type, text |-> ""]>>
Strength(e) == CASE e.kind = "Or" -> 1 [] e.kind = "And" -> 2 [] OTHER -> 3
RECURSIVE Written(_, _)
Written(e, strength) ==
    IF Strength(e) < strength THEN Token("LeftParen") \o Written(e, 1) \o Token("RightParen")
    ELSE CASE e.kind = "Empty" -> <<>>
           [] e.kind = "Not" -> Token("Not") \o Written(e.left, 3)
           [] e.kind \in {"And", "Or"} ->
                Written(e.left, Strength(e)) \o Token(e.kind) \o Written(e.right, Strength(e) + 1)
           [] e.kind = "Comparison" ->
                <<[type |-> "Identifier", text |-> e.field], [type |-> e.op, text |-> ""],
                  IF e.isInteger THEN [type |-> "Integer", text |-> e.value + Word32]
                                 ELSE [type |-> "String", text |-> e.value]>>

Service1(n, version, urls) == [file |-> 1, hash |-> n, version |-> version, types |-> urls]
Adverts == (1 :> <<Service1(1, 1, {1}), Service1(2, 2, {2})>>) @@
           (2 :> <<Service1(1, 2, {1, 2})>>) @@ (3 :> <<>>) @@ (4 :> <<Service1(3, 1, {})>>)
QueryJob(tokens, expression, max) ==
    [Plain EXCEPT !.query = {tokens}, !.expression = expression, !.advertisements = Adverts,
                  !.message = [resource_query |-> [query |-> <<1>>, max_records |-> max]]]
Broken(e) == LET tokens == Written(e, 1)
             IN  {Front(tokens), Tail(tokens), tokens \o Token("RightParen"), tokens \o tokens,
                  Token("LeftParen") \o tokens, tokens \o Token("And")}
QueryJobs == {QueryJob(Written(e, 1), {e}, max) : e \in Expressions, max \in {0, 2}} \union
             {QueryJob(tokens, {}, 0) : tokens \in UNION {Broken(e) : e \in Comparisons}}

MCJobs == HashJobs \union TreeJobs \union RuleJobs \union RequestJobs \union QueryJobs
=============================================================================
