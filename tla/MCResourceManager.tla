-------------------------- MODULE MCResourceManager --------------------------
(* Three connections, c1 and c2 from the same node when a plan says so. *)
EXTENDS ResourceManager, TLC

CONSTANTS c1, c2, c3

Q == INSTANCE ResourceQuery WITH UInt32 <- 4
MCParse(query) == Q!parseQueryExpression(query)
MCServices(listed, expr, max) == Q!Services(listed, expr, max)

Opening == <<"select", "challenge", "identity">>
Schema(file, hash) == [file |-> file, hash |-> hash, version |-> 1, types |-> {"t"}]

Data(n) == [kind |-> "data", to |-> "a", number |-> n]
Advertisement(schemas) == [kind |-> "advertisement", to |-> RM, schemas |-> schemas]
SchemaRequest(file, hash) == [kind |-> "schema request", to |-> RM, file |-> file, hash |-> hash]
Query(tokens, max) == [kind |-> "resource query", to |-> RM, query |-> tokens, max |-> max]
Subscribe(type, valid) ==
    [kind |-> "subscribe", to |-> RM,
     request |-> [type |-> type, filter |-> {"a", "b"}, valid |-> valid]]
Unsubscribe(id) == [kind |-> "unsubscribe", to |-> RM, id |-> id]
Ping == [kind |-> "ping", to |-> RM]

Three(x, y, z) == (c1 :> x) @@ (c2 :> y) @@ (c3 :> z)
Plan(node, opening, sends, breaks, forbidden, expires) ==
    [node |-> node, opening |-> opening,
     sends |-> [c \in Conn |-> [i \in DOMAIN sends[c] |-> sends[c][i] @@ [from |-> c]]],
     losses |-> breaks, forbidden |-> forbidden, expires |-> expires]

\* Node a connects twice while b sends to it.
Reconnect ==
    Plan(Three("a", "a", "b"), Three(Opening, Opening, Opening),
         Three(<<>>, <<>>, <<Data(1), Data(2)>>), 1, {}, FALSE)

\* Two nodes advertise, replace and withdraw versions of the same file; a node that
\* is written to before it has connected.
Advertising ==
    Plan(Three("a", "b", "c"), (c1 :> Opening) @@ (c2 :> Opening),
         Three(<<Advertisement(<<Schema("f", "h1"), Schema("g", NoHash)>>),
                 SchemaRequest("f", NoHash), Advertisement(<<>>)>>,
               <<Data(1), Advertisement(<<Schema("f", "h2"), Schema("f", "h1")>>), Query(<<>>, 1)>>,
               <<>>), 0, {}, FALSE)

\* b watches a come and go.
Watching(first, second, expires) ==
    Plan(Three("a", "c", "b"), (c1 :> Opening) @@ (c3 :> Opening),
         Three(<<Ping>>, <<>>, <<Subscribe(first, TRUE), second>>), 1, {}, expires)

\* Openings that fail, or never end, and a message that is not authorized.
Openings ==
    {Plan(Three("a", "b", "c"), Three(bad, <<"select", "identity", "challenge">>, silent),
          Three(<<>>, <<Data(1), SchemaRequest(None, NoHash)>>, <<>>), 1, {"data"}, FALSE) :
        bad \in {<<"other">>, <<"select", "other">>, <<"select", "identity", "identity">>},
        silent \in {<<>>, <<"select">>}}

MCPlans ==
    {Reconnect, Advertising,
     Watching("connected", Subscribe("disconnected", TRUE), FALSE),
     Watching("connected", Unsubscribe(1), FALSE),
     Watching("disconnected", Subscribe("disconnected", TRUE), FALSE),
     Watching("disconnected", Subscribe("connected", FALSE), TRUE),
     Plan(Three("a", "b", "c"), (c1 :> Opening),
          Three(<<SchemaRequest(None, "h1"), Query(<<[type |-> "Not", text |-> "NOT"]>>, 0)>>,
                <<>>, <<>>), 1, {}, FALSE)}
    \cup Openings

=============================================================================
