-------------------------- MODULE ResourceManager --------------------------
(***************************************************************************)
(* The resource manager (resource_manager.cpp): sessions, the routing of   *)
(* messages between the nodes that have one, the resource advertisements   *)
(* with the schema registry, resource queries, and the log records about   *)
(* connections that other nodes subscribe to.                              *)
(*                                                                         *)
(* Threads: the workers of the handshake and authentication queues and the *)
(* read loops (module Sessions), one worker for each of the authorization, *)
(* input and output queues, and for each session one that signs and one    *)
(* that writes.                                                            *)
(***************************************************************************)
EXTENDS Sessions, SchemaRegistry

CONSTANTS
    Node,              \* the ids of other nodes
    RM, None,          \* the resource manager's own node id; no node
    ParsedQuery(_), MatchingServices(_, _, _)   \* the query language: module ResourceQuery

VARIABLES
    unrouted,          \* the node routeAndSend has found no encoding for, or None
    inputQueue, outputQueue,
    signing, outgoing, \* per connection: the queue of the signing worker and of the writer
    adverts,           \* resourceAdvertisements_: node |-> its schemas
    sent, got,         \* per connection: messages its peer has sent, messages it has received
    losses             \* connections broken so far

queueVars == <<verified, unrouted, inputQueue, outputQueue, signing, outgoing>>
peerVars == <<sent, got, losses>>
vars == <<plan, sessionVars, logVars, registry, adverts, queueVars, peerVars>>

(***************************************************************************)
(* A plan says which node a connection is from and what its peer sends: an *)
(* opening for the handshake and the exchange, then messages.  It bounds   *)
(* the connections that break and names the kinds of message that the      *)
(* authorization tree does not let through.                                *)
(***************************************************************************)
PeerKinds == {"advertisement", "schema request", "resource query", "subscribe", "unsubscribe",
              "ping", "data"}

ASSUME ConnAssumption == IsFiniteSet(Conn) /\ None \notin Node

\* A peer says who it is and sends nothing of its own before the exchange is over.
\* It numbers the data it sends, and addresses nodes.
ASSUME PlansAssumption ==
    \A p \in Plans :
        /\ p.node \in [Conn -> Node] /\ p.losses \in Nat
        /\ \A c \in DOMAIN p.opening : p.opening[c] \in Seq(STRING) /\ Len(p.opening[c]) <= 3
        /\ \A c \in Conn :
            /\ Len(p.sends[c]) \in Nat /\ DOMAIN p.sends[c] = 1..Len(p.sends[c])
            /\ \A i \in DOMAIN p.sends[c] :
                LET message == p.sends[c][i] IN
                /\ message.from = c /\ message.kind \in PeerKinds /\ message.to \in Node \cup {RM}
                /\ message.kind = "advertisement" =>
                    DOMAIN message.schemas = 1..Len(message.schemas) /\ Len(message.schemas) \in Nat
                /\ message.kind = "data" =>
                    /\ message.number \in Nat
                    /\ \A j \in 1..(i - 1) : p.sends[c][j].kind = "data" =>
                        p.sends[c][j].number < message.number

\* The advertised schemas of a plan.
Advertised(p) ==
    UNION {UNION {Range(message.schemas) : message \in {m \in Range(p.sends[c]) :
                                                            m.kind = "advertisement"}} :
            c \in Conn}

\* A schema is addressed by a hash of its content.
ASSUME ContentAddressed ==
    \A p \in Plans : \A one, other \in Advertised(p) :
        one.hash = other.hash /\ one.hash # NoHash => one = other

Init ==
    /\ plan \in Plans
    /\ SessionsInit /\ LogInit /\ RegistryInit
    /\ adverts = <<>>
    /\ verified = <<>> /\ unrouted = None /\ inputQueue = <<>> /\ outputQueue = <<>>
    /\ signing = [c \in Conn |-> <<>>] /\ outgoing = [c \in Conn |-> <<>>]
    /\ sent = [c \in Conn |-> 0] /\ got = [c \in Conn |-> <<>>] /\ losses = 0

Session(c) ==
    /\ \/ enqueueAcceptedConnection(c) \/ WorkerTakes(c) \/ Handshake(c) \/ Exchange(c)
       \/ Register(c) \/ Start(c) \/ readLoop(c)
    /\ UNCHANGED <<plan, registry, adverts, unrouted, inputQueue, outputQueue, signing, outgoing,
                   peerVars>>

\* The positions in the list of the encodings whose peer is the node; the first of
\* them is selected.
Routes(node) == {i \in DOMAIN activeEncodings : NodeOf(activeEncodings[i]) = node}
Selected(c, node) ==
    \E i \in Routes(node) : activeEncodings[i] = c /\ \A j \in Routes(node) : i <= j

\* Mutant: the first encoding of the same node is taken out, be it another one.
WithoutNode(c) == Without(CHOOSE d \in Conn : Selected(d, NodeOf(c)))

disconnectByNode(c) ==
    /\ stage[c] = "lost" /\ MoveTo(c, "announcing")
    /\ activeEncodings' = WithoutNode(c)
    /\ signing' = [signing EXCEPT ![c] = <<>>]
    /\ publishLogRecord(c, "disconnected")
    /\ UNCHANGED <<plan, alive, wire, exchange, registry, adverts, verified, unrouted, inputQueue,
                   outputQueue, outgoing, peerVars>>

\* handleEncodingDisconnect: the encoding is taken out of the list, its signing
\* queue is stopped with what is in it, and the disconnection is announced.  The
\* node's advertisement stays.
handleEncodingDisconnect(c) ==
    /\ stage[c] = "lost" /\ MoveTo(c, "announcing")
    /\ activeEncodings' = Without(c)
    /\ signing' = [signing EXCEPT ![c] = <<>>]
    /\ publishLogRecord(c, "disconnected")
    /\ UNCHANGED <<plan, alive, wire, exchange, registry, adverts, verified, unrouted, inputQueue,
                   outputQueue, outgoing, peerVars>>

\* publish goes on: one copy to the output queue, or the end of the callback.
Publish(c) ==
    /\ \/ /\ publishing[c] # <<>>
          /\ outputQueue' = Append(outputQueue, Head(publishing[c]))
          /\ publishing' = [publishing EXCEPT ![c] = Tail(@)]
          /\ UNCHANGED stage
       \/ /\ publishing[c] = <<>> /\ stage[c] = "announcing" /\ MoveTo(c, "ended")
          /\ UNCHANGED <<outputQueue, publishing>>
    /\ UNCHANGED <<plan, alive, wire, exchange, activeEncodings, logVars, registry, adverts,
                   verified, unrouted, inputQueue, signing, outgoing, peerVars>>

\* sendLocalMessage: to the signing queue of the first encoding of the node; a
\* message for a node without one is dropped.
sendLocalMessage(message) ==
    \/ Routes(message.to) = {} /\ UNCHANGED signing
    \/ \E c \in Conn : /\ Selected(c, message.to)
                      /\ signing' = [signing EXCEPT ![c] = Append(@, message)]

\* routeAndSend: to the writer of the first encoding of the node.  Without one the
\* node's advertisement is erased, but only after the lock of the list is released.
routeAndSend(message) ==
    \/ Routes(message.to) = {} /\ unrouted' = message.to /\ UNCHANGED outgoing
    \/ \E c \in Conn : /\ Selected(c, message.to)
                      /\ outgoing' = [outgoing EXCEPT ![c] = Append(@, message)]
                      /\ UNCHANGED unrouted

isForThisNode(message) == message.to = RM

sendEndorsementNeeded(message) ==
    sendLocalMessage([to |-> NodeOf(message.from), kind |-> "endorsement needed"])

\* The worker of the authorization queue: a message that the tree does not allow
\* is answered with EndorsementNeeded, one for the resource manager goes to its
\* input queue, any other is routed.
Authorize(message) ==
    /\ IF message.kind \in plan.forbidden
       THEN /\ sendEndorsementNeeded(message)
            /\ UNCHANGED <<inputQueue, outgoing, unrouted>>
       ELSE IF isForThisNode(message)
       THEN inputQueue' = Append(inputQueue, message) /\ UNCHANGED <<signing, outgoing, unrouted>>
       ELSE routeAndSend(message) /\ UNCHANGED <<inputQueue, signing>>
    /\ UNCHANGED <<plan, sessionVars, logVars, registry, adverts, outputQueue, peerVars>>

\* Mutant: several workers serve the authorization queue.
AuthorizeAny ==
    /\ unrouted = None
    /\ \E i \in 1..2 : /\ i \in DOMAIN verified /\ verified' = Erase(verified, i)
                       /\ Authorize(verified[i])

handleAuthorizedMessage ==
    /\ unrouted = None /\ verified # <<>>
    /\ verified' = Tail(verified) /\ Authorize(Head(verified))

eraseResourceAdvertisement ==
    /\ unrouted # None
    /\ adverts' = Restrict(adverts, DOMAIN adverts \ {unrouted})
    /\ unrouted' = None
    /\ UNCHANGED <<plan, sessionVars, logVars, registry, verified, inputQueue, outputQueue,
                   signing, outgoing, peerVars>>

Reply(message, kind, body) == [to |-> NodeOf(message.from), kind |-> kind, body |-> body]
Output(reply) == outputQueue' = Append(outputQueue, reply)

\* A resource advertisement: an empty one withdraws the node's, another one is
\* entered in the schema registry and replaces it.
Advertise(message) ==
    LET node == NodeOf(message.from) IN
    /\ IF message.schemas = <<>>
       THEN /\ adverts' = Restrict(adverts, DOMAIN adverts \ {node})
            /\ UNCHANGED registry
       ELSE /\ ingest(message.schemas)
            /\ adverts' = Put(adverts, node, message.schemas)
    /\ UNCHANGED <<logVars, outputQueue>>

\* A schema request: by file, else by hash, else every schema.
RequestedSchemas(message) ==
    IF message.file # None THEN findByProtoFile(message.file)
    ELSE IF message.hash # NoHash THEN findByHash(message.hash)
    ELSE allSchemas

\* The worker of the input queue.
handleNodeSpecificMessage(message) ==
    \/ message.kind = "advertisement" /\ Advertise(message)
    \/ /\ message.kind = "schema request"
       /\ Output(Reply(message, "schema reply", RequestedSchemas(message)))
       /\ UNCHANGED <<registry, adverts, logVars>>
    \/ /\ message.kind = "resource query"
       /\ LET parsed == ParsedQuery(message.query) IN
          Output(IF parsed.ok
                 THEN Reply(message, "query reply", MatchingServices(adverts, parsed.expr, message.max))
                 ELSE Reply(message, "error", <<>>))
       /\ UNCHANGED <<registry, adverts, logVars>>

\* The log requests and what the base node answers itself.
HandleMessage(message) ==
    \/ /\ message.kind = "subscribe"
       /\ subscribe(NodeOf(message.from), message.request)
       /\ Output(Reply(message, "subscribe reply", message.request.valid))
       /\ UNCHANGED <<registry, adverts>>
    \/ /\ message.kind = "unsubscribe"
       /\ unsubscribe(NodeOf(message.from), message.id)
       /\ Output(Reply(message, "unsubscribe reply", <<>>))
       /\ UNCHANGED <<registry, adverts>>
    \/ handleNodeSpecificMessage(message)
    \/ /\ message.kind = "ping"
       /\ Output(Reply(message, "ping reply", <<>>))
       /\ UNCHANGED <<registry, adverts, logVars>>

\* Mutant: the answer to a query is not sent when nothing is advertised.
HandleInputQuietly ==
    /\ inputQueue # <<>> /\ inputQueue' = Tail(inputQueue)
    /\ \/ HandleMessage(Head(inputQueue)) /\ Head(inputQueue).kind # "resource query"
       \/ /\ Head(inputQueue).kind = "resource query"
          /\ outputQueue' = IF adverts = <<>> THEN outputQueue
                            ELSE Append(outputQueue, Reply(Head(inputQueue), "query reply", <<>>))
          /\ UNCHANGED <<registry, adverts, logVars>>
    /\ UNCHANGED <<plan, sessionVars, verified, unrouted, signing, outgoing, peerVars>>

HandleInput ==
    /\ inputQueue # <<>> /\ inputQueue' = Tail(inputQueue)
    /\ HandleMessage(Head(inputQueue))
    /\ UNCHANGED <<plan, sessionVars, verified, unrouted, signing, outgoing, peerVars>>

\* The worker of the output queue.
handleOutputMessage ==
    /\ outputQueue # <<>> /\ outputQueue' = Tail(outputQueue)
    /\ sendLocalMessage(Head(outputQueue))
    /\ UNCHANGED <<plan, sessionVars, logVars, registry, adverts, verified, unrouted, inputQueue,
                   outgoing, peerVars>>

\* The signing worker of a session.
Sign(c) ==
    /\ signing[c] # <<>> /\ c \in Range(activeEncodings)
    /\ signing' = [signing EXCEPT ![c] = Tail(@)]
    /\ outgoing' = [outgoing EXCEPT ![c] = Append(@, Head(signing[c]))]
    /\ UNCHANGED <<plan, sessionVars, logVars, registry, adverts, verified, unrouted, inputQueue,
                   outputQueue, peerVars>>

\* writeMessage: a broken connection takes nothing.
writeMessage(c, message) ==
    got' = IF alive[c] THEN [got EXCEPT ![c] = Append(@, message)] ELSE got

\* dispatchSend: the writer of a started encoding.
dispatchSend(c) ==
    /\ outgoing[c] # <<>> /\ stage[c] \in {"reading", "lost", "announcing", "ended"}
    /\ outgoing' = [outgoing EXCEPT ![c] = Tail(@)]
    /\ writeMessage(c, Head(outgoing[c]))
    /\ UNCHANGED <<plan, sessionVars, logVars, registry, adverts, verified, unrouted, inputQueue,
                   outputQueue, signing, sent, losses>>

\* The peer of a session sends its next message.
PeerSends(c) ==
    /\ alive[c] /\ stage[c] \in {"registered", "reading"} /\ sent[c] < Len(plan.sends[c])
    /\ sent' = [sent EXCEPT ![c] = @ + 1]
    /\ wire' = [wire EXCEPT ![c] = Append(@, plan.sends[c][sent'[c]])]
    /\ UNCHANGED <<plan, stage, alive, exchange, activeEncodings, publishing, logVars, registry,
                   adverts, queueVars, got, losses>>

\* A connection breaks; what was not read may still be, or is lost with it.
Break(c) ==
    /\ alive[c] /\ losses < plan.losses
    /\ losses' = losses + 1 /\ alive' = [alive EXCEPT ![c] = FALSE]
    /\ \/ UNCHANGED wire
       \/ wire[c] # <<>> /\ wire' = [wire EXCEPT ![c] = <<>>]
    /\ UNCHANGED <<plan, stage, exchange, activeEncodings, publishing, logVars, registry, adverts,
                   queueVars, sent, got>>

TimePasses ==
    /\ plan.expires
    /\ \E id \in DOMAIN subscriptions : DurationPasses(id)
    /\ UNCHANGED <<plan, sessionVars, registry, adverts, queueVars, peerVars>>

Thread(c) == Session(c) \/ handleEncodingDisconnect(c) \/ Publish(c) \/ Sign(c) \/ dispatchSend(c)
Worker == handleAuthorizedMessage \/ eraseResourceAdvertisement \/ HandleInput \/ handleOutputMessage

Next ==
    \/ \E c \in Conn : Thread(c) \/ PeerSends(c) \/ Break(c)
    \/ Worker \/ TimePasses

\* The threads of a connection, the workers and the peers go on; every behaviour
\* of a plan is finite, so that it is enough that one thread of each group does.
Fairness ==
    /\ \A c \in Conn : WF_vars(Thread(c)) /\ WF_vars(PeerSends(c))
    /\ WF_vars(Worker)

Spec == Init /\ [][Next]_vars /\ Fairness

-----------------------------------------------------------------------------

Stages == {"idle", "accepted", "handshaking", "greeted", "authenticating", "registered", "reading",
           "lost", "announcing", "ended", "refused"}

\* What every variable holds; no more workers are busy than a queue has, an
\* encoding is listed once, and a thread publishes only in the two stages that do.
TypeOK ==
    /\ stage \in [Conn -> Stages] /\ alive \in [Conn -> BOOLEAN]
    /\ exchange \in [Conn -> SUBSET {"challenge", "identity"}]
    /\ activeEncodings \in Seq(Conn) /\ IsInjective(activeEncodings)
    /\ Busy("handshaking") <= Workers /\ Busy("authenticating") <= Workers
    /\ \A c \in Conn : publishing[c] # <<>> => stage[c] \in {"authenticating", "announcing"}
    /\ unrouted \in Node \cup {None} /\ DOMAIN adverts \subseteq Node

\* The state keeps its types; no session is listed that nothing will take out of the list again, and none
\* runs that is not listed: because handleAuthNSuccess lists an encoding before
\* it starts it, the disconnect callback finds it, however soon it runs.
NoZombieSession ==
    /\ TypeOK
    /\ \A c \in Range(activeEncodings) : stage[c] \in {"registered", "reading", "lost"}
    /\ \A c \in Conn : stage[c] \in {"registered", "reading", "lost"} => c \in Range(activeEncodings)
    /\ \A c \in Conn : c \notin Range(activeEncodings) => signing[c] = <<>>

OnlyConnection(c) == \A d \in Conn \ {c} : NodeOf(d) # NodeOf(c)

\* What a peer may receive in this order: data of one connection by its number, and
\* for one subscription the connection of a node that connects once, then its end.
Events == {"connected", "disconnected"}
Fits(earlier, later) ==
    /\ (earlier.kind = "data" /\ later.kind = "data" /\ earlier.from = later.from)
        => earlier.number < later.number
    /\ \A d \in Conn :
        (/\ OnlyConnection(d)
         /\ earlier.kind \in Events /\ later.kind \in Events
         /\ earlier.about = NodeOf(d) /\ later.about = NodeOf(d) /\ earlier.id = later.id)
        => earlier.kind = "connected" /\ later.kind = "disconnected"

\* A peer receives only what is addressed to its node, and the messages that one
\* connection sent it in the order they were sent, none twice, whatever other
\* connections, replies and reconnections come between.  And for one subscription
\* the records about a node that connects once come once and in the order of the
\* events.  They are copied by different threads: the authentication worker
\* announces the connection, the read loop its end.
MailInOrder ==
    \A c \in Conn : \A i \in DOMAIN got[c] :
        /\ got[c][i].to = NodeOf(c)
        /\ \A j \in 1..(i - 1) : Fits(got[c][j], got[c][i])

\* Every schema of a listed advertisement can be asked for by its hash, and a file
\* that an advertisement names leads to a schema of that file, also after other
\* nodes have advertised other versions or have withdrawn the same one.
AdvertisedIsServed ==
    \A node \in DOMAIN adverts : \A i \in DOMAIN adverts[node] :
        LET schema == adverts[node][i] IN
        schema.hash # NoHash =>
            /\ findByHash(schema.hash) = {schema}
            /\ \E known \in findByProtoFile(schema.file) : known.file = schema.file

Live(c) == alive[c] /\ stage[c] = "reading"

\* A node that keeps a connection is reachable again and again: a route left by an
\* earlier or a second connection, which came first in the list, goes away.
Reachable ==
    []<>(\A c \in Conn : Live(c) => \E d \in Conn : Selected(d, NodeOf(c)) /\ alive[d])

IsRequest(message) == message.kind \notin {"advertisement", "data"} \ plan.forbidden
Requests(c) == Len(SelectSeq(SubSeq(plan.sends[c], 1, sent[c]), IsRequest))
Replies(c) == Len(SelectSeq(got[c], LAMBDA m : m.kind \notin {"data", "connected", "disconnected"}))

\* A request is answered, once, on the connection it came from, provided that it
\* is the node's only one and holds: a query that does not parse, an invalid
\* subscription and a message that is not authorized included.
EveryRequestAnswered ==
    []<>(\A c \in Conn : OnlyConnection(c) /\ alive[c] => Replies(c) = Requests(c))

=============================================================================
