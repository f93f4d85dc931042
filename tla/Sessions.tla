------------------------------ MODULE Sessions ------------------------------
(***************************************************************************)
(* A connection's way to a session: the handshake and authentication       *)
(* queues with their workers, the list of active encodings and the read    *)
(* loop of an encoding (mq_ascii_handshake.cpp, mq_authn.cpp, encoding.cpp *)
(* and the session callbacks of resource_manager.cpp).                     *)
(*                                                                         *)
(* A connection is in the stage                                            *)
(*   accepted, greeted           it waits in a queue for a worker          *)
(*   handshaking, authenticating a worker reads from it, without a timeout *)
(*   registered                  it is in activeEncodings_, not started    *)
(*   reading                     its read loop runs                        *)
(*   lost                        the read loop has seen the end of the     *)
(*                               connection, the callback has not run      *)
(*   announcing                  the callback publishes the disconnection  *)
(*   ended, refused              nothing runs for it any more              *)
(***************************************************************************)
EXTENDS LogSubscriptions

CONSTANTS
    Conn,      \* connections
    Workers,   \* workers of the handshake queue, and of the authentication queue
    Plans      \* bounded runs: see Init of ResourceManager

ASSUME WorkersAssumption == Workers \in Nat \ {0}

VARIABLES
    plan,
    stage,             \* see above
    alive,             \* the peer's end of the connection is open
    wire,              \* what the peer has sent and nobody has read
    exchange,          \* performInitialIdentityExchange: what it has seen
    activeEncodings,   \* activeEncodings_, in order
    publishing,        \* the copies of a record the connection's thread has yet to deliver
    verified           \* the authorization queue

sessionVars == <<stage, alive, wire, exchange, activeEncodings, publishing>>

NodeOf(c) == plan.node[c]

SessionsInit ==
    /\ stage = [c \in Conn |-> "idle"] /\ alive = [c \in Conn |-> FALSE]
    /\ wire = [c \in Conn |-> <<>>] /\ exchange = [c \in Conn |-> {}]
    /\ activeEncodings = <<>> /\ publishing = [c \in Conn |-> <<>>]

MoveTo(c, s) == stage' = [stage EXCEPT ![c] = s]

Busy(s) == Cardinality({c \in Conn : stage[c] = s})

\* enqueueAcceptedConnection: a connection is accepted and waits for a worker.
enqueueAcceptedConnection(c) ==
    /\ stage[c] = "idle" /\ c \in DOMAIN plan.opening
    /\ MoveTo(c, "accepted")
    /\ alive' = [alive EXCEPT ![c] = TRUE]
    /\ wire' = [wire EXCEPT ![c] = plan.opening[c]]
    /\ UNCHANGED <<exchange, activeEncodings, publishing, verified, logVars>>

\* A worker takes the next connection (the queues are first in, first out; the
\* connections of a stage are taken in any order, for they arrive in any order).
WorkerTakes(c) ==
    /\ \/ /\ stage[c] = "accepted" /\ Busy("handshaking") < Workers
          /\ MoveTo(c, "handshaking")
       \/ /\ stage[c] = "greeted" /\ Busy("authenticating") < Workers
          /\ MoveTo(c, "authenticating")
    /\ UNCHANGED <<alive, wire, exchange, activeEncodings, publishing, verified, logVars>>

\* readMessage: a message, or the end of a connection that has nothing more.
Readable(c) == wire[c] # <<>>
ReadFails(c) == wire[c] = <<>> /\ ~alive[c]
Read(c) == wire' = [wire EXCEPT ![c] = Tail(@)]

\* The connection is closed, here by the resource manager.
Refuse(c) ==
    /\ MoveTo(c, "refused")
    /\ alive' = [alive EXCEPT ![c] = FALSE]

\* performServerHandshake: the peer selects an encoding, and the connection goes
\* on to the authentication queue.
Handshake(c) ==
    /\ stage[c] = "handshaking"
    /\ \/ /\ Readable(c) /\ Head(wire[c]) = "select" /\ Read(c)
          /\ MoveTo(c, "greeted") /\ UNCHANGED alive
       \/ /\ Readable(c) /\ Head(wire[c]) # "select" /\ Read(c)
          /\ Refuse(c)
       \/ /\ ReadFails(c) /\ Refuse(c) /\ UNCHANGED wire
    /\ UNCHANGED <<exchange, activeEncodings, publishing, verified, logVars>>

\* publishLogRecord: no subscription, nothing to do.
publishLogRecord(c, type) ==
    /\ \E copies \in Envelopes(type, NodeOf(c)) :
            publishing' = [publishing EXCEPT ![c] = copies]
    /\ CopySubscriptions

\* A challenge, or an identity that is valid, the first of its kind.
validateReceivedIdentity(c) == Head(wire[c]) \in {"challenge", "identity"} \ exchange[c]

\* performInitialIdentityExchange reads one message: the peer's challenge, which
\* it answers, or the peer's identity, which it caches and announces; each once.
Exchange(c) ==
    /\ stage[c] = "authenticating" /\ publishing[c] = <<>>
    /\ exchange[c] # {"challenge", "identity"}
    /\ \/ /\ Readable(c) /\ validateReceivedIdentity(c) /\ Read(c)
          /\ exchange' = [exchange EXCEPT ![c] = @ \cup {Head(wire[c])}]
          /\ IF Head(wire[c]) = "identity"
             THEN publishLogRecord(c, "connected")
             ELSE UNCHANGED <<publishing, logVars>>
          /\ UNCHANGED <<stage, alive>>
       \/ /\ Readable(c) /\ ~validateReceivedIdentity(c) /\ Read(c)
          /\ Refuse(c) /\ UNCHANGED <<exchange, publishing, logVars>>
       \/ /\ ReadFails(c)
          /\ Refuse(c) /\ UNCHANGED <<wire, exchange, publishing, logVars>>
    /\ UNCHANGED <<activeEncodings, verified>>

Authenticated(c) ==
    stage[c] = "authenticating" /\ publishing[c] = <<>> /\ exchange[c] = {"challenge", "identity"}

\* Mutant: the encoding is started before it is listed.
StartFirst(c) ==
    /\ Authenticated(c)
    /\ MoveTo(c, "registered")
    /\ UNCHANGED <<alive, wire, exchange, activeEncodings, publishing, verified, logVars>>

\* handleAuthNSuccess, first half: the callback is set and the encoding listed.
Register(c) ==
    /\ Authenticated(c)
    /\ MoveTo(c, "registered")
    /\ activeEncodings' = Append(activeEncodings, c)
    /\ UNCHANGED <<alive, wire, exchange, publishing, verified, logVars>>

\* handleAuthNSuccess, second half: the read loop starts.
Start(c) ==
    /\ stage[c] = "registered" /\ MoveTo(c, "reading")
    /\ UNCHANGED <<alive, wire, exchange, activeEncodings, publishing, verified, logVars>>

\* A message that passed the signature check comes to the authorization queue.
handleVerifiedMessage(message) == verified' = Append(verified, message)

\* readLoop: a message goes to the check queue.  Its signature is checked there
\* (module IdentityResolution); the peers of this module sign what they send and
\* are known.
readLoop(c) ==
    /\ stage[c] = "reading"
    /\ \/ /\ Readable(c) /\ Read(c)
          /\ handleVerifiedMessage(Head(wire[c]))
          /\ UNCHANGED stage
       \/ /\ ReadFails(c)
          /\ MoveTo(c, "lost") /\ UNCHANGED <<wire, verified>>
    /\ UNCHANGED <<alive, exchange, activeEncodings, publishing, logVars>>

Erase(list, i) == [j \in 1..(Len(list) - 1) |-> IF j < i THEN list[j] ELSE list[j + 1]]

\* find_if and erase: the encoding is taken out of the list, if it is there.
Without(c) ==
    IF c \notin Range(activeEncodings) THEN activeEncodings
    ELSE Erase(activeEncodings, CHOOSE i \in DOMAIN activeEncodings : activeEncodings[i] = c)

=============================================================================
