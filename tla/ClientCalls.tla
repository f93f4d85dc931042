---------------------------- MODULE ClientCalls ----------------------------
(***************************************************************************)
(* What the C++, Rust, Node.js and Python clients have in common: calls of *)
(* the application that send a request and wait for a reply, the tables in *)
(* which they wait, the replies and pushed data of the peer, and the       *)
(* connection.  The modules CppClient, RustClient, NodeClient and          *)
(* PythonClient give the actions of each client over these variables, and  *)
(* the properties below are asked of all of them.                          *)
(*                                                                         *)
(* Call c is the c-th call of the application.  Its nonce, or the id of    *)
(* the stream it opens, is fresh in the code and is c here; stream 0 is    *)
(* registered by the application itself.                                   *)
(***************************************************************************)
EXTENDS Naturals, Sequences, FiniteSets

CONSTANTS
    MaxCalls,   \* calls the application makes
    Plans,      \* bounded runs: the client, the kinds of call the application
                \* makes, the data the peer sends on stream 0, and the number
                \* of connections lost, closed or failing
    None

Call       == 1 .. MaxCalls
Stream     == 0 .. MaxCalls
KeyedKind  == {"ping", "connect", "listen"}          \* wait under a fresh id
StreamKind == {"accept", "send", "recv", "close"}    \* wait on a stream
SharedKind == {"endorse", "name", "list"}            \* wait in one slot for all

VARIABLES
    plan,       \* the bounded run this is
    kind, on,   \* per call: its kind and its stream
    pc,         \* per call: where the call is
    sig,        \* per call: what its channel, promise or future holds
    got,        \* per call: what it returned
    repaired,   \* calls that have sent their identity once
    out,        \* calls whose request is being sent
    retried,    \* calls whose request is sent a second time
    joined,     \* calls whose request waits for a reconnect
    pend,       \* calls waiting under their own id
    awaited,    \* per stream: the calls waiting for a reply on it
    slot,       \* per shared kind: the waiting call
    results,    \* C++, per shared kind: the reply left for whoever waits
    queue,      \* per stream: replies nobody waited for
    handlers,   \* streams with a reply handler
    soon,       \* replies on their way to a handler (Node.js) or poller (C++)
    routes,     \* streams whose node is known
    link,       \* the connection
    heard,      \* what happened in the identity exchange
    stopping, auto,
    task,       \* the reconnect task (Node.js) or the failing receive task (Rust)
    oldLoop,    \* a receive loop of a previous connection is about to fail
    asked,      \* requests the peer has not answered
    data,       \* number of data replies the peer sent on stream 0
    losses,
    taken       \* numbers of the data replies, in the order they are taken

lang == plan.lang

callVars == <<kind, on, pc, sig, got, repaired, out, retried, joined>>
waitVars == <<pend, awaited, slot>>
streamVars == <<queue, handlers, soon, routes, taken>>
linkVars == <<link, heard, stopping, auto, task, oldLoop, losses>>
peerVars == <<asked, data>>
vars == <<plan, callVars, waitVars, results, streamVars, linkVars, peerVars>>

Failed  == [of |-> None, on |-> 0, st |-> "failed", n |-> 0]
TimedOut == [of |-> None, on |-> 0, st |-> "timeout", n |-> 0]

\* A reply: the call whose request it answers (None for pushed data), the
\* stream it is for, its status, and the number of its data.
Reply(of, s, st, n) == [of |-> of, on |-> s, st |-> st, n |-> n]

Start ==
    /\ plan \in Plans
    /\ kind = [c \in Call |-> "none"] /\ on = [c \in Call |-> 0]
    /\ pc = [c \in Call |-> "idle"]
    /\ sig = [c \in Call |-> None] /\ got = [c \in Call |-> None]
    /\ repaired = {} /\ out = {} /\ retried = {} /\ joined = {}
    /\ pend = {} /\ awaited = [s \in Stream |-> <<>>]
    /\ slot = [k \in SharedKind |-> None] /\ results = [k \in SharedKind |-> None]
    /\ queue = [s \in Stream |-> <<>>] /\ handlers = {} /\ soon = <<>>
    /\ routes = {0} /\ taken = <<>>
    /\ link = "closed" /\ heard = {} /\ losses = 0
    /\ stopping = FALSE /\ auto = TRUE /\ task = "none" /\ oldLoop = FALSE
    /\ asked = {} /\ data = 0

\* The application makes its next call.
Calls(c, k) ==
    /\ pc[c] = "idle"
    /\ \A d \in 1 .. c - 1 : pc[d] # "idle"
    /\ k \in plan.kinds
    /\ kind' = [kind EXCEPT ![c] = k]

Returned(c, r) ==
    /\ pc' = [pc EXCEPT ![c] = "done"]
    /\ got' = [got EXCEPT ![c] = r]

\* The numbers of the data of stream 0 among some replies.
DataOf(rs) ==
    LET d == SelectSeq(rs, LAMBDA r : r.st = "data" /\ r.on = 0)
    IN  [i \in DOMAIN d |-> d[i].n]

Elements(q) == {q[i] : i \in DOMAIN q}
Awaiting    == UNION {Elements(awaited[s]) : s \in Stream}
Unless(x)   == {x} \ {None}

\* A call that waits for an acknowledgement throws data it is given away.
TakenBy(c, r) == IF kind[c] \in {"send", "close"} THEN <<>> ELSE DataOf(<<r>>)

\* The peer: what it answers to a request, in any order and at any time, or
\* never; and data it pushes on a stream.
Statuses(k) ==
    CASE k = "ping"                  -> {"ok"}
      [] k \in {"connect", "listen"} -> {"success", "refused"}
      [] k = "accept"                -> {"new", "closed"}
      [] k = "recv"                  -> {"data", "closed"}
      [] k \in {"send", "close"}     -> {"success", "closed"}
      [] k = "endorse"               -> {"success", "unknown"}
      [] OTHER                       -> {"ok"}

Numbered(st, s) == st = "data" /\ s = 0

AnswersTo(c) ==
    {Reply(c, on[c], st, IF Numbered(st, on[c]) THEN data + 1 ELSE 0) :
        st \in {st \in Statuses(kind[c]) : Numbered(st, on[c]) => data < plan.data}}

Incoming ==
    {Reply(None, 0, "data", n) : n \in {data + 1} \cap 1 .. plan.data}
        \cup UNION {AnswersTo(c) : c \in asked}

Arrives(r) ==
    /\ link = "up"
    /\ asked' = asked \ {r.of}
    /\ data' = IF Numbered(r.st, r.on) THEN data + 1 ELSE data
-----------------------------------------------------------------------------
Reply1 == [of : Call \cup {None}, on : Stream, n : 0 .. plan.data,
           st : {"ok", "success", "refused", "new", "data", "closed", "unknown",
                 "failed", "timeout"}]
Outcome == Reply1 \cup {None}

TypeOK ==
    /\ plan \in Plans
    /\ kind \in [Call -> plan.kinds \cup {"none"}] /\ on \in [Call -> Stream]
    /\ pc \in [Call -> {"idle", "checked", "sending", "lookup", "register",
                        "waiting", "answered", "expired", "done"}]
    /\ \A c \in Call : sig[c] \in Outcome /\ got[c] \in Outcome
    /\ repaired \cup out \cup retried \cup joined \cup pend \cup asked \subseteq Call
    /\ \A s \in Stream : awaited[s] \in Seq(Call) /\ queue[s] \in Seq(Reply1)
    /\ slot \in [SharedKind -> Call \cup {None}]
    /\ \A k \in SharedKind : results[k] \in Outcome
    /\ handlers \cup routes \subseteq Stream /\ soon \in Seq(Reply1)
    /\ link \in {"closed", "auth", "up", "lost"} /\ heard \subseteq {"challenge", "identity", "spoiled"}
    /\ task \in {"none", "reject", "loop", "dial", "auth", "hung"}
    /\ stopping \in BOOLEAN /\ auto \in BOOLEAN /\ oldLoop \in BOOLEAN
    /\ data \in 0 .. plan.data /\ losses \in 0 .. plan.losses

\* The tables keep their types, and none
\* keeps a call that has returned: its entry would swallow the next
\* reply under the same key (remove_stream_waiter and the removals after a
\* timeout or a failed send).  Only the C++ client's mark that a stream is
\* awaited may outlive its call: a failed send leaves it behind.
NoStaleWaiter ==
    /\ TypeOK
    /\ \A c \in Call : pc[c] = "done" =>
         /\ c \notin pend \cup {slot[k] : k \in SharedKind}
         /\ c \in Awaiting => lang = "cpp" /\ got[c] = Failed

\* Node.js: as long as the connection was not torn down, every data reply on a
\* stream was given to a reader or a handler, or is in the queue, and in the
\* order in which the peer sent them; no sender or closer waiting on the same
\* stream takes one away ("so no data is lost between connect and attach").
\* C++: with readers only, every data reply was given to a reader or to the
\* poller or is still there for one of them, though timed-out readers and the
\* entries removed for the other side come in between.
NoDataLost ==
    /\ lang = "node" /\ losses = 0 => taken \o DataOf(queue[0]) = [i \in 1 .. data |-> i]
    /\ lang = "cpp" /\ plan.kinds = {"recv"} =>
           Elements(taken \o DataOf(queue[0]) \o DataOf(soon)) = 1 .. data

\* A call returns, by a reply, an error or its timeout, whatever the peer, the
\* connection and the other calls do.  In Node.js the calls that send before
\* they arm their timer are excepted: a send waits for a reconnect without end.
EveryCallReturns ==
    \A c \in Call :
        pc[c] # "idle" /\ (lang = "node" => kind[c] \in KeyedKind \cup {"name", "list"})
            ~> pc[c] = "done"
=============================================================================
