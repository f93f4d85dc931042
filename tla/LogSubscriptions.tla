-------------------------- MODULE LogSubscriptions --------------------------
(***************************************************************************)
(* The log subscriptions a node keeps for others.  A record is an event    *)
(* (its payload type) about a node.  A subscription names its subscriber,  *)
(* the type it is for and, for the filter tree, the nodes whose records    *)
(* the filter lets through.  `expired' stands for expiresAt <= now.        *)
(***************************************************************************)
EXTENDS Naturals, Sequences, FiniteSetsExt, Functions

VARIABLES subscriptions,  \* id |-> [node, type, filter, expired]
          lastId          \* the fresh subscription identifiers given out

LogInit ==
    /\ subscriptions = <<>>
    /\ lastId = 0

logVars == <<subscriptions, lastId>>

\* The map with a new or replaced entry.
Put(map, key, value) ==
    [k \in DOMAIN map \cup {key} |-> IF k = key THEN value ELSE map[k]]

\* A request is [type, filter, valid]: not valid when it lacks its type, its
\* filter or its duration.
subscribe(node, request) ==
    IF request.valid
    THEN /\ lastId' = lastId + 1
         /\ subscriptions' = Put(subscriptions, lastId',
                                 [node |-> node, type |-> request.type,
                                  filter |-> request.filter, expired |-> FALSE])
    ELSE UNCHANGED logVars

\* Only the subscriber's own subscription goes.
unsubscribe(node, id) ==
    /\ subscriptions' = IF id \in DOMAIN subscriptions /\ subscriptions[id].node = node
                        THEN Restrict(subscriptions, DOMAIN subscriptions \ {id})
                        ELSE subscriptions
    /\ UNCHANGED lastId

\* The duration of a subscription runs out.
DurationPasses(id) ==
    /\ ~subscriptions[id].expired
    /\ subscriptions' = [subscriptions EXCEPT ![id].expired = TRUE]
    /\ UNCHANGED lastId

LiveIds == {id \in DOMAIN subscriptions : ~subscriptions[id].expired}

\* What publish may deliver: a copy of the record for every subscription that was
\* live when the list was copied, of its type and with a filter that accepts it,
\* in the order of the identifiers, which are random.
Envelopes(type, about) ==
    LET Matches(id) == subscriptions[id].type = type /\ about \in subscriptions[id].filter
        Envelope(id) == [to |-> subscriptions[id].node, kind |-> type, about |-> about, id |-> id]
        matched == {id \in LiveIds : Matches(id)}
    IN  {[i \in DOMAIN order |-> Envelope(order[i])] :
            order \in UNION {Bijection(1..n, matched) : n \in 0..lastId}}

\* The list is copied and the expired subscriptions are dropped under the lock.
CopySubscriptions ==
    /\ subscriptions' = Restrict(subscriptions, LiveIds)
    /\ UNCHANGED lastId

=============================================================================
