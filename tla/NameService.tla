----------------------------- MODULE NameService -----------------------------
(***************************************************************************)
(* resource_service/name/resource_service_name.cpp: the records of one     *)
(* name and type under several owners.  A record is stored with what is    *)
(* left of its time to live, in units of the refresh interval of the       *)
(* clients (150 s, TTL is 2 of them); 0 is expired and not yet swept, and  *)
(* nothing is persisted.  The value of a record is left out: no decision   *)
(* depends on it.                                                          *)
(***************************************************************************)
EXTENDS Naturals, Integers, Sequences

CONSTANTS Owner, None, TTL
ASSUME TTLAssumption == TTL \in Nat \ {0}

VARIABLES
    recs,       \* per owner: the time its record has left, or Absent
    pingQueue,  \* owners whose record was found beside a new one
    pinging, verdict,
    reqs,       \* requests on their way to the service, in order
    replies     \* per owner: replies on their way, in order

nsVars == <<recs, pingQueue, pinging, verdict, reqs, replies>>

Absent == -1
Stored == {o \in Owner : recs[o] # Absent}
Visible(o) == recs[o] > 0

NsInit ==
    /\ recs = [o \in Owner |-> Absent] /\ pingQueue = <<>>
    /\ pinging = None /\ verdict = "none"
    /\ reqs = <<>> /\ replies = [o \in Owner |-> <<>>]

Request(o, op) == [from |-> o, op |-> op]

Replied(o, op, st) == replies' = [replies EXCEPT ![o] = Append(@, [op |-> op, st |-> st])]

\* A record that exists is a duplicate, expired or not, and keeps its time.
\* When exactly one other owner has the name, that owner will be pinged.
handleCreateRequest(o) ==
    LET others == Stored \ {o} IN
    IF o \in Stored
    THEN Replied(o, "create", "duplicate") /\ UNCHANGED <<recs, pingQueue>>
    ELSE /\ recs' = [recs EXCEPT ![o] = TTL]
         /\ Replied(o, "create", "success")
         /\ pingQueue' = IF \E p \in Owner : others = {p}
                         THEN Append(pingQueue, CHOOSE p \in Owner : others = {p})
                         ELSE pingQueue

Found(s) == IF s # {} THEN "success" ELSE "notfound"

handleReadRequest(o) ==
    /\ Replied(o, "read", Found({p \in Owner : Visible(p)}))
    /\ UNCHANGED <<recs, pingQueue>>

handleQueryRequest(o) ==
    /\ Replied(o, "query", "success")
    /\ UNCHANGED <<recs, pingQueue>>

handleUpdateRequest(o) ==
    /\ Replied(o, "update", Found(Stored \cap {o}))
    /\ UNCHANGED <<recs, pingQueue>>

handleDeleteRequest(o) ==
    /\ Replied(o, "delete", Found(Stored \cap {o}))
    /\ recs' = [recs EXCEPT ![o] = Absent]
    /\ UNCHANGED pingQueue

RefreshOnlyAnswers(o) ==
    /\ Replied(o, "refresh", Found(Stored \cap {o}))
    /\ UNCHANGED <<recs, pingQueue>>

\* An expired record that was not swept is renewed as well.
handleRefreshRequest(o) ==
    /\ Replied(o, "refresh", Found(Stored \cap {o}))
    /\ recs' = IF o \in Stored THEN [recs EXCEPT ![o] = TTL] ELSE recs
    /\ UNCHANGED pingQueue

handleNodeSpecificMessage ==
    /\ reqs # <<>> /\ reqs' = Tail(reqs)
    /\ LET o == Head(reqs).from
           op == Head(reqs).op
       IN  \/ op = "create" /\ handleCreateRequest(o)
           \/ op = "read" /\ handleReadRequest(o)
           \/ op = "query" /\ handleQueryRequest(o)
           \/ op = "update" /\ handleUpdateRequest(o)
           \/ op = "delete" /\ handleDeleteRequest(o)
           \/ op = "refresh" /\ handleRefreshRequest(o)
    /\ UNCHANGED <<pinging, verdict>>

runSweepThread ==
    /\ \E o \in Owner : recs[o] = 0
    /\ recs' = [o \in Owner |-> IF recs[o] = 0 THEN Absent ELSE recs[o]]
    /\ UNCHANGED <<pingQueue, pinging, verdict, reqs, replies>>

\* The ping thread: the owner of the older record is pinged, outside the lock
\* of the records; a record whose owner was silent expires at once, if it is
\* still or again there.
PingStarts ==
    /\ pinging = None /\ pingQueue # <<>>
    /\ pinging' = Head(pingQueue) /\ pingQueue' = Tail(pingQueue) /\ verdict' = "none"
    /\ UNCHANGED <<recs, reqs, replies>>

PingReturns(alive) ==
    /\ pinging # None /\ verdict = "none"
    /\ verdict' = IF alive THEN "alive" ELSE "dead"
    /\ UNCHANGED <<recs, pingQueue, pinging, reqs, replies>>

ExpireOld ==
    /\ verdict # "none" /\ pinging' = None /\ verdict' = "none"
    /\ recs' = IF verdict = "dead" /\ pinging \in Stored THEN [recs EXCEPT ![pinging] = 0] ELSE recs
    /\ UNCHANGED <<pingQueue, reqs, replies>>

\* The process of the service ends and another one takes its place.
NsRestart ==
    /\ recs' = [o \in Owner |-> Absent] /\ pingQueue' = <<>>
    /\ pinging' = None /\ verdict' = "none" /\ reqs' = <<>>
    /\ UNCHANGED replies

\* One unit of time passes.
Ages == recs' = [o \in Owner |-> IF recs[o] > 0 THEN recs[o] - 1 ELSE recs[o]]
=============================================================================
