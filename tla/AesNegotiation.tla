--------------------------- MODULE AesNegotiation ---------------------------
(***************************************************************************)
(* Pairwise AES key negotiation of RSPNode (src/common/node.cpp).  Every   *)
(* node keeps, under aesNegotiationMutex_, a table of negotiations it has  *)
(* started (pendingByPeer) and a table of installed keys (activeByPeer),   *)
(* each with at most one entry per peer.                                   *)
(*                                                                         *)
(* One action is one public operation or one handled message, including    *)
(* the processExpiredAesKeys call it starts with.  The code runs the two   *)
(* in separate critical sections; an operation of another thread that      *)
(* falls between them can be ordered before both, since it starts with     *)
(* the same expiry pass.                                                   *)
(*                                                                         *)
(* Time is abstract: an entry becomes `due' when the clock passes its      *)
(* expiresAt.  The network loses and reorders messages and never           *)
(* duplicates one.  It is a set: the only message a node can have in       *)
(* flight twice is an error for a key that is never installed again, and   *)
(* a second delivery of it changes nothing.                                *)
(*                                                                         *)
(* All nodes run this code, so the replies to malformed key ids, missing   *)
(* ephemeral keys and foreign algorithms are left out.                     *)
(***************************************************************************)
EXTENDS Naturals, FiniteSets

CONSTANTS Node,    \* the nodes of the network
          KeyId,   \* random 16-byte ids, drawn fresh by each negotiation
          NoKey,   \* marks an absent table entry
          Limits   \* the (maxActiveKeys, maxPendingNegotiations) a node may set

ASSUME NodeAssumption == IsFiniteSet(Node)
ASSUME KeyAssumption == NoKey \notin KeyId \cup (Node \X Node)
ASSUME LimitsAssumption == Limits \subseteq [active : Nat, pending : Nat]

VARIABLES limits,     \* limits[n]: aesNegotiationState_.limits of n
          pending,    \* pending[n][p]: pendingByPeer entry of n for peer p
          active,     \* active[n][p]: activeByPeer entry of n for peer p
          net,        \* messages in flight
          owner,      \* owner[k]: the (initiator, responder) that drew id k
          ephemerals, \* number of ephemeral key pairs generated so far
          unpushed,   \* begun negotiations whose request the queue refused
          orphaned    \* history: keys with a message lost or a refusal of the
                      \* answer that tells the peer nothing

vars == <<limits, pending, active, net, owner, ephemerals, unpushed, orphaned>>
-----------------------------------------------------------------------------
(* deriveSharedSecret and deriveAesKeyMaterial: the Diffie-Hellman secret  *)
(* depends on the unordered pair of ephemeral keys, and the derivation     *)
(* sorts the two node ids before hashing them.                             *)
KeyMaterialLocalOnly(e1, e2, k, local, peer) ==
    [secret |-> {e1, e2}, keyId |-> k, nodes |-> {local}]

KeyMaterial(e1, e2, k, local, peer) ==
    [secret |-> {e1, e2}, keyId |-> k, nodes |-> {local, peer}]

Material == [secret : SUBSET Nat, keyId : KeyId, nodes : SUBSET Node]
Pending  == [keyId : KeyId \cup {NoKey}, eph : Nat, due : BOOLEAN]
Active   == [keyId : KeyId \cup {NoKey}, material : Material \cup {NoKey},
             due : BOOLEAN]

NoPending == [keyId |-> NoKey, eph |-> 0, due |-> FALSE]
NoActive  == [keyId |-> NoKey, material |-> NoKey, due |-> FALSE]

(* Occupied entries of one node's table.                                   *)
Peers(table) == {p \in Node : table[p].keyId # NoKey}

ErrorCodes == {"PAIR_NEGOTIATION_EXISTS", "PAIR_KEY_EXISTS",
               "KEY_LIMIT_REACHED", "KEY_INCORRECT", "UNKNOWN_KEY",
               "INVALID_REQUEST"}

Message == [type : {"request", "reply", "drop", "error"},
            src : Node, dst : Node, keyId : KeyId,
            eph : Nat, code : ErrorCodes \cup {"none"}]

Request(n, p, k, e) == [type |-> "request", src |-> n, dst |-> p, keyId |-> k,
                        eph |-> e, code |-> "none"]
Reply(n, p, k, e)   == [type |-> "reply", src |-> n, dst |-> p, keyId |-> k,
                        eph |-> e, code |-> "none"]
Drop(n, p, k)       == [type |-> "drop", src |-> n, dst |-> p, keyId |-> k,
                        eph |-> 0, code |-> "none"]
Error(n, p, k, c)   == [type |-> "error", src |-> n, dst |-> p, keyId |-> k,
                        eph |-> 0, code |-> c]

TypeOK ==
    /\ limits \in [Node -> Limits]
    /\ pending \in [Node -> [Node -> Pending]]
    /\ active \in [Node -> [Node -> Active]]
    /\ net \subseteq Message
    /\ owner \in [KeyId -> (Node \X Node) \cup {NoKey}]
    /\ ephemerals \in Nat
    /\ unpushed \subseteq Node \X Node \X KeyId
    /\ orphaned \subseteq KeyId

Init ==
    /\ limits \in [Node -> Limits]
    /\ pending = [n \in Node |-> [p \in Node |-> NoPending]]
    /\ active = [n \in Node |-> [p \in Node |-> NoActive]]
    /\ net = {}
    /\ owner = [k \in KeyId |-> NoKey]
    /\ ephemerals = 0
    /\ unpushed = {}
    /\ orphaned = {}
-----------------------------------------------------------------------------
(* processExpiredAesKeys: the tables of n without their due entries, and   *)
(* the drop notifications it queues.  An expired negotiation goes silently.*)
LivePending(n) ==
    [p \in Node |-> IF pending[n][p].due THEN NoPending ELSE pending[n][p]]

LiveActive(n) ==
    [p \in Node |-> IF active[n][p].due THEN NoActive ELSE active[n][p]]

ExpiryDropsNone(n) == {}

ExpiryDrops(n) ==
    {Drop(n, p, active[n][p].keyId) :
        p \in {q \in Peers(active[n]) : active[n][q].due}}

(* The tables of n become pend and act; consumed is what the step took     *)
(* from the network and sent what it queued beside the expiry drops.       *)
Update(n, pend, act, consumed, sent) ==
    /\ pending' = [pending EXCEPT ![n] = pend]
    /\ active' = [active EXCEPT ![n] = act]
    /\ net' = (net \ consumed) \cup ExpiryDrops(n) \cup sent

(* hasAesKey, aesKeyInfo, the counters, and enqueueInput of any message    *)
(* all run the expiry pass and change nothing else.                        *)
ProcessExpiredAesKeys(n) ==
    /\ Update(n, LivePending(n), LiveActive(n), {}, {})
    /\ UNCHANGED <<limits, owner, ephemerals, unpushed, orphaned>>

(* The clock passes expiresAt of an entry.                                 *)
PendingDeadlinePasses(n, p) ==
    /\ pending[n][p].keyId # NoKey
    /\ pending' = [pending EXCEPT ![n][p] = [@ EXCEPT !.due = TRUE]]
    /\ UNCHANGED <<limits, active, net, owner, ephemerals, unpushed, orphaned>>

ActiveDeadlinePasses(n, p) ==
    /\ active[n][p].keyId # NoKey
    /\ active' = [active EXCEPT ![n][p] = [@ EXCEPT !.due = TRUE]]
    /\ UNCHANGED <<limits, pending, net, owner, ephemerals, unpushed, orphaned>>

SetAesNegotiationLimits(n, l) ==
    /\ limits' = [limits EXCEPT ![n] = l]
    /\ UNCHANGED <<pending, active, net, owner, ephemerals, unpushed, orphaned>>
-----------------------------------------------------------------------------
(* The early returns of beginAesKeyNegotiation.                            *)
MayBegin(n, p) ==
    /\ LivePending(n)[p].keyId = NoKey
    /\ LiveActive(n)[p].keyId = NoKey
    /\ Cardinality(Peers(LivePending(n))) < limits[n].pending
    /\ Cardinality(Peers(LiveActive(n))) < limits[n].active

(* The negotiation is entered under the lock and its request pushed after  *)
(* it; a refused push is undone in a later critical section.  A call that  *)
(* returns early is a ProcessExpiredAesKeys step.                          *)
BeginAesKeyNegotiation(n, p, k, pushed) ==
    /\ n # p
    /\ MayBegin(n, p)
    /\ owner[k] = NoKey
    /\ Update(n,
              [LivePending(n) EXCEPT ![p] =
                 [keyId |-> k, eph |-> ephemerals + 1, due |-> FALSE]],
              LiveActive(n), {},
              IF pushed THEN {Request(n, p, k, ephemerals + 1)} ELSE {})
    /\ owner' = [owner EXCEPT ![k] = <<n, p>>]
    /\ ephemerals' = ephemerals + 1
    /\ unpushed' = IF pushed THEN unpushed ELSE unpushed \cup {<<n, p, k>>}
    /\ UNCHANGED <<limits, orphaned>>

(* The erase is by peer: it takes whatever negotiation is there by then.   *)
UndoUnpushed(n, p, k) ==
    /\ <<n, p, k>> \in unpushed
    /\ unpushed' = unpushed \ {<<n, p, k>>}
    /\ pending' = [pending EXCEPT ![n][p] = NoPending]
    /\ UNCHANGED <<limits, active, net, owner, ephemerals, orphaned>>

(* dropAesKey forgets a negotiation silently and announces a dropped key.  *)
DropAesKey(n, p) ==
    /\ Update(n,
              [LivePending(n) EXCEPT ![p] = NoPending],
              [LiveActive(n) EXCEPT ![p] = NoActive], {},
              IF LiveActive(n)[p].keyId = NoKey THEN {}
              ELSE {Drop(n, p, LiveActive(n)[p].keyId)})
    /\ UNCHANGED <<limits, owner, ephemerals, unpushed, orphaned>>
-----------------------------------------------------------------------------
(* How a cryptographic call on a received ephemeral key ends: a shared     *)
(* secret, no shared secret, or an exception.                              *)
Outcomes == {"secret", "none", "exception"}

(* Error code with which n answers a request of p, "none" to accept it.    *)
RequestRefusalNoKeyCheck(n, p, outcome) ==
    IF LivePending(n)[p].keyId # NoKey THEN "PAIR_NEGOTIATION_EXISTS"
    ELSE IF Cardinality(Peers(LiveActive(n)) \ {p}) >= limits[n].active
         THEN "KEY_LIMIT_REACHED"
    ELSE "none"

RequestRefusal(n, p, outcome) ==
    IF LivePending(n)[p].keyId # NoKey THEN "PAIR_NEGOTIATION_EXISTS"
    ELSE IF LiveActive(n)[p].keyId # NoKey THEN "PAIR_KEY_EXISTS"
    ELSE IF Cardinality(Peers(LiveActive(n))) >= limits[n].active
         THEN "KEY_LIMIT_REACHED"
    ELSE CASE outcome = "secret"    -> "none"
           [] outcome = "none"      -> "KEY_INCORRECT"
           [] outcome = "exception" -> "INVALID_REQUEST"

HandleRequest(m, outcome) ==
    LET n == m.dst
        p == m.src
        refusal == RequestRefusal(n, p, outcome)
        e == ephemerals + 1
    IN  /\ m \in net /\ m.type = "request"
        /\ \/ /\ refusal # "none"
              /\ Update(n, LivePending(n), LiveActive(n), {m},
                        {Error(n, p, m.keyId, refusal)})
              /\ UNCHANGED ephemerals
           \/ /\ refusal = "none"
              /\ Update(n, LivePending(n),
                        [LiveActive(n) EXCEPT ![p] =
                           [keyId |-> m.keyId,
                            material |-> KeyMaterial(e, m.eph, m.keyId, n, p),
                            due |-> FALSE]],
                        {m}, {Reply(n, p, m.keyId, e)})
              /\ ephemerals' = e
        /\ UNCHANGED <<limits, owner, unpushed, orphaned>>

(* Error code with which n answers a reply of p, "none" to install its key.*)
ReplyRefusal(n, p, k, outcome) ==
    IF LivePending(n)[p].keyId = NoKey THEN "UNKNOWN_KEY"
    ELSE IF LivePending(n)[p].keyId # k THEN "KEY_INCORRECT"
    ELSE IF \/ limits[n].active = 0
            \/ /\ LiveActive(n)[p].keyId = NoKey
               /\ Cardinality(Peers(LiveActive(n))) >= limits[n].active
         THEN "KEY_LIMIT_REACHED"
    ELSE CASE outcome = "secret"    -> "none"
           [] outcome = "none"      -> "KEY_INCORRECT"
           [] outcome = "exception" -> "INVALID_REQUEST"

(* A reply for the pending key ends the negotiation, except when the       *)
(* cryptographic call throws.  KEY_LIMIT_REACHED and INVALID_REQUEST leave *)
(* the peer's key installed (HandleError ignores them for active keys).    *)
HandleReply(m, outcome) ==
    LET n == m.dst
        p == m.src
        k == m.keyId
        refusal == ReplyRefusal(n, p, k, outcome)
        ended == /\ LivePending(n)[p].keyId = k
                 /\ refusal # "INVALID_REQUEST"
    IN  /\ m \in net /\ m.type = "reply"
        /\ Update(n,
                  IF ended THEN [LivePending(n) EXCEPT ![p] = NoPending]
                           ELSE LivePending(n),
                  IF refusal # "none" THEN LiveActive(n)
                  ELSE [LiveActive(n) EXCEPT ![p] =
                          [keyId |-> LivePending(n)[p].keyId,
                           material |-> KeyMaterial(LivePending(n)[p].eph, m.eph,
                                                    k, n, p),
                           due |-> FALSE]],
                  {m},
                  IF refusal = "none" THEN {} ELSE {Error(n, p, k, refusal)})
        /\ orphaned' = IF refusal \in {"KEY_LIMIT_REACHED", "INVALID_REQUEST"}
                       THEN orphaned \cup {k} ELSE orphaned
        /\ UNCHANGED <<limits, owner, ephemerals, unpushed>>

HandleDropForgetsPending(m) ==
    LET n == m.dst
        p == m.src
        k == m.keyId
        held == LiveActive(n)[p].keyId
    IN  /\ m \in net /\ m.type = "drop"
        /\ Update(n, LivePending(n),
                  IF held = k THEN [LiveActive(n) EXCEPT ![p] = NoActive]
                              ELSE LiveActive(n),
                  {m}, {})
        /\ UNCHANGED <<limits, owner, ephemerals, unpushed, orphaned>>

HandleDrop(m) ==
    LET n == m.dst
        p == m.src
        k == m.keyId
        held == LiveActive(n)[p].keyId
    IN  /\ m \in net /\ m.type = "drop"
        /\ Update(n,
                  IF LivePending(n)[p].keyId = k
                  THEN [LivePending(n) EXCEPT ![p] = NoPending] ELSE LivePending(n),
                  IF held = k THEN [LiveActive(n) EXCEPT ![p] = NoActive]
                              ELSE LiveActive(n),
                  {m},
                  CASE held = k     -> {}
                    [] held = NoKey -> {Error(n, p, k, "UNKNOWN_KEY")}
                    [] OTHER        -> {Error(n, p, k, "KEY_INCORRECT")})
        /\ UNCHANGED <<limits, owner, ephemerals, unpushed, orphaned>>

(* handleAesKeyNegotiationError.  KEY_NEGOTIATION_ERROR_EXPIRED revokes    *)
(* too, but no node sends it.                                              *)
RevokingCodes == {"KEY_INCORRECT", "UNKNOWN_KEY"}

HandleError(m) ==
    LET n == m.dst
        p == m.src
        k == m.keyId
    IN  /\ m \in net /\ m.type = "error"
        /\ Update(n,
                  IF LivePending(n)[p].keyId = k
                  THEN [LivePending(n) EXCEPT ![p] = NoPending] ELSE LivePending(n),
                  IF m.code \in RevokingCodes /\ LiveActive(n)[p].keyId = k
                  THEN [LiveActive(n) EXCEPT ![p] = NoActive] ELSE LiveActive(n),
                  {m}, {})
        /\ UNCHANGED <<limits, owner, ephemerals, unpushed, orphaned>>

(* A full queue or a broken connection on the way.                         *)
Lose(m) ==
    /\ m \in net
    /\ net' = net \ {m}
    /\ orphaned' = orphaned \cup {m.keyId}
    /\ UNCHANGED <<limits, pending, active, owner, ephemerals, unpushed>>

Next ==
    \/ \E n \in Node : ProcessExpiredAesKeys(n)
    \/ \E n, p \in Node : PendingDeadlinePasses(n, p)
    \/ \E n, p \in Node : ActiveDeadlinePasses(n, p)
    \/ \E n \in Node, l \in Limits : SetAesNegotiationLimits(n, l)
    \/ \E n, p \in Node, k \in KeyId, pushed \in BOOLEAN :
         BeginAesKeyNegotiation(n, p, k, pushed)
    \/ \E n, p \in Node, k \in KeyId : UndoUnpushed(n, p, k)
    \/ \E n, p \in Node : DropAesKey(n, p)
    \/ \E m \in net, o \in Outcomes : HandleRequest(m, o)
    \/ \E m \in net, o \in Outcomes : HandleReply(m, o)
    \/ \E m \in net : HandleDrop(m)
    \/ \E m \in net : HandleError(m)
    \/ \E m \in net : Lose(m)

Spec == Init /\ [][Next]_vars
-----------------------------------------------------------------------------
(* A node never has a negotiation and a key for the same peer: the request *)
(* handler, beginAesKeyNegotiation and the reply handler exclude each      *)
(* other through the two tables.                                           *)
PairExclusive ==
    \A n, p \in Node :
        pending[n][p].keyId = NoKey \/ active[n][p].keyId = NoKey

(* Two nodes that hold the same key id for each other derived the same key *)
(* material, whatever was lost, reordered, refused or abandoned on the way *)
(* (aesKeyMaterialForPeer on both sides).                                  *)
KeyAgreement ==
    \A n, p \in Node :
        (/\ active[n][p].keyId # NoKey
         /\ active[n][p].keyId = active[p][n].keyId)
           => active[n][p].material = active[p][n].material

RevokingError(m) ==
    m.type = "error" /\ m.code \in {"KEY_INCORRECT", "UNKNOWN_KEY"}

(* p has told n, in a message still in flight, that it does not hold k.    *)
Revoked(n, p, k) ==
    \E m \in net : /\ m.keyId = k /\ m.src = p /\ m.dst = n
                    /\ (m.type = "drop" \/ RevokingError(m))

Answering(n, p, k) ==
    \E m \in net : m.keyId = k /\ m.src = n /\ m.dst = p /\ m.type = "reply"

(* A key that only one side holds is never silently stranded: a reply that *)
(* can still install it, or a drop notification or error that will revoke  *)
(* it, is on its way, unless one of its messages was lost or its answer    *)
(* was refused with KEY_LIMIT_REACHED or INVALID_REQUEST, in which case    *)
(* only its expiry removes it.                                             *)
OneSidedKeyIsRepaired ==
    \A n, p \in Node :
        LET k == active[n][p].keyId
        IN  k # NoKey /\ active[p][n].keyId # k
              => Answering(n, p, k) \/ Revoked(n, p, k) \/ k \in orphaned

-----------------------------------------------------------------------------
(* The facts about each key id that make the three properties inductive.   *)

(* Every entry and message of a key id concerns the two nodes of the       *)
(* negotiation that drew it, in the role they had in it.                   *)
Roles ==
    /\ \A n, p \in Node :
         /\ pending[n][p].keyId # NoKey => owner[pending[n][p].keyId] = <<n, p>>
         /\ active[n][p].keyId # NoKey
              => owner[active[n][p].keyId] \in {<<n, p>>, <<p, n>>}
    /\ \A m \in net :
         /\ m.type = "request" => owner[m.keyId] = <<m.src, m.dst>>
         /\ m.type = "reply" => owner[m.keyId] = <<m.dst, m.src>>
         /\ owner[m.keyId] \in {<<m.src, m.dst>>, <<m.dst, m.src>>}
    /\ \A u \in unpushed : owner[u[3]] # NoKey
    /\ \A k \in KeyId : owner[k] # NoKey => owner[k][1] # owner[k][2]

(* A request in flight is the only trace of its key id besides the         *)
(* negotiation that sent it, and carries that negotiation's ephemeral key. *)
RequestIsFirst ==
    \A m \in net : m.type = "request" =>
        /\ \A o \in net : o.keyId = m.keyId => o = m
        /\ \A n, p \in Node : active[n][p].keyId # m.keyId
        /\ \A n, p \in Node : pending[n][p].keyId = m.keyId
                              => pending[n][p].eph = m.eph

(* A reply in flight is the only one for its key id, its receiver has not  *)
(* installed the key, and the sender's key is the one the receiver would   *)
(* derive from it.                                                         *)
ReplyMatches ==
    \A m \in net : m.type = "reply" =>
        /\ \A o \in net : o.type = "reply" /\ o.keyId = m.keyId => o = m
        /\ active[m.dst][m.src].keyId # m.keyId
        /\ (/\ pending[m.dst][m.src].keyId = m.keyId
            /\ active[m.src][m.dst].keyId = m.keyId)
             => active[m.src][m.dst].material =
                  KeyMaterial(pending[m.dst][m.src].eph, m.eph, m.keyId,
                              m.dst, m.src)

(* The sender of a drop or of a revoking error neither holds the key nor   *)
(* waits for it.                                                           *)
RevokerIsDone ==
    \A m \in net : m.type = "drop" \/ RevokingError(m) =>
        /\ active[m.src][m.dst].keyId # m.keyId
        /\ pending[m.src][m.dst].keyId # m.keyId

(* An initiator that holds a key, or may still install it from the reply,  *)
(* shares it with the responder or will learn that it does not.            *)
InitiatorLearns ==
    \A n, p \in Node, k \in KeyId :
        /\ owner[k] = <<n, p>>
        /\ \/ active[n][p].keyId = k
           \/ pending[n][p].keyId = k /\ Answering(p, n, k)
        /\ active[p][n].keyId # k
        => Revoked(n, p, k) \/ k \in orphaned

(* A responder that holds a key shares it with the initiator, or the       *)
(* answer is in flight, or it will learn that it does not.                 *)
ResponderLearns ==
    \A n, p \in Node, k \in KeyId :
        owner[k] = <<p, n>> /\ active[n][p].keyId = k /\ active[p][n].keyId # k
        => Answering(n, p, k) \/ Revoked(n, p, k) \/ k \in orphaned

(* A key id lives through request, answer, key and revocation in this      *)
(* order: the inductive invariant behind the three properties above.       *)
KeyLifecycle ==
    /\ PairExclusive
    /\ Roles
    /\ RequestIsFirst
    /\ ReplyMatches
    /\ RevokerIsDone
    /\ InitiatorLearns
    /\ ResponderLearns
    /\ KeyAgreement
-----------------------------------------------------------------------------
(* The key table only changes the way its readers expect.  An installed    *)
(* key is never overwritten: an entry that has not expired keeps its key   *)
(* id until it is erased (both installs assign activeByPeer[sender], and   *)
(* the reply handler does not check for a key).  And a key is added only   *)
(* below the node's maxActiveKeys in force, even when the limit was        *)
(* lowered or the table filled up during the negotiation.                  *)
KeyTableStep ==
    /\ \A n, p \in Node :
         (active[n][p].keyId # NoKey /\ ~active[n][p].due)
           => active'[n][p].keyId \in {active[n][p].keyId, NoKey}
    /\ \A n \in Node :
         \/ Peers(active'[n]) \subseteq Peers(active[n])
         \/ Cardinality(Peers(active'[n])) <= limits[n].active

(* Every step of every node keeps that discipline.                         *)
KeyTableDiscipline == [][KeyTableStep]_vars
=============================================================================
