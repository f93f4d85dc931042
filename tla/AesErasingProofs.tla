-------------------------- MODULE AesErasingProofs --------------------------
(* What a step of AesNegotiation that only erases entries preserves, and    *)
(* the steps that are of this kind, for every set of nodes and limits: the  *)
(* expiry pass, dropAesKey, a refused request or reply, a drop, an error.   *)
EXTENDS AesNegotiation, TLAPS

USE SMTT(30)

LEMMA EmptyEntries == NoPending \in Pending /\ NoActive \in Active
  BY Zenon DEF NoPending, NoActive, Pending, Active

(* The expiry pass yields well-typed tables and drop notifications.        *)
LEMMA LiveTyped ==
  ASSUME TypeOK, NEW n \in Node
  PROVE  /\ LivePending(n) \in [Node -> Pending]
         /\ LiveActive(n) \in [Node -> Active]
         /\ ExpiryDrops(n) \subseteq Message
  <1>1. /\ LivePending(n) \in [Node -> Pending]
        /\ LiveActive(n) \in [Node -> Active]
    BY EmptyEntries DEF TypeOK, LivePending, LiveActive
  <1>2. ASSUME NEW p \in Node, active[n][p].keyId # NoKey
        PROVE  Drop(n, p, active[n][p].keyId) \in Message
    BY <1>2 DEF TypeOK, Drop, Message, Active
  <1>3. QED
    BY Zenon, <1>1, <1>2 DEF ExpiryDrops, Peers

LEMMA UpdateTyped ==
  ASSUME TypeOK, NEW n \in Node,
         NEW pend \in [Node -> Pending], NEW act \in [Node -> Active],
         NEW consumed, NEW sent \in SUBSET Message,
         Update(n, pend, act, consumed, sent)
  PROVE  /\ pending' \in [Node -> [Node -> Pending]]
         /\ active' \in [Node -> [Node -> Active]]
         /\ net' \subseteq Message
  BY Zenon, LiveTyped DEF TypeOK, Update

LEMMA MaterialTyped ==
  ASSUME NEW n \in Node, NEW p \in Node, NEW k \in KeyId,
         NEW e \in Nat, NEW f \in Nat
  PROVE  [keyId |-> k, material |-> KeyMaterial(e, f, k, n, p), due |-> FALSE]
           \in Active
  BY Zenon DEF Active, Material, KeyMaterial

LEMMA DueTyped ==
  /\ \A r \in Pending : /\ [r EXCEPT !.due = TRUE] \in Pending
                       /\ [r EXCEPT !.due = TRUE].keyId = r.keyId
                       /\ [r EXCEPT !.due = TRUE].eph = r.eph
  /\ \A r \in Active : /\ [r EXCEPT !.due = TRUE] \in Active
                      /\ [r EXCEPT !.due = TRUE].keyId = r.keyId
                      /\ [r EXCEPT !.due = TRUE].material = r.material
  BY Zenon DEF Pending, Active

-----------------------------------------------------------------------------
Revokes(m) == m.type = "drop" \/ RevokingError(m)

(* What every step does that installs nothing: table entries survive       *)
(* unchanged or go, ...                                                    *)
EntriesSurvive ==
  \A x, y \in Node :
    /\ \/ pending'[x][y].keyId = NoKey
       \/ /\ pending'[x][y].keyId = pending[x][y].keyId
          /\ pending'[x][y].eph = pending[x][y].eph
    /\ \/ active'[x][y].keyId = NoKey
       \/ /\ active'[x][y].keyId = active[x][y].keyId
          /\ active'[x][y].material = active[x][y].material

(* ... the messages it sends are errors, and drops of what is gone, ...    *)
SendsRevocations ==
  \A m \in net' : m \notin net =>
    /\ m.type \in {"drop", "error"}
    /\ owner[m.keyId] \in {<<m.src, m.dst>>, <<m.dst, m.src>>}
    /\ \A o \in net : o.keyId = m.keyId /\ o.type = "request" => o \notin net'
    /\ Revokes(m) => /\ active'[m.src][m.dst].keyId # m.keyId
                     /\ pending'[m.src][m.dst].keyId # m.keyId

(* ... a key it erases is announced or the peer is done with it, ...       *)
ErasuresAnnounced ==
  \A x, y \in Node, k \in KeyId :
    active[x][y].keyId = k /\ active'[x][y].keyId # k =>
      \/ Revoked(y, x, k)'
      \/ active[y][x].keyId # k /\ pending[y][x].keyId # k

(* ... and a message it consumes has had its effect or is answered.        *)
ConsumptionsAnswered ==
  \A m \in net : m \notin net' =>
    \/ m.keyId \in orphaned'
    \/ m.type = "request" \/ (m.type = "error" /\ ~RevokingError(m))
    \/ m.type = "reply" /\ Revoked(m.src, m.dst, m.keyId)'
    \/ /\ Revokes(m)
       /\ active'[m.dst][m.src].keyId # m.keyId
       /\ pending'[m.dst][m.src].keyId # m.keyId

ErasingStep ==
  /\ owner' = owner /\ orphaned \subseteq orphaned' /\ unpushed' \subseteq unpushed
  /\ EntriesSurvive /\ SendsRevocations /\ ErasuresAnnounced
  /\ ConsumptionsAnswered

LEMMA MessageTyped ==
  ASSUME TypeOK
  PROVE  \A m \in net : /\ m.src \in Node /\ m.dst \in Node
                        /\ m.keyId \in KeyId /\ m.keyId # NoKey
                        /\ m.eph \in Nat
  BY Zenon, KeyAssumption DEF TypeOK, Message

LEMMA ErasingStepPreserves ==
  ASSUME TypeOK, TypeOK', KeyLifecycle, ErasingStep
  PROVE  KeyLifecycle'
  <1>a. \A m \in net : m.src \in Node /\ m.dst \in Node /\ m.keyId # NoKey
    BY Zenon, MessageTyped
  <1>b. \A m \in net' : m.src \in Node /\ m.dst \in Node /\ m.keyId # NoKey
    BY Zenon, KeyAssumption DEF TypeOK, Message
  <1>c. \A k \in KeyId : k # NoKey
    BY Zenon, KeyAssumption
  <1>1. PairExclusive'
    BY DEF ErasingStep, EntriesSurvive, KeyLifecycle, PairExclusive
  <1>2. Roles'
    <2>a. Roles /\ EntriesSurvive /\ SendsRevocations
      BY Zenon DEF ErasingStep, KeyLifecycle
    <2>b. owner' = owner /\ unpushed' \subseteq unpushed
      BY Zenon DEF ErasingStep
    <2>1. ASSUME NEW n \in Node, NEW p \in Node
          PROVE  /\ pending'[n][p].keyId # NoKey
                      => owner'[pending'[n][p].keyId] = <<n, p>>
                 /\ active'[n][p].keyId # NoKey
                      => owner'[active'[n][p].keyId] \in {<<n, p>>, <<p, n>>}
      <3>1. /\ \/ pending'[n][p].keyId = NoKey
               \/ pending'[n][p].keyId = pending[n][p].keyId
            /\ \/ active'[n][p].keyId = NoKey
               \/ active'[n][p].keyId = active[n][p].keyId
        BY Zenon, <2>a DEF EntriesSurvive
      <3>2. QED
        BY Zenon, <2>a, <2>b, <3>1 DEF Roles
    <2>2. \A m \in net' :
            /\ m.type = "request" => owner'[m.keyId] = <<m.src, m.dst>>
            /\ m.type = "reply" => owner'[m.keyId] = <<m.dst, m.src>>
            /\ owner'[m.keyId] \in {<<m.src, m.dst>>, <<m.dst, m.src>>}
      BY Zenon, <2>a, <2>b DEF SendsRevocations, Roles
    <2>3. \A u \in unpushed' : owner'[u[3]] # NoKey
      BY Zenon, <2>a, <2>b DEF Roles
    <2>4. \A k \in KeyId : owner'[k] # NoKey => owner'[k][1] # owner'[k][2]
      BY Zenon, <2>a, <2>b DEF Roles
    <2>5. QED
      BY Zenon, <2>1, <2>2, <2>3, <2>4 DEF Roles
  <1>3. RequestIsFirst'
    <2> SUFFICES ASSUME NEW m \in net', m.type = "request"
                 PROVE /\ \A o \in net' : o.keyId = m.keyId => o = m
                       /\ \A n, p \in Node : active'[n][p].keyId # m.keyId
                       /\ \A n, p \in Node : pending'[n][p].keyId = m.keyId
                                             => pending'[n][p].eph = m.eph
      BY Zenon DEF RequestIsFirst
    <2>1. m \in net
      BY Zenon DEF ErasingStep, SendsRevocations
    <2>2. \A o \in net' : o.keyId = m.keyId => o = m
      BY Zenon, <2>1 DEF ErasingStep, SendsRevocations, KeyLifecycle, RequestIsFirst
    <2>3. QED
      BY <2>1, <2>2, <1>a DEF ErasingStep, EntriesSurvive, KeyLifecycle, RequestIsFirst
  <1>4. ReplyMatches'
    <2> SUFFICES ASSUME NEW m \in net', m.type = "reply"
                 PROVE /\ \A o \in net' : o.type = "reply" /\ o.keyId = m.keyId => o = m
                       /\ active'[m.dst][m.src].keyId # m.keyId
                       /\ (/\ pending'[m.dst][m.src].keyId = m.keyId
                           /\ active'[m.src][m.dst].keyId = m.keyId)
                            => active'[m.src][m.dst].material =
                                 KeyMaterial(pending'[m.dst][m.src].eph, m.eph,
                                             m.keyId, m.dst, m.src)
      BY Zenon DEF ReplyMatches, KeyMaterial
    <2>1. m \in net
      BY Zenon DEF ErasingStep, SendsRevocations
    <2>2. \A o \in net' : o.type = "reply" => o \in net
      BY Zenon DEF ErasingStep, SendsRevocations
    <2>3. \A o \in net' : o.type = "reply" /\ o.keyId = m.keyId => o = m
      BY Zenon, <2>1, <2>2 DEF KeyLifecycle, ReplyMatches
    <2>4. active'[m.dst][m.src].keyId # m.keyId
      BY <2>1, <1>a DEF ErasingStep, EntriesSurvive, KeyLifecycle, ReplyMatches
    <2>5. ASSUME pending'[m.dst][m.src].keyId = m.keyId,
                 active'[m.src][m.dst].keyId = m.keyId
          PROVE  active'[m.src][m.dst].material =
                   KeyMaterial(pending'[m.dst][m.src].eph, m.eph,
                               m.keyId, m.dst, m.src)
      <3>1. /\ pending[m.dst][m.src].keyId = m.keyId
            /\ pending[m.dst][m.src].eph = pending'[m.dst][m.src].eph
            /\ active[m.src][m.dst].keyId = m.keyId
            /\ active[m.src][m.dst].material = active'[m.src][m.dst].material
        BY Zenon, <2>1, <2>5, <1>a DEF ErasingStep, EntriesSurvive
      <3>2. QED
        BY Zenon, <2>1, <3>1 DEF KeyLifecycle, ReplyMatches
    <2>6. QED
      BY Zenon, <2>3, <2>4, <2>5
  <1>5. RevokerIsDone'
    <2> SUFFICES ASSUME NEW m \in net', Revokes(m)
                 PROVE /\ active'[m.src][m.dst].keyId # m.keyId
                       /\ pending'[m.src][m.dst].keyId # m.keyId
      BY Zenon DEF RevokerIsDone, Revokes, RevokingError
    <2>1. CASE m \in net
      BY <2>1, <1>a DEF ErasingStep, EntriesSurvive, KeyLifecycle, RevokerIsDone, Revokes
    <2>2. CASE m \notin net
      BY Zenon, <2>2 DEF ErasingStep, SendsRevocations
    <2>3. QED
      BY Zenon, <2>1, <2>2
  <1>6. InitiatorLearns'
    <2> SUFFICES ASSUME NEW n \in Node, NEW p \in Node, NEW k \in KeyId,
                        owner[k] = <<n, p>>,
                        \/ active'[n][p].keyId = k
                        \/ pending'[n][p].keyId = k /\ Answering(p, n, k)',
                        active'[p][n].keyId # k
                 PROVE  Revoked(n, p, k)' \/ k \in orphaned'
      BY Zenon DEF InitiatorLearns, ErasingStep
    <2>1. Answering(p, n, k)' => Answering(p, n, k)
      BY Zenon DEF Answering, ErasingStep, SendsRevocations
    <2>2. \/ active[n][p].keyId = k
          \/ pending[n][p].keyId = k /\ Answering(p, n, k)
      BY Zenon, <2>1, <1>c DEF ErasingStep, EntriesSurvive
    <2>3. CASE active[p][n].keyId = k
      BY Zenon, <2>2, <2>3 DEF ErasingStep, ErasuresAnnounced
    <2>4. CASE active[p][n].keyId # k
      <3>1. Revoked(n, p, k) \/ k \in orphaned
        BY Zenon, <2>2, <2>4 DEF KeyLifecycle, InitiatorLearns
      <3>2. ASSUME NEW m \in net, m.keyId = k, m.src = p, m.dst = n, Revokes(m)
            PROVE  m \in net' \/ k \in orphaned'
        BY Zenon, <3>2, <2>2 DEF ErasingStep, ConsumptionsAnswered, Revokes, RevokingError
      <3>3. QED
        BY Zenon, <3>1, <3>2 DEF Revoked, Revokes, ErasingStep, RevokingError
    <2>5. QED
      BY Zenon, <2>3, <2>4
  <1>7. ResponderLearns'
    <2> SUFFICES ASSUME NEW n \in Node, NEW p \in Node, NEW k \in KeyId,
                        owner[k] = <<p, n>>, active'[n][p].keyId = k,
                        active'[p][n].keyId # k
                 PROVE  Answering(n, p, k)' \/ Revoked(n, p, k)' \/ k \in orphaned'
      BY Zenon DEF ResponderLearns, ErasingStep
    <2>1. active[n][p].keyId = k
      BY Zenon, <1>c DEF ErasingStep, EntriesSurvive
    <2>2. CASE active[p][n].keyId = k
      BY Zenon, <2>1, <2>2 DEF ErasingStep, ErasuresAnnounced
    <2>3. CASE active[p][n].keyId # k
      <3>1. Answering(n, p, k) \/ Revoked(n, p, k) \/ k \in orphaned
        BY Zenon, <2>1, <2>3 DEF KeyLifecycle, ResponderLearns
      <3>2. ASSUME NEW m \in net, m.keyId = k, m.src = p, m.dst = n, Revokes(m)
            PROVE  m \in net' \/ k \in orphaned'
        BY Zenon, <3>2, <2>1 DEF ErasingStep, ConsumptionsAnswered, Revokes, RevokingError
      <3>3. ASSUME NEW m \in net, m.keyId = k, m.src = n, m.dst = p, m.type = "reply"
            PROVE  m \in net' \/ Revoked(n, p, k)' \/ k \in orphaned'
        BY Zenon, <3>3 DEF ErasingStep, ConsumptionsAnswered, Revokes, RevokingError
      <3>4. QED
        BY Zenon, <3>1, <3>2, <3>3 DEF Revoked, Revokes, ErasingStep, RevokingError, Answering
    <2>5. QED
      BY Zenon, <2>2, <2>3
  <1>8. KeyAgreement'
    BY DEF ErasingStep, EntriesSurvive, KeyLifecycle, KeyAgreement
  <1>9. QED
    BY Zenon, <1>1, <1>2, <1>3, <1>4, <1>5, <1>6, <1>7, <1>8 DEF KeyLifecycle
-----------------------------------------------------------------------------
(* What the expiry pass of n leaves and announces.                         *)
LEMMA ExpiryPass ==
  ASSUME TypeOK, KeyLifecycle, NEW n \in Node
  PROVE  /\ \A y \in Node :
              /\ LivePending(n)[y].keyId = NoKey \/ LivePending(n)[y] = pending[n][y]
              /\ LiveActive(n)[y].keyId = NoKey \/ LiveActive(n)[y] = active[n][y]
              /\ LiveActive(n)[y].keyId # active[n][y].keyId
                   => Drop(n, y, active[n][y].keyId) \in ExpiryDrops(n)
         /\ \A m \in ExpiryDrops(n) :
              /\ m.type = "drop" /\ m.src = n /\ m.dst \in Node
              /\ m.keyId = active[n][m.dst].keyId /\ m.keyId # NoKey
              /\ LiveActive(n)[m.dst].keyId = NoKey
              /\ LivePending(n)[m.dst].keyId = NoKey
  <1>1. ASSUME NEW y \in Node
        PROVE  /\ LivePending(n)[y].keyId = NoKey \/ LivePending(n)[y] = pending[n][y]
               /\ LiveActive(n)[y].keyId = NoKey \/ LiveActive(n)[y] = active[n][y]
               /\ LiveActive(n)[y].keyId # active[n][y].keyId
                    => Drop(n, y, active[n][y].keyId) \in ExpiryDrops(n)
    BY Zenon DEF LivePending, LiveActive, NoPending, NoActive, ExpiryDrops, Peers
  <1>2. ASSUME NEW y \in Node, active[n][y].keyId # NoKey, active[n][y].due
        PROVE  LiveActive(n)[y].keyId = NoKey /\ LivePending(n)[y].keyId = NoKey
    BY ZenonT(30), <1>2, <1>1 DEF LiveActive, NoActive, KeyLifecycle, PairExclusive
  <1>3. ASSUME NEW m \in ExpiryDrops(n)
        PROVE  /\ m.type = "drop" /\ m.src = n /\ m.dst \in Node
               /\ m.keyId = active[n][m.dst].keyId /\ m.keyId # NoKey
               /\ LiveActive(n)[m.dst].keyId = NoKey
               /\ LivePending(n)[m.dst].keyId = NoKey
    <2>1. PICK y \in Node : /\ active[n][y].keyId # NoKey /\ active[n][y].due
                            /\ m = Drop(n, y, active[n][y].keyId)
      BY Zenon DEF ExpiryDrops, Peers
    <2>2. QED
      BY Zenon, <2>1, <1>2 DEF Drop
  <1>4. QED
    BY Zenon, <1>1, <1>3

(* An Update of node n that installs nothing: entries stay or go, ...      *)
OnlyErases(n, pend, act) ==
  \A y \in Node :
    /\ pend[y].keyId = NoKey \/ pend[y] = LivePending(n)[y]
    /\ act[y].keyId = NoKey \/ act[y] = LiveActive(n)[y]

(* ... what it sends concerns keys that it does not have, ...              *)
OnlyRevokes(n, pend, act, consumed, sent) ==
  \A m \in sent :
    /\ m.type \in {"drop", "error"} /\ m.src = n /\ m.dst \in Node
    /\ owner[m.keyId] \in {<<m.src, m.dst>>, <<m.dst, m.src>>}
    /\ \A o \in net \ consumed : o.keyId = m.keyId => o.type # "request"
    /\ Revokes(m) => act[m.dst].keyId # m.keyId /\ pend[m.dst].keyId # m.keyId

(* ... the peer of an erased key is told or does not have it, ...          *)
ErasedIsTold(n, act, sent) ==
  \A y \in Node, k \in KeyId : LiveActive(n)[y].keyId = k /\ act[y].keyId # k =>
    \/ \E m \in sent : Revokes(m) /\ m.src = n /\ m.dst = y /\ m.keyId = k
    \/ active[y][n].keyId # k /\ pending[y][n].keyId # k

(* ... and what it consumes has had its effect or is answered.             *)
ConsumedIsDone(n, pend, act, consumed, sent) ==
  \A m \in consumed :
    /\ m.dst = n
    /\ \/ m.keyId \in orphaned'
       \/ m.type = "request" \/ (m.type = "error" /\ ~RevokingError(m))
       \/ /\ m.type = "reply"
          /\ \E o \in sent : /\ Revokes(o) /\ o.src = n
                              /\ o.dst = m.src /\ o.keyId = m.keyId
       \/ /\ Revokes(m)
          /\ act[m.src].keyId # m.keyId /\ pend[m.src].keyId # m.keyId

ErasingUpdate(n, pend, act, consumed, sent) ==
  /\ Update(n, pend, act, consumed, sent) /\ consumed \subseteq net
  /\ OnlyErases(n, pend, act)
  /\ OnlyRevokes(n, pend, act, consumed, sent)
  /\ ErasedIsTold(n, act, sent)
  /\ ConsumedIsDone(n, pend, act, consumed, sent)

LEMMA ErasingUpdateErases ==
  ASSUME TypeOK, KeyLifecycle, NEW n \in Node,
         NEW pend \in [Node -> Pending], NEW act \in [Node -> Active],
         NEW consumed, NEW sent \in SUBSET Message,
         owner' = owner, orphaned \subseteq orphaned', unpushed' \subseteq unpushed,
         ErasingUpdate(n, pend, act, consumed, sent)
  PROVE  ErasingStep
  <1>1. /\ \A x, y \in Node :
             /\ pending'[x][y] = IF x = n THEN pend[y] ELSE pending[x][y]
             /\ active'[x][y] = IF x = n THEN act[y] ELSE active[x][y]
        /\ net' = (net \ consumed) \cup ExpiryDrops(n) \cup sent
    BY Zenon DEF ErasingUpdate, Update, TypeOK
  <1>e. \A y \in Node :
          /\ pend[y].keyId = NoKey \/ pend[y] = LivePending(n)[y]
          /\ act[y].keyId = NoKey \/ act[y] = LiveActive(n)[y]
    BY Zenon DEF ErasingUpdate, OnlyErases
  <1>2. EntriesSurvive
    <2>1. \A y \in Node :
            /\ pend[y].keyId = NoKey \/ pend[y] = pending[n][y]
            /\ act[y].keyId = NoKey \/ act[y] = active[n][y]
      BY <1>e, ExpiryPass
    <2>2. QED
      BY <1>1, <2>1 DEF EntriesSurvive
  <1>3. ASSUME NEW m \in ExpiryDrops(n)
        PROVE  /\ owner[m.keyId] \in {<<m.src, m.dst>>, <<m.dst, m.src>>}
               /\ \A o \in net : o.keyId = m.keyId => o.type # "request"
               /\ act[m.dst].keyId # m.keyId /\ pend[m.dst].keyId # m.keyId
    <2>1. /\ m.src = n /\ m.dst \in Node /\ m.keyId # NoKey
          /\ active[n][m.dst].keyId = m.keyId
          /\ LiveActive(n)[m.dst].keyId = NoKey
          /\ LivePending(n)[m.dst].keyId = NoKey
      BY ExpiryPass
    <2>2. owner[m.keyId] \in {<<m.src, m.dst>>, <<m.dst, m.src>>}
      BY Zenon, <2>1 DEF KeyLifecycle, Roles
    <2>3. \A o \in net : o.keyId = m.keyId => o.type # "request"
      BY <2>1 DEF KeyLifecycle, RequestIsFirst
    <2>4. act[m.dst].keyId = NoKey /\ pend[m.dst].keyId = NoKey
      BY Zenon, <2>1, <1>e
    <2>5. QED
      BY Zenon, <2>1, <2>2, <2>3, <2>4
  <1>4. SendsRevocations
    <2> SUFFICES ASSUME NEW m \in net', m \notin net
                 PROVE  /\ m.type \in {"drop", "error"}
                        /\ owner[m.keyId] \in {<<m.src, m.dst>>, <<m.dst, m.src>>}
                        /\ \A o \in net : o.keyId = m.keyId /\ o.type = "request"
                                          => o \notin net'
                        /\ Revokes(m) => /\ active'[m.src][m.dst].keyId # m.keyId
                                         /\ pending'[m.src][m.dst].keyId # m.keyId
      BY Zenon DEF SendsRevocations
    <2>1. CASE m \in ExpiryDrops(n)
      BY <2>1, <1>1, <1>3, ExpiryPass
    <2>2. CASE m \in sent
      <3>1. \A o \in net' : o.type = "request" => o \in net \ consumed
        BY Zenon, <1>1, ExpiryPass DEF ErasingUpdate, OnlyRevokes
      <3>2. QED
        BY <2>2, <3>1, <1>1 DEF ErasingUpdate, OnlyRevokes
    <2>3. QED
      BY Zenon, <2>1, <2>2, <1>1
  <1>5. ErasuresAnnounced
    <2> SUFFICES ASSUME NEW x \in Node, NEW y \in Node, NEW k \in KeyId,
                        active[x][y].keyId = k, active'[x][y].keyId # k
                 PROVE  \/ Revoked(y, x, k)'
                        \/ active[y][x].keyId # k /\ pending[y][x].keyId # k
      BY Zenon DEF ErasuresAnnounced
    <2>1. x = n
      BY Zenon, <1>1
    <2>2. CASE LiveActive(n)[y].keyId # k
      <3>1. Drop(n, y, k) \in net'
        BY Zenon, <2>1, <2>2, <1>1, ExpiryPass
      <3>2. QED
        BY Zenon, <3>1, <2>1 DEF Revoked, Drop
    <2>3. CASE LiveActive(n)[y].keyId = k
      <3>1. \A m \in sent : m \in net'
        BY Zenon, <1>1
      <3>2. QED
        BY <2>1, <2>3, <3>1, <1>1 DEF ErasingUpdate, ErasedIsTold, Revoked, Revokes,
                                        RevokingError
    <2>4. QED
      BY Zenon, <2>2, <2>3
  <1>6. ConsumptionsAnswered
    <2> SUFFICES ASSUME NEW m \in net, m \notin net'
                 PROVE  \/ m.keyId \in orphaned'
                        \/ m.type = "request" \/ (m.type = "error" /\ ~RevokingError(m))
                        \/ m.type = "reply" /\ Revoked(m.src, m.dst, m.keyId)'
                        \/ /\ Revokes(m)
                           /\ active'[m.dst][m.src].keyId # m.keyId
                           /\ pending'[m.dst][m.src].keyId # m.keyId
      BY Zenon DEF ConsumptionsAnswered
    <2>1. m \in consumed /\ m.src \in Node
      BY Zenon, <1>1, MessageTyped
    <2>2. \A o \in sent : o \in net'
      BY Zenon, <1>1
    <2>3. QED
      BY <2>1, <2>2, <1>1 DEF ErasingUpdate, ConsumedIsDone, Revoked, Revokes,
                                 RevokingError
  <1>7. QED
    BY Zenon, <1>2, <1>4, <1>5, <1>6 DEF ErasingStep
-----------------------------------------------------------------------------
(* The erasing updates, put together: a well-typed one preserves both      *)
(* invariants.                                                             *)
LEMMA ErasingUpdatePreserves ==
  ASSUME TypeOK, KeyLifecycle, NEW n \in Node,
         NEW pend \in [Node -> Pending], NEW act \in [Node -> Active],
         NEW consumed, NEW sent \in SUBSET Message,
         UNCHANGED <<limits, owner, ephemerals, unpushed>>,
         orphaned \subseteq orphaned', orphaned' \subseteq KeyId,
         ErasingUpdate(n, pend, act, consumed, sent)
  PROVE  TypeOK' /\ KeyLifecycle'
  <1>1. TypeOK'
    <2>1. /\ pending' \in [Node -> [Node -> Pending]]
          /\ active' \in [Node -> [Node -> Active]]
          /\ net' \subseteq Message
      BY Zenon, UpdateTyped DEF ErasingUpdate
    <2>2. QED
      BY Zenon, <2>1 DEF TypeOK
  <1>2. ErasingStep
    BY Zenon, ErasingUpdateErases
  <1>3. QED
    BY Zenon, <1>1, <1>2, ErasingStepPreserves

LEMMA ProcessExpiredStep ==
  ASSUME TypeOK, KeyLifecycle, NEW n \in Node, ProcessExpiredAesKeys(n)
  PROVE  TypeOK' /\ KeyLifecycle'
  <1>1. ErasingUpdate(n, LivePending(n), LiveActive(n), {}, {})
    BY Zenon DEF ProcessExpiredAesKeys, ErasingUpdate, OnlyErases, OnlyRevokes,
           ErasedIsTold, ConsumedIsDone
  <1>2. /\ LivePending(n) \in [Node -> Pending]
        /\ LiveActive(n) \in [Node -> Active]
        /\ {} \in SUBSET Message
    BY Zenon, LiveTyped
  <1>3. /\ UNCHANGED <<limits, owner, ephemerals, unpushed>>
        /\ orphaned \subseteq orphaned' /\ orphaned' \subseteq KeyId
    BY Zenon DEF ProcessExpiredAesKeys, TypeOK
  <1>4. QED
    BY Zenon, <1>1, <1>2, <1>3, ErasingUpdatePreserves

LEMMA DropAesKeyStep ==
  ASSUME TypeOK, KeyLifecycle, NEW n \in Node, NEW p \in Node, DropAesKey(n, p)
  PROVE  TypeOK' /\ KeyLifecycle'
  <1> DEFINE pend == [LivePending(n) EXCEPT ![p] = NoPending]
             act == [LiveActive(n) EXCEPT ![p] = NoActive]
             k == LiveActive(n)[p].keyId
             sent == IF k = NoKey THEN {} ELSE {Drop(n, p, k)}
  <1>1. Update(n, pend, act, {}, sent)
    BY Zenon DEF DropAesKey
  <1>2. pend \in [Node -> Pending] /\ act \in [Node -> Active]
    BY Zenon, LiveTyped, EmptyEntries
  <1>3. \A y \in Node : /\ pend[y] = IF y = p THEN NoPending ELSE LivePending(n)[y]
                        /\ act[y] = IF y = p THEN NoActive ELSE LiveActive(n)[y]
    BY Zenon, LiveTyped
  <1>4. sent \in SUBSET Message
    BY LiveTyped DEF Active, Drop, Message
  <1>5. k # NoKey => active[n][p].keyId = k
    BY ExpiryPass
  <1>6. \A m \in sent : /\ m = Drop(n, p, k) /\ m.type = "drop" /\ m.src = n
                        /\ m.dst = p /\ m.keyId = k /\ k # NoKey
    BY DEF Drop
  <1>7. \A m \in sent :
          /\ owner[m.keyId] \in {<<m.src, m.dst>>, <<m.dst, m.src>>}
          /\ \A o \in net : o.keyId = m.keyId => o.type # "request"
    BY <1>5, <1>6 DEF KeyLifecycle, Roles, RequestIsFirst
  <1>8. \A y \in Node, j \in KeyId : LiveActive(n)[y].keyId = j /\ act[y].keyId # j =>
          \E m \in sent : Revokes(m) /\ m.src = n /\ m.dst = y /\ m.keyId = j
    BY Zenon, <1>3, KeyAssumption DEF Drop, Revokes
  <1> HIDE DEF pend, act, sent
  <1>9. ErasingUpdate(n, pend, act, {}, sent)
    <2>1. OnlyErases(n, pend, act)
      BY <1>3 DEF OnlyErases, NoPending, NoActive
    <2>2. OnlyRevokes(n, pend, act, {}, sent)
      BY <1>3, <1>6, <1>7 DEF OnlyRevokes, NoPending, NoActive
    <2>3. ErasedIsTold(n, act, sent)
      BY <1>8 DEF ErasedIsTold
    <2>4. ConsumedIsDone(n, pend, act, {}, sent)
      BY Zenon DEF ConsumedIsDone
    <2>5. QED
      BY Zenon, <1>1, <2>1, <2>2, <2>3, <2>4 DEF ErasingUpdate
  <1>10. QED
    BY Zenon, <1>2, <1>4, <1>9, ErasingUpdatePreserves DEF DropAesKey, TypeOK

(* Steps that leave every table entry or only erase a negotiation.         *)
LEMMA DeadlineStep ==
  ASSUME TypeOK, KeyLifecycle, NEW n \in Node, NEW p \in Node,
         PendingDeadlinePasses(n, p) \/ ActiveDeadlinePasses(n, p)
  PROVE  TypeOK' /\ KeyLifecycle'
  <1>1. /\ UNCHANGED <<net, owner, orphaned, unpushed, limits, ephemerals>>
        /\ \A x, y \in Node :
             /\ pending'[x][y].keyId = pending[x][y].keyId
             /\ pending'[x][y].eph = pending[x][y].eph
             /\ active'[x][y].keyId = active[x][y].keyId
             /\ active'[x][y].material = active[x][y].material
    <2>1. CASE PendingDeadlinePasses(n, p)
      <3>1. \A x, y \in Node :
              pending'[x][y] = IF x = n /\ y = p
                               THEN [pending[x][y] EXCEPT !.due = TRUE]
                               ELSE pending[x][y]
        BY Zenon, <2>1 DEF PendingDeadlinePasses, TypeOK
      <3>2. \A x, y \in Node : pending[x][y] \in Pending
        BY Zenon DEF TypeOK
      <3>3. QED
        BY <2>1, <3>1, <3>2, DueTyped DEF PendingDeadlinePasses
    <2>2. CASE ActiveDeadlinePasses(n, p)
      <3>1. \A x, y \in Node :
              active'[x][y] = IF x = n /\ y = p
                              THEN [active[x][y] EXCEPT !.due = TRUE]
                              ELSE active[x][y]
        BY Zenon, <2>2 DEF ActiveDeadlinePasses, TypeOK
      <3>2. \A x, y \in Node : active[x][y] \in Active
        BY Zenon DEF TypeOK
      <3>3. QED
        BY <2>2, <3>1, <3>2, DueTyped DEF ActiveDeadlinePasses
    <2>3. QED
      BY Zenon, <2>1, <2>2
  <1>2. TypeOK'
    <2>1. pending' \in [Node -> [Node -> Pending]]
      <3>1. CASE PendingDeadlinePasses(n, p)
        BY <3>1, DueTyped DEF PendingDeadlinePasses, TypeOK
      <3>2. CASE ActiveDeadlinePasses(n, p)
        BY Zenon, <3>2 DEF ActiveDeadlinePasses, TypeOK
      <3>3. QED
        BY Zenon, <3>1, <3>2
    <2>2. active' \in [Node -> [Node -> Active]]
      <3>1. CASE PendingDeadlinePasses(n, p)
        BY Zenon, <3>1 DEF PendingDeadlinePasses, TypeOK
      <3>2. CASE ActiveDeadlinePasses(n, p)
        BY <3>2, DueTyped DEF ActiveDeadlinePasses, TypeOK
      <3>3. QED
        BY Zenon, <3>1, <3>2
    <2>3. QED
      BY Zenon, <1>1, <2>1, <2>2 DEF TypeOK
  <1>3. ErasingStep
    <2>1. EntriesSurvive /\ ErasuresAnnounced
      BY ZenonT(30), <1>1 DEF EntriesSurvive, ErasuresAnnounced
    <2>2. SendsRevocations /\ ConsumptionsAnswered
      BY Zenon, <1>1 DEF SendsRevocations, ConsumptionsAnswered
    <2>3. QED
      BY Zenon, <1>1, <2>1, <2>2 DEF ErasingStep
  <1>4. QED
    BY Zenon, <1>2, <1>3, ErasingStepPreserves

LEMMA SetLimitsStep ==
  ASSUME TypeOK, KeyLifecycle, NEW n \in Node, NEW l \in Limits,
         SetAesNegotiationLimits(n, l)
  PROVE  TypeOK' /\ KeyLifecycle'
  <1>1. TypeOK'
    BY Zenon DEF SetAesNegotiationLimits, TypeOK
  <1>2. ErasingStep
    BY Zenon DEF SetAesNegotiationLimits, ErasingStep, EntriesSurvive, SendsRevocations,
           ErasuresAnnounced, ConsumptionsAnswered
  <1>3. QED
    BY Zenon, <1>1, <1>2, ErasingStepPreserves

LEMMA UndoUnpushedStep ==
  ASSUME TypeOK, KeyLifecycle, NEW n \in Node, NEW p \in Node, NEW k \in KeyId,
         UndoUnpushed(n, p, k)
  PROVE  TypeOK' /\ KeyLifecycle'
  <1>1. TypeOK'
    BY Zenon, EmptyEntries DEF UndoUnpushed, TypeOK
  <1>2. \A x, y \in Node :
          pending'[x][y] = IF x = n /\ y = p THEN NoPending ELSE pending[x][y]
    BY Zenon DEF UndoUnpushed, TypeOK
  <1>3. EntriesSurvive
    BY <1>2 DEF UndoUnpushed, EntriesSurvive, NoPending
  <1>4. ErasingStep
    BY Zenon, <1>3 DEF UndoUnpushed, ErasingStep, SendsRevocations, ErasuresAnnounced,
                ConsumptionsAnswered
  <1>5. QED
    BY Zenon, <1>1, <1>4, ErasingStepPreserves

LEMMA LoseStep ==
  ASSUME TypeOK, KeyLifecycle, NEW m \in net, Lose(m)
  PROVE  TypeOK' /\ KeyLifecycle'
  <1>1. TypeOK'
    BY Zenon, MessageTyped DEF Lose, TypeOK
  <1>2. EntriesSurvive /\ SendsRevocations /\ ErasuresAnnounced
    BY Zenon DEF Lose, EntriesSurvive, SendsRevocations, ErasuresAnnounced
  <1>3. ConsumptionsAnswered
    BY Zenon DEF Lose, ConsumptionsAnswered
  <1>4. ErasingStep
    BY Zenon, <1>2, <1>3 DEF Lose, ErasingStep
  <1>5. QED
    BY Zenon, <1>1, <1>4, ErasingStepPreserves
-----------------------------------------------------------------------------
(* What a request in flight says about its key id.                         *)
LEMMA RequestFacts ==
  ASSUME TypeOK, KeyLifecycle, NEW m \in net, m.type = "request"
  PROVE  /\ LiveActive(m.dst)[m.src].keyId # m.keyId
         /\ LivePending(m.dst)[m.src].keyId # m.keyId
         /\ owner[m.keyId] = <<m.src, m.dst>> /\ m.src # m.dst
         /\ \A o \in net \ {m} : o.keyId = m.keyId => o.type # "request"
  <1>1. m.dst \in Node /\ m.src \in Node /\ m.keyId \in KeyId /\ m.keyId # NoKey
    BY Zenon, MessageTyped
  <1>2. owner[m.keyId] = <<m.src, m.dst>>
    BY Zenon DEF KeyLifecycle, Roles
  <1>3. m.src # m.dst
    BY <1>1, <1>2, KeyAssumption DEF KeyLifecycle, Roles
  <1>4. active[m.dst][m.src].keyId # m.keyId
    BY <1>1 DEF KeyLifecycle, RequestIsFirst
  <1>5. pending[m.dst][m.src].keyId # m.keyId
    BY <1>1, <1>2, <1>3 DEF KeyLifecycle, Roles
  <1>6. /\ LiveActive(m.dst)[m.src].keyId # m.keyId
        /\ LivePending(m.dst)[m.src].keyId # m.keyId
    BY ZenonT(30), <1>1, <1>4, <1>5, ExpiryPass
  <1>7. \A o \in net \ {m} : o.keyId = m.keyId => o.type # "request"
    BY Zenon DEF KeyLifecycle, RequestIsFirst
  <1>8. QED
    BY Zenon, <1>2, <1>3, <1>6, <1>7

(* A request that is refused leaves both tables to the expiry pass.        *)
LEMMA RefusedRequestStep ==
  ASSUME TypeOK, KeyLifecycle, NEW m \in net, NEW outcome \in Outcomes,
         HandleRequest(m, outcome),
         RequestRefusal(m.dst, m.src, outcome) # "none"
  PROVE  TypeOK' /\ KeyLifecycle'
  <1> DEFINE n == m.dst
             p == m.src
             k == m.keyId
             refusal == RequestRefusal(n, p, outcome)
             sent == {Error(n, p, k, refusal)}
  <1>1. Update(n, LivePending(n), LiveActive(n), {m}, sent) /\ m.type = "request"
    BY Zenon DEF HandleRequest
  <1>a. n \in Node /\ p \in Node /\ k \in KeyId /\ k # NoKey
    BY Zenon, MessageTyped
  <1>b. refusal \in ErrorCodes
    BY Zenon DEF RequestRefusal, Outcomes, ErrorCodes
  <1>2. /\ LivePending(n) \in [Node -> Pending]
        /\ LiveActive(n) \in [Node -> Active]
    BY Zenon, <1>a, LiveTyped
  <1>4. \A o \in sent : /\ o.type = "error" /\ o.src = n /\ o.dst = p
                        /\ o.keyId = k /\ o \in Message
    BY <1>a, <1>b DEF Error, Message
  <1>5. LiveActive(n)[p].keyId # k
    BY Zenon, <1>1, RequestFacts
  <1>6. owner[k] = <<p, n>> /\ p # n
    BY Zenon, <1>1, RequestFacts
  <1>7. LivePending(n)[p].keyId # k
    BY Zenon, <1>1, RequestFacts
  <1>8. \A o \in net \ {m} : o.keyId = k => o.type # "request"
    BY Zenon, <1>1, RequestFacts
  <1> HIDE DEF sent, refusal
  <1>9. ErasingUpdate(n, LivePending(n), LiveActive(n), {m}, sent)
    <2>1. OnlyErases(n, LivePending(n), LiveActive(n))
      BY Zenon DEF OnlyErases
    <2>2. OnlyRevokes(n, LivePending(n), LiveActive(n), {m}, sent)
      <3> SUFFICES ASSUME NEW o \in sent
                   PROVE  /\ o.type \in {"drop", "error"} /\ o.src = n /\ o.dst \in Node
                          /\ owner[o.keyId] \in {<<o.src, o.dst>>, <<o.dst, o.src>>}
                          /\ \A q \in net \ {m} : q.keyId = o.keyId => q.type # "request"
                          /\ LiveActive(n)[o.dst].keyId # o.keyId
                          /\ LivePending(n)[o.dst].keyId # o.keyId
        BY Zenon DEF OnlyRevokes
      <3>1. /\ o.type = "error" /\ o.src = n /\ o.dst = p /\ o.keyId = k
        BY Zenon, <1>4
      <3>2. owner[o.keyId] = <<o.dst, o.src>>
        BY Zenon, <3>1, <1>6
      <3>3. QED
        BY Zenon, <1>a, <1>5, <1>7, <1>8, <3>1, <3>2
    <2>3. ErasedIsTold(n, LiveActive(n), sent)
      BY Zenon DEF ErasedIsTold
    <2>4. ConsumedIsDone(n, LivePending(n), LiveActive(n), {m}, sent)
      BY Zenon, <1>1 DEF ConsumedIsDone
    <2>5. QED
      BY Zenon, <1>1, <2>1, <2>2, <2>3, <2>4 DEF ErasingUpdate
  <1>10. /\ UNCHANGED <<limits, owner, ephemerals, unpushed>>
         /\ orphaned \subseteq orphaned' /\ orphaned' \subseteq KeyId
    BY Zenon DEF HandleRequest, TypeOK
  <1>11. QED
    BY Zenon, <1>a, <1>2, <1>4, <1>9, <1>10, ErasingUpdatePreserves

LEMMA HandleDropStep ==
  ASSUME TypeOK, KeyLifecycle, NEW m \in net, HandleDrop(m)
  PROVE  TypeOK' /\ KeyLifecycle'
  <1> DEFINE n == m.dst
             p == m.src
             k == m.keyId
             held == LiveActive(n)[p].keyId
             pend == IF LivePending(n)[p].keyId = k
                     THEN [LivePending(n) EXCEPT ![p] = NoPending]
                     ELSE LivePending(n)
             act == IF held = k THEN [LiveActive(n) EXCEPT ![p] = NoActive]
                    ELSE LiveActive(n)
             sent == CASE held = k     -> {}
                       [] held = NoKey -> {Error(n, p, k, "UNKNOWN_KEY")}
                       [] OTHER        -> {Error(n, p, k, "KEY_INCORRECT")}
  <1>1. Update(n, pend, act, {m}, sent) /\ m.type = "drop"
    BY Zenon DEF HandleDrop
  <1>a. n \in Node /\ p \in Node /\ k \in KeyId /\ k # NoKey
    BY Zenon, MessageTyped
  <1>2. pend \in [Node -> Pending] /\ act \in [Node -> Active]
    BY Zenon, <1>a, LiveTyped, EmptyEntries
  <1>3. \A y \in Node :
          /\ pend[y] = IF y = p /\ LivePending(n)[p].keyId = k
                       THEN NoPending ELSE LivePending(n)[y]
          /\ act[y] = IF y = p /\ held = k THEN NoActive ELSE LiveActive(n)[y]
    BY Zenon, <1>a, LiveTyped
  <1>4. \A o \in sent : /\ o.type = "error" /\ o.src = n /\ o.dst = p
                        /\ o.keyId = k /\ held # k /\ o \in Message
    BY <1>a DEF Error, Message, ErrorCodes
  <1>5. act[p].keyId # k /\ pend[p].keyId # k
    BY <1>a, <1>3 DEF NoActive, NoPending
  <1>6. /\ owner[k] \in {<<n, p>>, <<p, n>>}
        /\ \A o \in net : o.keyId = k => o.type # "request"
    BY Zenon, <1>1 DEF KeyLifecycle, Roles, RequestIsFirst
  <1>7. active[p][n].keyId # k /\ pending[p][n].keyId # k
    BY Zenon, <1>1 DEF KeyLifecycle, RevokerIsDone
  <1>8. \A y \in Node, j \in KeyId : LiveActive(n)[y].keyId = j /\ act[y].keyId # j
          => y = p /\ j = k
    BY Zenon, <1>3
  <1> HIDE DEF pend, act, sent, held
  <1>9. ErasingUpdate(n, pend, act, {m}, sent)
    <2>1. OnlyErases(n, pend, act)
      BY <1>3 DEF OnlyErases, NoPending, NoActive
    <2>2. OnlyRevokes(n, pend, act, {m}, sent)
      BY Zenon, <1>a, <1>4, <1>5, <1>6 DEF OnlyRevokes
    <2>3. ErasedIsTold(n, act, sent)
      BY Zenon, <1>7, <1>8 DEF ErasedIsTold
    <2>4. ConsumedIsDone(n, pend, act, {m}, sent)
      BY Zenon, <1>1, <1>5 DEF ConsumedIsDone, Revokes
    <2>5. QED
      BY Zenon, <1>1, <2>1, <2>2, <2>3, <2>4 DEF ErasingUpdate
  <1>10. QED
    BY Zenon, <1>a, <1>2, <1>4, <1>9, ErasingUpdatePreserves DEF HandleDrop, TypeOK

LEMMA HandleErrorStep ==
  ASSUME TypeOK, KeyLifecycle, NEW m \in net, HandleError(m)
  PROVE  TypeOK' /\ KeyLifecycle'
  <1> DEFINE n == m.dst
             p == m.src
             k == m.keyId
             pend == IF LivePending(n)[p].keyId = k
                     THEN [LivePending(n) EXCEPT ![p] = NoPending]
                     ELSE LivePending(n)
             act == IF m.code \in RevokingCodes /\ LiveActive(n)[p].keyId = k
                    THEN [LiveActive(n) EXCEPT ![p] = NoActive]
                    ELSE LiveActive(n)
  <1>1. Update(n, pend, act, {m}, {}) /\ m.type = "error"
    BY Zenon DEF HandleError
  <1>a. n \in Node /\ p \in Node /\ k \in KeyId /\ k # NoKey
    BY Zenon, MessageTyped
  <1>2. pend \in [Node -> Pending] /\ act \in [Node -> Active]
    BY Zenon, <1>a, LiveTyped, EmptyEntries
  <1>3. \A y \in Node :
          /\ pend[y] = IF y = p /\ LivePending(n)[p].keyId = k
                       THEN NoPending ELSE LivePending(n)[y]
          /\ act[y] = IF /\ y = p /\ m.code \in RevokingCodes
                         /\ LiveActive(n)[p].keyId = k
                      THEN NoActive ELSE LiveActive(n)[y]
    BY Zenon, <1>a, LiveTyped
  <1>4. m.code \in RevokingCodes <=> RevokingError(m)
    BY Zenon, <1>1 DEF RevokingCodes, RevokingError
  <1>5. RevokingError(m) => act[p].keyId # k /\ pend[p].keyId # k
    BY <1>a, <1>3, <1>4 DEF NoActive, NoPending
  <1>7. RevokingError(m) => active[p][n].keyId # k /\ pending[p][n].keyId # k
    BY Zenon, <1>1 DEF KeyLifecycle, RevokerIsDone
  <1>8. \A y \in Node, j \in KeyId : LiveActive(n)[y].keyId = j /\ act[y].keyId # j
          => y = p /\ j = k /\ RevokingError(m)
    BY Zenon, <1>3, <1>4
  <1> HIDE DEF pend, act
  <1>9. ErasingUpdate(n, pend, act, {m}, {})
    <2>1. OnlyErases(n, pend, act)
      BY <1>3 DEF OnlyErases, NoPending, NoActive
    <2>2. OnlyRevokes(n, pend, act, {m}, {})
      BY Zenon DEF OnlyRevokes
    <2>3. ErasedIsTold(n, act, {})
      BY Zenon, <1>7, <1>8 DEF ErasedIsTold
    <2>4. ConsumedIsDone(n, pend, act, {m}, {})
      BY Zenon, <1>1, <1>5 DEF ConsumedIsDone, Revokes
    <2>5. QED
      BY Zenon, <1>1, <2>1, <2>2, <2>3, <2>4 DEF ErasingUpdate
  <1>10. QED
    <2>1. {} \in SUBSET Message
      BY Zenon
    <2>2. QED
      BY Zenon, <1>a, <1>2, <2>1, <1>9, ErasingUpdatePreserves DEF HandleError, TypeOK

(* What a reply in flight says about its key id.                           *)
LEMMA ReplyFacts ==
  ASSUME TypeOK, KeyLifecycle, NEW m \in net, m.type = "reply"
  PROVE  /\ LiveActive(m.dst)[m.src].keyId # m.keyId
         /\ owner[m.keyId] \in {<<m.dst, m.src>>, <<m.src, m.dst>>}
         /\ \A o \in net : o.keyId = m.keyId => o.type # "request"
  <1>1. m.dst \in Node /\ m.src \in Node /\ m.keyId \in KeyId /\ m.keyId # NoKey
    BY Zenon, MessageTyped
  <1>2. active[m.dst][m.src].keyId # m.keyId
    BY Zenon, <1>1 DEF KeyLifecycle, ReplyMatches
  <1>3. LiveActive(m.dst)[m.src].keyId # m.keyId
    BY <1>1, <1>2, ExpiryPass
  <1>4. owner[m.keyId] \in {<<m.dst, m.src>>, <<m.src, m.dst>>}
    BY Zenon DEF KeyLifecycle, Roles
  <1>5. \A o \in net : o.keyId = m.keyId => o.type # "request"
    BY Zenon DEF KeyLifecycle, RequestIsFirst
  <1>6. QED
    BY Zenon, <1>3, <1>4, <1>5

(* A reply that is refused erases at most the negotiation it answers.      *)
LEMMA RefusedReplyStep ==
  ASSUME TypeOK, KeyLifecycle, NEW m \in net, NEW outcome \in Outcomes,
         HandleReply(m, outcome),
         ReplyRefusal(m.dst, m.src, m.keyId, outcome) # "none"
  PROVE  TypeOK' /\ KeyLifecycle'
  <1> DEFINE n == m.dst
             p == m.src
             k == m.keyId
             refusal == ReplyRefusal(n, p, k, outcome)
             ended == LivePending(n)[p].keyId = k /\ refusal # "INVALID_REQUEST"
             pend == IF ended THEN [LivePending(n) EXCEPT ![p] = NoPending]
                     ELSE LivePending(n)
             act == LiveActive(n)
             sent == {Error(n, p, k, refusal)}
  <1>1. Update(n, pend, act, {m}, sent) /\ m.type = "reply"
    BY Zenon DEF HandleReply
  <1>a. n \in Node /\ p \in Node /\ k \in KeyId /\ k # NoKey
    BY Zenon, MessageTyped
  <1>b. /\ refusal \in {"UNKNOWN_KEY", "KEY_INCORRECT", "KEY_LIMIT_REACHED",
                        "INVALID_REQUEST"}
    BY Zenon DEF ReplyRefusal, Outcomes
  <1>2. pend \in [Node -> Pending] /\ act \in [Node -> Active]
    BY Zenon, <1>a, LiveTyped, EmptyEntries
  <1>3. \A y \in Node :
          pend[y] = IF y = p /\ ended THEN NoPending ELSE LivePending(n)[y]
    BY Zenon, <1>a, LiveTyped
  <1>4. \A o \in sent : /\ o.type = "error" /\ o.src = n /\ o.dst = p
                        /\ o.keyId = k /\ o.code = refusal /\ o \in Message
    BY <1>a, <1>b DEF Error, Message, ErrorCodes
  <1>5. act[p].keyId # k
    BY Zenon, <1>1, ReplyFacts
  <1>6. pend[p].keyId = k => refusal = "INVALID_REQUEST"
    BY <1>a, <1>3 DEF NoPending
  <1>7. /\ owner[k] \in {<<n, p>>, <<p, n>>}
        /\ \A o \in net : o.keyId = k => o.type # "request"
    BY Zenon, <1>1, ReplyFacts
  <1>8. k \in orphaned' \/ refusal \in {"UNKNOWN_KEY", "KEY_INCORRECT"}
    BY Zenon, <1>b DEF HandleReply
  <1>9. \E o \in sent : o.src = n /\ o.dst = p /\ o.keyId = k /\ o.code = refusal
                        /\ o.type = "error"
    BY Zenon DEF Error
  <1> HIDE DEF pend, sent, refusal, ended
  <1>10. ErasingUpdate(n, pend, act, {m}, sent)
    <2>1. OnlyErases(n, pend, act)
      BY <1>3 DEF OnlyErases, NoPending
    <2>2. OnlyRevokes(n, pend, act, {m}, sent)
      BY Zenon, <1>a, <1>4, <1>5, <1>6, <1>7 DEF OnlyRevokes, Revokes, RevokingError
    <2>3. ErasedIsTold(n, act, sent)
      BY Zenon DEF ErasedIsTold
    <2>4. ConsumedIsDone(n, pend, act, {m}, sent)
      BY Zenon, <1>1, <1>8, <1>9 DEF ConsumedIsDone, Revokes, RevokingError
    <2>5. QED
      BY Zenon, <1>1, <2>1, <2>2, <2>3, <2>4 DEF ErasingUpdate
  <1>11. /\ UNCHANGED <<limits, owner, ephemerals, unpushed>>
         /\ orphaned \subseteq orphaned' /\ orphaned' \subseteq KeyId
    BY Zenon, <1>a DEF HandleReply, TypeOK
  <1>12. QED
    BY Zenon, <1>a, <1>2, <1>4, <1>10, <1>11, ErasingUpdatePreserves

=============================================================================
