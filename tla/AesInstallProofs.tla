-------------------------- MODULE AesInstallProofs --------------------------
(* The handlers that install a key, of a request and of a reply, preserve   *)
(* the invariants of AesNegotiation.                                        *)
EXTENDS AesErasingProofs, TLAPS

USE SMTT(30)

(* The responder installs a key for a request and answers it.              *)
LEMMA AcceptedRequestStep ==
  ASSUME TypeOK, KeyLifecycle, NEW m \in net, NEW outcome \in Outcomes,
         HandleRequest(m, outcome),
         RequestRefusal(m.dst, m.src, outcome) = "none"
  PROVE  TypeOK' /\ KeyLifecycle'
  <1> DEFINE n == m.dst
             p == m.src
             k == m.keyId
             e == ephemerals + 1
             reply == Reply(n, p, k, e)
             material == KeyMaterial(e, m.eph, k, n, p)
             act == [LiveActive(n) EXCEPT ![p] =
                       [keyId |-> k, material |-> material, due |-> FALSE]]
  <1>a. /\ n \in Node /\ p \in Node /\ k \in KeyId /\ k # NoKey
        /\ m.eph \in Nat /\ e \in Nat /\ m.type = "request"
    BY MessageTyped DEF HandleRequest, TypeOK
  <1>b. LivePending(n)[p].keyId = NoKey /\ LiveActive(n)[p].keyId = NoKey
    BY Zenon DEF RequestRefusal
  <1>d. Update(n, LivePending(n), act, {m}, {reply}) /\ ephemerals' = e
    BY Zenon DEF HandleRequest
  <1>e. UNCHANGED <<limits, owner, unpushed, orphaned>>
    BY Zenon DEF HandleRequest
  <1>f. owner[k] = <<p, n>> /\ n # p
    <2>1. owner[k] = <<p, n>>
      BY Zenon, <1>a DEF KeyLifecycle, Roles
    <2>2. <<p, n>> # NoKey
      BY <1>a, KeyAssumption
    <2>3. owner[k][1] # owner[k][2]
      BY Zenon, <1>a, <2>1, <2>2 DEF KeyLifecycle, Roles
    <2>4. QED
      BY <2>1, <2>3
  <1>g. /\ \A o \in net : o.keyId = k => o = m
        /\ \A x, y \in Node : active[x][y].keyId # k
        /\ \A x, y \in Node : pending[x][y].keyId = k => pending[x][y].eph = m.eph
    BY Zenon, <1>a DEF KeyLifecycle, RequestIsFirst
  <1>r. /\ reply.type = "reply" /\ reply.src = n /\ reply.dst = p
        /\ reply.keyId = k /\ reply.eph = e /\ reply \in Message
    BY Zenon, <1>a DEF Reply, Message
  <1>1. TypeOK'
    <2>1. act \in [Node -> Active]
      BY Zenon, <1>a, LiveTyped, MaterialTyped
    <2> HIDE DEF act, reply
    <2>2. LivePending(n) \in [Node -> Pending] /\ {reply} \in SUBSET Message
      BY Zenon, <1>a, <1>r, LiveTyped
    <2>3. /\ pending' \in [Node -> [Node -> Pending]]
          /\ active' \in [Node -> [Node -> Active]]
          /\ net' \subseteq Message
      BY Zenon, <1>a, <1>d, <2>1, <2>2, UpdateTyped
    <2>4. QED
      BY Zenon, <1>a, <1>d, <1>e, <2>3 DEF TypeOK
  <1>2. \A x, y \in Node :
          /\ \/ pending'[x][y].keyId = NoKey
             \/ pending'[x][y] = pending[x][y] /\ <<x, y>> # <<n, p>>
          /\ \/ active'[x][y].keyId = NoKey /\ <<x, y>> # <<n, p>>
             \/ active'[x][y] = active[x][y] /\ <<x, y>> # <<n, p>>
             \/ /\ <<x, y>> = <<n, p>>
                /\ active'[x][y].keyId = k /\ active'[x][y].material = material
    <2>1. \A x, y \in Node :
            /\ pending'[x][y] = IF x = n THEN LivePending(n)[y] ELSE pending[x][y]
            /\ active'[x][y] = IF x = n THEN act[y] ELSE active[x][y]
      BY <1>a, <1>d DEF Update, TypeOK
    <2>2. \A y \in Node :
            act[y] = IF y = p
                     THEN [keyId |-> k, material |-> material, due |-> FALSE]
                     ELSE LiveActive(n)[y]
      BY Zenon, <1>a, LiveTyped
    <2> HIDE DEF act, material
    <2>3. QED
      BY <1>a, <1>b, <2>1, <2>2, ExpiryPass DEF NoPending
  <1>3. net' = (net \ {m}) \cup ExpiryDrops(n) \cup {reply}
    BY Zenon, <1>d DEF Update
  <1>4. \A o \in net' : \/ o \in net /\ o # m /\ o.keyId # k
                        \/ o \in ExpiryDrops(n) \/ o = reply
    BY Zenon, <1>3, <1>g
  <1>5. \A o \in ExpiryDrops(n) :
          /\ o.type = "drop" /\ o.src = n /\ o.dst \in Node
          /\ o.keyId = active[n][o.dst].keyId /\ o.keyId # NoKey
          /\ active'[n][o.dst].keyId # o.keyId
          /\ pending'[n][o.dst].keyId # o.keyId
    <2>1. \A o \in ExpiryDrops(n) :
            /\ o.type = "drop" /\ o.src = n /\ o.dst \in Node
            /\ o.keyId = active[n][o.dst].keyId /\ o.keyId # NoKey
            /\ LiveActive(n)[o.dst].keyId = NoKey
            /\ LivePending(n)[o.dst].keyId = NoKey
      BY Zenon, <1>a, ExpiryPass
    <2>2. \A y \in Node : /\ y # p => active'[n][y] = LiveActive(n)[y]
                          /\ pending'[n][y] = LivePending(n)[y]
      BY Zenon, <1>a, <1>d, LiveTyped DEF Update, TypeOK
    <2>3. active'[n][p].keyId = k
      BY Zenon, <1>2, <1>a
    <2>4. QED
      BY <2>1, <2>2, <2>3, <1>g, <1>a
  <1>6. \A x, y \in Node, j \in KeyId :
          active[x][y].keyId = j /\ active'[x][y].keyId # j => Revoked(y, x, j)'
    <2> SUFFICES ASSUME NEW x \in Node, NEW y \in Node, NEW j \in KeyId,
                        active[x][y].keyId = j, active'[x][y].keyId # j
                 PROVE  Revoked(y, x, j)'
      BY Zenon
    <2>1. x = n
      BY Zenon, <1>a, <1>d DEF Update, TypeOK
    <2>2. LiveActive(n)[y].keyId # j
      <3>1. y # p => active'[n][y] = LiveActive(n)[y]
        BY Zenon, <1>a, <1>d, LiveTyped DEF Update, TypeOK
      <3>2. QED
        BY Zenon, <3>1, <2>1, <1>b, KeyAssumption
    <2>3. Drop(n, y, j) \in net'
      BY Zenon, <1>a, <1>3, <2>1, <2>2, ExpiryPass
    <2>4. QED
      BY Zenon, <2>1, <2>3 DEF Revoked, Drop
  <1>7. \A x, y \in Node, j \in KeyId : Revoked(x, y, j) => Revoked(x, y, j)'
    BY Zenon, <1>3, <1>a DEF Revoked, RevokingError
  <1>k. \A j \in KeyId : j # NoKey
    BY Zenon, KeyAssumption
  <1>t. \A o \in net : o.src \in Node /\ o.dst \in Node /\ o.keyId \in KeyId
    BY Zenon, MessageTyped
  <1>u. reply \in net'
    BY Zenon, <1>3
  <1> HIDE DEF n, p, k, e, reply, material, act
  <1>8. PairExclusive'
    BY <1>2 DEF KeyLifecycle, PairExclusive
  <1>9. Roles'
    <2>1. ASSUME NEW x \in Node, NEW y \in Node
          PROVE  /\ pending'[x][y].keyId # NoKey
                      => owner'[pending'[x][y].keyId] = <<x, y>>
                 /\ active'[x][y].keyId # NoKey
                      => owner'[active'[x][y].keyId] \in {<<x, y>>, <<y, x>>}
      <3>1. /\ pending[x][y].keyId # NoKey => owner[pending[x][y].keyId] = <<x, y>>
            /\ active[x][y].keyId # NoKey
                 => owner[active[x][y].keyId] \in {<<x, y>>, <<y, x>>}
        BY Zenon DEF KeyLifecycle, Roles
      <3>2. pending'[x][y].keyId # NoKey => pending'[x][y] = pending[x][y]
        BY Zenon, <1>2
      <3>3. active'[x][y].keyId # NoKey =>
              active'[x][y] = active[x][y] \/ (x = n /\ y = p /\ active'[x][y].keyId = k)
        BY Zenon, <1>2
      <3>4. QED
        BY Zenon, <3>1, <3>2, <3>3, <1>e, <1>f
    <2>2. \A o \in net' :
            /\ o.type = "request" => owner'[o.keyId] = <<o.src, o.dst>>
            /\ o.type = "reply" => owner'[o.keyId] = <<o.dst, o.src>>
            /\ owner'[o.keyId] \in {<<o.src, o.dst>>, <<o.dst, o.src>>}
      BY <1>4, <1>5, <1>a, <1>e, <1>f, <1>r DEF KeyLifecycle, Roles
    <2>3. QED
      BY Zenon, <2>1, <2>2, <1>e DEF KeyLifecycle, Roles
  <1>10. RequestIsFirst'
    <2> SUFFICES ASSUME NEW r \in net', r.type = "request"
                 PROVE /\ \A o \in net' : o.keyId = r.keyId => o = r
                       /\ \A x, y \in Node : active'[x][y].keyId # r.keyId
                       /\ \A x, y \in Node : pending'[x][y].keyId = r.keyId
                                             => pending'[x][y].eph = r.eph
      BY Zenon DEF RequestIsFirst
    <2>1. r \in net /\ r.keyId # k
      BY Zenon, <1>4, <1>5, <1>r
    <2>2. \A x, y \in Node : active'[x][y].keyId # r.keyId
      BY <2>1, <1>2, <1>t, <1>k DEF KeyLifecycle, RequestIsFirst
    <2>3. \A o \in net' : o.keyId = r.keyId => o = r
      BY <2>1, <1>4, <1>5, <1>a, <1>r DEF KeyLifecycle, RequestIsFirst
    <2>4. \A x, y \in Node : pending'[x][y].keyId = r.keyId
                             => pending'[x][y].eph = r.eph
      BY <2>1, <1>2, <1>t, <1>k DEF KeyLifecycle, RequestIsFirst
    <2>5. QED
      BY Zenon, <2>2, <2>3, <2>4
  <1>11. ReplyMatches'
    <2> SUFFICES ASSUME NEW r \in net', r.type = "reply"
                 PROVE /\ \A o \in net' : o.type = "reply" /\ o.keyId = r.keyId => o = r
                       /\ active'[r.dst][r.src].keyId # r.keyId
                       /\ (/\ pending'[r.dst][r.src].keyId = r.keyId
                           /\ active'[r.src][r.dst].keyId = r.keyId)
                            => active'[r.src][r.dst].material =
                                 KeyMaterial(pending'[r.dst][r.src].eph, r.eph,
                                             r.keyId, r.dst, r.src)
      BY Zenon DEF ReplyMatches, KeyMaterial
    <2>1. \A o \in net' : o.type = "reply" /\ o.keyId = r.keyId => o = r
      BY <1>4, <1>5, <1>r DEF KeyLifecycle, ReplyMatches
    <2>2. CASE r = reply
      <3>1. active'[p][n].keyId # k
        BY <1>2, <1>a, <1>f, <1>g
      <3>2. pending'[p][n].keyId = k => pending'[p][n].eph = m.eph
        BY <1>2, <1>a, <1>g
      <3>3. active'[n][p].material = KeyMaterial(m.eph, e, k, p, n)
        <4>1. active'[n][p].material = material
          BY Zenon, <1>2, <1>a
        <4>2. QED
          BY Zenon, <4>1 DEF material, KeyMaterial
      <3>4. QED
        BY Zenon, <2>1, <2>2, <3>1, <3>2, <3>3, <1>r
    <2>3. CASE r \in net /\ r.keyId # k
      <3>1. active'[r.dst][r.src].keyId # r.keyId
        BY <2>3, <1>2, <1>t, <1>k DEF KeyLifecycle, ReplyMatches
      <3>2. ASSUME pending'[r.dst][r.src].keyId = r.keyId,
                   active'[r.src][r.dst].keyId = r.keyId
            PROVE  /\ pending'[r.dst][r.src] = pending[r.dst][r.src]
                   /\ active'[r.src][r.dst] = active[r.src][r.dst]
        BY <2>3, <3>2, <1>2, <1>t, <1>k
      <3>3. QED
        BY Zenon, <2>1, <2>3, <3>1, <3>2 DEF KeyLifecycle, ReplyMatches
    <2>4. QED
      BY Zenon, <2>2, <2>3, <1>4, <1>5
  <1>12. RevokerIsDone'
    <2> SUFFICES ASSUME NEW o \in net', Revokes(o)
                 PROVE  /\ active'[o.src][o.dst].keyId # o.keyId
                        /\ pending'[o.src][o.dst].keyId # o.keyId
      BY Zenon DEF RevokerIsDone, Revokes, RevokingError
    <2>1. CASE o \in net /\ o.keyId # k
      <3>1. /\ active[o.src][o.dst].keyId # o.keyId
            /\ pending[o.src][o.dst].keyId # o.keyId
        BY Zenon, <2>1 DEF KeyLifecycle, RevokerIsDone, Revokes
      <3>2. QED
        BY <2>1, <3>1, <1>2, <1>t, <1>k
    <2>2. CASE o \in ExpiryDrops(n)
      BY Zenon, <2>2, <1>5
    <2>3. QED
      BY Zenon, <2>1, <2>2, <1>4, <1>r DEF Revokes, RevokingError
  <1>13. InitiatorLearns'
    <2> SUFFICES ASSUME NEW x \in Node, NEW y \in Node, NEW j \in KeyId,
                        owner[j] = <<x, y>>,
                        \/ active'[x][y].keyId = j
                        \/ pending'[x][y].keyId = j /\ Answering(y, x, j)',
                        active'[y][x].keyId # j
                 PROVE  Revoked(x, y, j)' \/ j \in orphaned'
      BY Zenon, <1>e DEF InitiatorLearns
    <2>0. j # k
      BY <1>2, <1>a, <1>f
    <2>1. CASE active[y][x].keyId = j
      BY Zenon, <2>1, <1>6
    <2>2. CASE active[y][x].keyId # j
      <3>1. Answering(y, x, j)' => Answering(y, x, j)
        BY Zenon, <2>0, <1>4, <1>5, <1>r DEF Answering
      <3>2. \/ active[x][y].keyId = j
            \/ pending[x][y].keyId = j /\ Answering(y, x, j)
        BY ZenonT(30), <2>0, <3>1, <1>2, <1>k
      <3>3. Revoked(x, y, j) \/ j \in orphaned
        BY Zenon, <2>2, <3>2 DEF KeyLifecycle, InitiatorLearns
      <3>4. QED
        BY Zenon, <3>3, <1>7, <1>e
    <2>3. QED
      BY Zenon, <2>1, <2>2
  <1>14. ResponderLearns'
    <2> SUFFICES ASSUME NEW x \in Node, NEW y \in Node, NEW j \in KeyId,
                        owner[j] = <<y, x>>, active'[x][y].keyId = j,
                        active'[y][x].keyId # j
                 PROVE  Answering(x, y, j)' \/ Revoked(x, y, j)' \/ j \in orphaned'
      BY Zenon, <1>e DEF ResponderLearns
    <2>1. CASE j = k
      <3>1. x = n /\ y = p
        BY <2>1, <1>f
      <3>2. QED
        BY Zenon, <2>1, <3>1, <1>u, <1>r DEF Answering
    <2>2. CASE j # k /\ active[y][x].keyId = j
      BY Zenon, <2>2, <1>6
    <2>3. CASE j # k /\ active[y][x].keyId # j
      <3>1. active[x][y].keyId = j
        BY Zenon, <2>3, <1>2, <1>k
      <3>2. Answering(x, y, j) \/ Revoked(x, y, j) \/ j \in orphaned
        BY Zenon, <2>3, <3>1 DEF KeyLifecycle, ResponderLearns
      <3>3. Answering(x, y, j) => Answering(x, y, j)'
        BY Zenon, <2>3, <1>3 DEF Answering, k
      <3>4. QED
        BY Zenon, <3>2, <3>3, <1>7, <1>e
    <2>4. QED
      BY Zenon, <2>1, <2>2, <2>3
  <1>15. KeyAgreement'
    <2>1. /\ active'[p][n].keyId = NoKey \/ active'[p][n] = active[p][n]
          /\ active'[n][p].keyId = k /\ active'[p][n].keyId # k
      BY <1>2, <1>a, <1>f, <1>g
    <2>2. ASSUME NEW x \in Node, NEW y \in Node, active'[x][y].keyId # NoKey,
                 active'[x][y].keyId = active'[y][x].keyId
          PROVE  active'[x][y].material = active'[y][x].material
      <3>1. <<x, y>> \notin {<<n, p>>, <<p, n>>}
        BY Zenon, <2>1, <2>2
      <3>2. QED
        BY <1>2, <2>2, <3>1 DEF KeyLifecycle, KeyAgreement
    <2>3. QED
      BY Zenon, <2>2 DEF KeyAgreement
  <1>16. QED
    BY Zenon, <1>1, <1>8, <1>9, <1>10, <1>11, <1>12, <1>13, <1>14, <1>15 DEF KeyLifecycle
-----------------------------------------------------------------------------
(* The initiator installs the key of the reply it waits for.               *)
LEMMA AcceptedReplyStep ==
  ASSUME TypeOK, KeyLifecycle, NEW m \in net, NEW outcome \in Outcomes,
         HandleReply(m, outcome),
         ReplyRefusal(m.dst, m.src, m.keyId, outcome) = "none"
  PROVE  TypeOK' /\ KeyLifecycle'
  <1> DEFINE n == m.dst
             p == m.src
             k == m.keyId
             material == KeyMaterial(pending[n][p].eph, m.eph, k, n, p)
             pend == [LivePending(n) EXCEPT ![p] = NoPending]
             act == [LiveActive(n) EXCEPT ![p] =
                       [keyId |-> k, material |-> material, due |-> FALSE]]
  <1>a. /\ n \in Node /\ p \in Node /\ k \in KeyId /\ k # NoKey
        /\ m.eph \in Nat /\ m.type = "reply"
    BY Zenon, MessageTyped DEF HandleReply
  <1>b. LivePending(n)[p].keyId = k
    BY Zenon, <1>a DEF ReplyRefusal
  <1>c. LivePending(n)[p] = pending[n][p] /\ pending[n][p].keyId = k
    BY <1>a, <1>b, ExpiryPass
  <1>d. Update(n, pend, act, {m}, {})
    BY Zenon, <1>b, <1>c DEF HandleReply
  <1>e. UNCHANGED <<limits, owner, ephemerals, unpushed, orphaned>>
    BY Zenon DEF HandleReply
  <1>f. owner[k] = <<n, p>> /\ n # p
    <2>1. owner[k] = <<n, p>>
      BY Zenon, <1>a, <1>c DEF KeyLifecycle, Roles
    <2>2. <<n, p>> # NoKey
      BY <1>a, KeyAssumption
    <2>3. owner[k][1] # owner[k][2]
      BY Zenon, <1>a, <2>1, <2>2 DEF KeyLifecycle, Roles
    <2>4. QED
      BY <2>1, <2>3
  <1>g. active[n][p].keyId = NoKey /\ LiveActive(n)[p].keyId = NoKey
    BY <1>a, <1>c, ExpiryPass DEF KeyLifecycle, PairExclusive
  <1>1. TypeOK'
    <2>1. pending[n][p].eph \in Nat
      BY Zenon, SMTT(30), <1>a DEF TypeOK, Pending
    <2>2. pend \in [Node -> Pending] /\ act \in [Node -> Active]
      BY Zenon, <1>a, <2>1, LiveTyped, EmptyEntries, MaterialTyped
    <2>e. {} \in SUBSET Message
      BY Zenon
    <2> HIDE DEF pend, act
    <2>3. /\ pending' \in [Node -> [Node -> Pending]]
          /\ active' \in [Node -> [Node -> Active]]
          /\ net' \subseteq Message
      BY Zenon, <1>a, <1>d, <2>2, <2>e, UpdateTyped
    <2>4. QED
      BY Zenon, <1>e, <2>3 DEF TypeOK
  <1>2. \A x, y \in Node :
          /\ \/ pending'[x][y].keyId = NoKey
             \/ pending'[x][y] = pending[x][y] /\ <<x, y>> # <<n, p>>
          /\ \/ active'[x][y].keyId = NoKey /\ <<x, y>> # <<n, p>>
             \/ active'[x][y] = active[x][y] /\ <<x, y>> # <<n, p>>
             \/ /\ <<x, y>> = <<n, p>>
                /\ active'[x][y].keyId = k /\ active'[x][y].material = material
    <2>1. \A x, y \in Node :
            /\ pending'[x][y] = IF x = n THEN pend[y] ELSE pending[x][y]
            /\ active'[x][y] = IF x = n THEN act[y] ELSE active[x][y]
      <3>1. pending' = [pending EXCEPT ![n] = pend] /\ active' = [active EXCEPT ![n] = act]
        BY Zenon, <1>d DEF Update
      <3> HIDE DEF pend, act, n
      <3>2. QED
        BY Zenon, <1>a, <3>1 DEF TypeOK
    <2>2. \A y \in Node :
            /\ pend[y] = IF y = p THEN NoPending ELSE LivePending(n)[y]
            /\ act[y] = IF y = p
                        THEN [keyId |-> k, material |-> material, due |-> FALSE]
                        ELSE LiveActive(n)[y]
      BY Zenon, <1>a, LiveTyped
    <2> HIDE DEF pend, act, material
    <2>3. SUFFICES ASSUME NEW x \in Node, NEW y \in Node
                   PROVE  /\ \/ pending'[x][y].keyId = NoKey
                             \/ pending'[x][y] = pending[x][y] /\ <<x, y>> # <<n, p>>
                          /\ \/ active'[x][y].keyId = NoKey /\ <<x, y>> # <<n, p>>
                             \/ active'[x][y] = active[x][y] /\ <<x, y>> # <<n, p>>
                             \/ /\ <<x, y>> = <<n, p>>
                                /\ active'[x][y].keyId = k
                                /\ active'[x][y].material = material
      BY Zenon
    <2>4. CASE x # n
      BY Zenon, <2>1, <2>4
    <2>5. CASE x = n /\ y = p
      BY SMTT(30), <1>a, <2>1, <2>2, <2>5 DEF NoPending
    <2>6. CASE x = n /\ y # p
      BY <1>a, <2>1, <2>2, <2>6, ExpiryPass
    <2>7. QED
      BY Zenon, SMTT(30), <2>4, <2>5, <2>6
  <1>3. net' = (net \ {m}) \cup ExpiryDrops(n)
    BY Zenon, <1>d DEF Update
  <1>4. \A o \in net' : (o \in net /\ o # m) \/ o \in ExpiryDrops(n)
    BY Zenon, <1>3
  <1>5. \A o \in ExpiryDrops(n) :
          /\ o.type = "drop" /\ o.src = n /\ o.dst \in Node
          /\ o.keyId = active[n][o.dst].keyId /\ o.keyId # NoKey
          /\ o.dst # p
          /\ active'[n][o.dst].keyId = NoKey /\ pending'[n][o.dst].keyId = NoKey
    <2>1. \A o \in ExpiryDrops(n) :
            /\ o.type = "drop" /\ o.src = n /\ o.dst \in Node
            /\ o.keyId = active[n][o.dst].keyId /\ o.keyId # NoKey
            /\ LiveActive(n)[o.dst].keyId = NoKey
            /\ LivePending(n)[o.dst].keyId = NoKey
      BY Zenon, <1>a, ExpiryPass
    <2>2. \A y \in Node : y # p => /\ active'[n][y] = LiveActive(n)[y]
                                   /\ pending'[n][y] = LivePending(n)[y]
      BY Zenon, SMTT(30), <1>a, <1>d, LiveTyped DEF Update, TypeOK
    <2>3. QED
      BY <2>1, <2>2, <1>g
  <1>6. \A x, y \in Node, j \in KeyId :
          active[x][y].keyId = j /\ active'[x][y].keyId # j => Revoked(y, x, j)'
    <2> SUFFICES ASSUME NEW x \in Node, NEW y \in Node, NEW j \in KeyId,
                        active[x][y].keyId = j, active'[x][y].keyId # j
                 PROVE  Revoked(y, x, j)'
      BY Zenon
    <2>1. x = n /\ y # p
      <3>1. \A z \in Node : x # n => active'[x][z] = active[x][z]
        BY Zenon, <1>a, <1>d DEF Update, TypeOK
      <3>2. QED
        BY Zenon, <3>1, <1>g, KeyAssumption
    <2>2. active'[n][y] = LiveActive(n)[y]
      BY Zenon, <1>a, <1>d, <2>1, LiveTyped DEF Update, TypeOK
    <2>3. Drop(n, y, j) \in net'
      BY <1>a, <1>3, <2>1, <2>2, ExpiryPass
    <2>4. /\ Drop(n, y, j).type = "drop" /\ Drop(n, y, j).keyId = j
          /\ Drop(n, y, j).src = n /\ Drop(n, y, j).dst = y
      BY Zenon DEF Drop
    <2> HIDE DEF n
    <2>5. QED
      BY Zenon, <2>1, <2>3, <2>4 DEF Revoked
  <1>7. \A x, y \in Node, j \in KeyId : Revoked(x, y, j) => Revoked(x, y, j)'
    BY Zenon, <1>3, <1>a DEF Revoked, RevokingError
  <1>k. \A j \in KeyId : j # NoKey
    BY Zenon, KeyAssumption
  <1>t. \A o \in net : o.src \in Node /\ o.dst \in Node /\ o.keyId \in KeyId
    BY Zenon, MessageTyped
  <1> HIDE DEF n, p, k, material, pend, act
  <1>8. PairExclusive'
    BY <1>2 DEF KeyLifecycle, PairExclusive
  <1>9. Roles'
    <2>1. ASSUME NEW x \in Node, NEW y \in Node
          PROVE  /\ pending'[x][y].keyId # NoKey
                      => owner'[pending'[x][y].keyId] = <<x, y>>
                 /\ active'[x][y].keyId # NoKey
                      => owner'[active'[x][y].keyId] \in {<<x, y>>, <<y, x>>}
      <3>1. /\ pending[x][y].keyId # NoKey => owner[pending[x][y].keyId] = <<x, y>>
            /\ active[x][y].keyId # NoKey
                 => owner[active[x][y].keyId] \in {<<x, y>>, <<y, x>>}
        BY Zenon DEF KeyLifecycle, Roles
      <3>2. pending'[x][y].keyId # NoKey => pending'[x][y] = pending[x][y]
        BY Zenon, <1>2
      <3>3. active'[x][y].keyId # NoKey =>
              active'[x][y] = active[x][y] \/ (x = n /\ y = p /\ active'[x][y].keyId = k)
        BY Zenon, <1>2
      <3>4. QED
        BY Zenon, <3>1, <3>2, <3>3, <1>e, <1>f
    <2>2. \A o \in net' :
            /\ o.type = "request" => owner'[o.keyId] = <<o.src, o.dst>>
            /\ o.type = "reply" => owner'[o.keyId] = <<o.dst, o.src>>
            /\ owner'[o.keyId] \in {<<o.src, o.dst>>, <<o.dst, o.src>>}
      BY <1>4, <1>5, <1>a, <1>e DEF KeyLifecycle, Roles
    <2>3. QED
      BY Zenon, <2>1, <2>2, <1>e DEF KeyLifecycle, Roles
  <1>10. RequestIsFirst'
    <2> SUFFICES ASSUME NEW r \in net', r.type = "request"
                 PROVE /\ \A o \in net' : o.keyId = r.keyId => o = r
                       /\ \A x, y \in Node : active'[x][y].keyId # r.keyId
                       /\ \A x, y \in Node : pending'[x][y].keyId = r.keyId
                                             => pending'[x][y].eph = r.eph
      BY Zenon DEF RequestIsFirst
    <2>1. r \in net
      BY Zenon, <1>4, <1>5
    <2>2. r.keyId # k
      BY Zenon, <2>1, <1>a DEF KeyLifecycle, RequestIsFirst, k
    <2>3. \A x, y \in Node : active'[x][y].keyId # r.keyId
      BY <2>1, <2>2, <1>2, <1>t, <1>k DEF KeyLifecycle, RequestIsFirst
    <2>4. \A o \in net' : o.keyId = r.keyId => o = r
      BY <2>1, <1>4, <1>5, <1>a DEF KeyLifecycle, RequestIsFirst
    <2>5. \A x, y \in Node : pending'[x][y].keyId = r.keyId
                             => pending'[x][y].eph = r.eph
      BY <2>1, <1>2, <1>t, <1>k DEF KeyLifecycle, RequestIsFirst
    <2>6. QED
      BY Zenon, <2>3, <2>4, <2>5
  <1>11. ReplyMatches'
    <2> SUFFICES ASSUME NEW r \in net', r.type = "reply"
                 PROVE /\ \A o \in net' : o.type = "reply" /\ o.keyId = r.keyId => o = r
                       /\ active'[r.dst][r.src].keyId # r.keyId
                       /\ (/\ pending'[r.dst][r.src].keyId = r.keyId
                           /\ active'[r.src][r.dst].keyId = r.keyId)
                            => active'[r.src][r.dst].material =
                                 KeyMaterial(pending'[r.dst][r.src].eph, r.eph,
                                             r.keyId, r.dst, r.src)
      BY Zenon DEF ReplyMatches, KeyMaterial
    <2>1. r \in net /\ r # m
      BY Zenon, <1>4, <1>5
    <2>2. r.keyId # k
      BY Zenon, <2>1, <1>a DEF KeyLifecycle, ReplyMatches, k
    <2>3. \A o \in net' : o.type = "reply" /\ o.keyId = r.keyId => o = r
      BY Zenon, <2>1, <1>4, <1>5 DEF KeyLifecycle, ReplyMatches
    <2>4. active'[r.dst][r.src].keyId # r.keyId
      BY <2>1, <2>2, <1>2, <1>t, <1>k DEF KeyLifecycle, ReplyMatches
    <2>5. ASSUME pending'[r.dst][r.src].keyId = r.keyId,
                 active'[r.src][r.dst].keyId = r.keyId
          PROVE  /\ pending'[r.dst][r.src] = pending[r.dst][r.src]
                 /\ active'[r.src][r.dst] = active[r.src][r.dst]
      BY <2>1, <2>2, <2>5, <1>2, <1>t, <1>k
    <2>6. QED
      BY Zenon, <2>1, <2>3, <2>4, <2>5 DEF KeyLifecycle, ReplyMatches
  <1>12. RevokerIsDone'
    <2> SUFFICES ASSUME NEW o \in net', Revokes(o)
                 PROVE  /\ active'[o.src][o.dst].keyId # o.keyId
                        /\ pending'[o.src][o.dst].keyId # o.keyId
      BY Zenon DEF RevokerIsDone, Revokes, RevokingError
    <2>1. CASE o \in net
      <3>1. /\ active[o.src][o.dst].keyId # o.keyId
            /\ pending[o.src][o.dst].keyId # o.keyId
        BY Zenon, <2>1 DEF KeyLifecycle, RevokerIsDone, Revokes
      <3>2. <<o.src, o.dst>> = <<n, p>> => o.keyId # k
        BY Zenon, <3>1, <1>c
      <3>3. QED
        BY <2>1, <3>1, <3>2, <1>2, <1>t, <1>k
    <2>2. CASE o \in ExpiryDrops(n)
      BY <2>2, <1>5
    <2>3. QED
      BY Zenon, <2>1, <2>2, <1>4
  <1>13. InitiatorLearns'
    <2> SUFFICES ASSUME NEW x \in Node, NEW y \in Node, NEW j \in KeyId,
                        owner[j] = <<x, y>>,
                        \/ active'[x][y].keyId = j
                        \/ pending'[x][y].keyId = j /\ Answering(y, x, j)',
                        active'[y][x].keyId # j
                 PROVE  Revoked(x, y, j)' \/ j \in orphaned'
      BY Zenon, <1>e DEF InitiatorLearns
    <2>1. CASE active[y][x].keyId = j
      BY Zenon, <2>1, <1>6
    <2>2. CASE active[y][x].keyId # j
      <3>1. Answering(y, x, j)' => Answering(y, x, j)
        BY Zenon, <1>4, <1>5 DEF Answering
      <3>2. Answering(p, n, k)
        BY Zenon, SMTT(30), <1>a DEF Answering, n, p, k
      <3>3. \/ active[x][y].keyId = j
            \/ pending[x][y].keyId = j /\ Answering(y, x, j)
        BY ZenonT(30), SMTT(30), <3>1, <3>2, <1>2, <1>c, <1>k
      <3>4. Revoked(x, y, j) \/ j \in orphaned
        BY Zenon, SMTT(30), <2>2, <3>3 DEF KeyLifecycle, InitiatorLearns
      <3>5. QED
        BY Zenon, <3>4, <1>7, <1>e
    <2>3. QED
      BY Zenon, <2>1, <2>2
  <1>14. ResponderLearns'
    <2> SUFFICES ASSUME NEW x \in Node, NEW y \in Node, NEW j \in KeyId,
                        owner[j] = <<y, x>>, active'[x][y].keyId = j,
                        active'[y][x].keyId # j
                 PROVE  Answering(x, y, j)' \/ Revoked(x, y, j)' \/ j \in orphaned'
      BY Zenon, <1>e DEF ResponderLearns
    <2>1. j # k
      BY ZenonT(30), <1>2, <1>a, <1>f, <1>k
    <2>2. active[x][y].keyId = j
      BY Zenon, <2>1, <1>2, <1>k
    <2>3. CASE active[y][x].keyId = j
      BY Zenon, <2>3, <1>6
    <2>4. CASE active[y][x].keyId # j
      <3>1. Answering(x, y, j) \/ Revoked(x, y, j) \/ j \in orphaned
        BY Zenon, <2>2, <2>4 DEF KeyLifecycle, ResponderLearns
      <3>2. Answering(x, y, j) => Answering(x, y, j)'
        BY Zenon, <2>1, <1>3 DEF Answering, k
      <3>3. QED
        BY Zenon, <3>1, <3>2, <1>7, <1>e
    <2>5. QED
      BY Zenon, <2>3, <2>4
  <1>15. KeyAgreement'
    <2>1. active[p][n].keyId = k => active[p][n].material = material
      BY Zenon, <1>a, <1>c DEF KeyLifecycle, ReplyMatches, n, p, k, material
    <2>2. /\ active'[p][n].keyId = NoKey \/ active'[p][n] = active[p][n]
          /\ active'[n][p].keyId = k /\ active'[n][p].material = material
      BY Zenon, <1>2, <1>a, <1>f
    <2>3. ASSUME NEW x \in Node, NEW y \in Node, active'[x][y].keyId # NoKey,
                 active'[x][y].keyId = active'[y][x].keyId
          PROVE  active'[x][y].material = active'[y][x].material
      <3>1. CASE <<x, y>> \in {<<n, p>>, <<p, n>>}
        BY Zenon, <2>1, <2>2, <2>3, <3>1
      <3>2. CASE <<x, y>> \notin {<<n, p>>, <<p, n>>}
        BY <1>2, <2>3, <3>2 DEF KeyLifecycle, KeyAgreement
      <3>3. QED
        BY Zenon, <3>1, <3>2
    <2>4. QED
      BY Zenon, <2>3 DEF KeyAgreement
  <1>16. QED
    BY Zenon, <1>1, <1>8, <1>9, <1>10, <1>11, <1>12, <1>13, <1>14, <1>15 DEF KeyLifecycle
=============================================================================
