------------------------ MODULE AesNegotiationProofs ------------------------
(* The start of a negotiation preserves the invariants of AesNegotiation,   *)
(* and with the other steps the theorems.                                   *)
EXTENDS AesInstallProofs, FiniteSetTheorems, TLAPS

USE SMTT(30)

(* The initiator draws a key id that no entry or message carries.          *)
LEMMA BeginStep ==
  ASSUME TypeOK, KeyLifecycle, NEW n \in Node, NEW p \in Node, NEW k \in KeyId,
         NEW pushed \in BOOLEAN, BeginAesKeyNegotiation(n, p, k, pushed)
  PROVE  TypeOK' /\ KeyLifecycle'
  <1> DEFINE e == ephemerals + 1
             request == Request(n, p, k, e)
             sent == IF pushed THEN {request} ELSE {}
             pend == [LivePending(n) EXCEPT ![p] =
                        [keyId |-> k, eph |-> e, due |-> FALSE]]
  <1>a. n # p /\ owner[k] = NoKey /\ e \in Nat /\ k # NoKey
    BY KeyAssumption DEF BeginAesKeyNegotiation, TypeOK
  <1>b. LivePending(n)[p].keyId = NoKey /\ LiveActive(n)[p].keyId = NoKey
    BY Zenon DEF BeginAesKeyNegotiation, MayBegin
  <1>d. Update(n, pend, LiveActive(n), {}, sent)
    BY Zenon DEF BeginAesKeyNegotiation
  <1>e. /\ UNCHANGED <<limits, orphaned>> /\ ephemerals' = e
        /\ owner' = [owner EXCEPT ![k] = <<n, p>>]
        /\ unpushed' \in {unpushed, unpushed \cup {<<n, p, k>>}}
    BY Zenon DEF BeginAesKeyNegotiation
  <1>f. \A j \in KeyId : owner'[j] = IF j = k THEN <<n, p>> ELSE owner[j]
    BY Zenon, <1>e DEF TypeOK
  <1>p. \A x, y \in Node : <<x, y>> # NoKey
    BY KeyAssumption
  <1>t. \A o \in net : o.src \in Node /\ o.dst \in Node /\ o.keyId \in KeyId
    BY Zenon, MessageTyped
  <1>g. /\ \A o \in net : o.keyId # k
        /\ \A x, y \in Node : active[x][y].keyId # k
    <2>1. \A o \in net : o.keyId # k
      BY <1>a, <1>p, <1>t DEF KeyLifecycle, Roles
    <2>2. \A x, y \in Node : active[x][y].keyId # k
      BY <1>a, <1>p DEF KeyLifecycle, Roles
    <2>3. QED
      BY Zenon, <2>1, <2>2
  <1>h. ASSUME NEW x \in Node, NEW y \in Node PROVE pending[x][y].keyId # k
    <2>1. pending[x][y].keyId # NoKey => owner[pending[x][y].keyId] = <<x, y>>
      BY Zenon DEF KeyLifecycle, Roles
    <2>2. QED
      BY Zenon, <1>a, <1>p, <2>1
  <1>r. /\ request.type = "request" /\ request.src = n /\ request.dst = p
        /\ request.keyId = k /\ request.eph = e /\ request \in Message
    BY Zenon, <1>a DEF Request, Message
  <1>s. \A o \in sent : o = request
    BY Zenon
  <1>1. TypeOK'
    <2>1. pend \in [Node -> Pending]
      BY Zenon, <1>a, LiveTyped DEF Pending
    <2>2. LiveActive(n) \in [Node -> Active] /\ sent \in SUBSET Message
      BY Zenon, <1>r, LiveTyped
    <2> HIDE DEF pend, request, sent
    <2>3. /\ pending' \in [Node -> [Node -> Pending]]
          /\ active' \in [Node -> [Node -> Active]]
          /\ net' \subseteq Message
      BY Zenon, <1>d, <2>1, <2>2, UpdateTyped
    <2>4. QED
      BY <1>a, <1>e, <2>3 DEF TypeOK
  <1>2. \A x, y \in Node :
          /\ \/ pending'[x][y].keyId = NoKey /\ <<x, y>> # <<n, p>>
             \/ pending'[x][y] = pending[x][y] /\ <<x, y>> # <<n, p>>
             \/ /\ <<x, y>> = <<n, p>>
                /\ pending'[x][y].keyId = k /\ pending'[x][y].eph = e
          /\ \/ active'[x][y].keyId = NoKey
             \/ active'[x][y] = active[x][y] /\ <<x, y>> # <<n, p>>
    <2>1. \A x, y \in Node :
            /\ pending'[x][y] = IF x = n THEN pend[y] ELSE pending[x][y]
            /\ active'[x][y] = IF x = n THEN LiveActive(n)[y] ELSE active[x][y]
      BY <1>d DEF Update, TypeOK
    <2>2. \A y \in Node :
            pend[y] = IF y = p THEN [keyId |-> k, eph |-> e, due |-> FALSE]
                      ELSE LivePending(n)[y]
      BY Zenon, LiveTyped
    <2> HIDE DEF pend, e
    <2>3. QED
      BY <1>b, <2>1, <2>2, ExpiryPass
  <1>3. net' = net \cup ExpiryDrops(n) \cup sent
    BY Zenon, <1>d DEF Update
  <1>4. \A o \in net' : o \in net \/ o \in ExpiryDrops(n) \/ o = request
    BY Zenon, <1>3, <1>s
  <1>5. \A o \in ExpiryDrops(n) :
          /\ o.type = "drop" /\ o.src = n /\ o.dst \in Node
          /\ o.keyId = active[n][o.dst].keyId /\ o.keyId # NoKey /\ o.keyId # k
          /\ active'[n][o.dst].keyId = NoKey
          /\ pending'[n][o.dst].keyId # o.keyId
    <2>1. \A o \in ExpiryDrops(n) :
            /\ o.type = "drop" /\ o.src = n /\ o.dst \in Node
            /\ o.keyId = active[n][o.dst].keyId /\ o.keyId # NoKey
            /\ LiveActive(n)[o.dst].keyId = NoKey
            /\ LivePending(n)[o.dst].keyId = NoKey
      BY Zenon, ExpiryPass
    <2>2. \A y \in Node : /\ active'[n][y] = LiveActive(n)[y]
                          /\ y # p => pending'[n][y] = LivePending(n)[y]
      BY Zenon, <1>d, LiveTyped DEF Update, TypeOK
    <2>3. pending'[n][p].keyId = k
      BY Zenon, <1>2
    <2>4. QED
      BY <2>1, <2>2, <2>3, <1>g
  <1>6. \A x, y \in Node, j \in KeyId :
          active[x][y].keyId = j /\ active'[x][y].keyId # j => Revoked(y, x, j)'
    <2> SUFFICES ASSUME NEW x \in Node, NEW y \in Node, NEW j \in KeyId,
                        active[x][y].keyId = j, active'[x][y].keyId # j
                 PROVE  Revoked(y, x, j)'
      BY Zenon
    <2>1. x = n
      BY Zenon, <1>d DEF Update, TypeOK
    <2>2. LiveActive(n)[y].keyId # j
      BY Zenon, <1>d, <2>1, LiveTyped DEF Update, TypeOK
    <2>3. Drop(n, y, j) \in net'
      BY Zenon, <1>3, <2>1, <2>2, ExpiryPass
    <2>4. QED
      BY Zenon, <2>1, <2>3 DEF Revoked, Drop
  <1>7. \A x, y \in Node, j \in KeyId :
          /\ Revoked(x, y, j) => Revoked(x, y, j)'
          /\ Answering(x, y, j) <=> Answering(x, y, j)'
    <2>1. \A x, y \in Node, j \in KeyId : Revoked(x, y, j) => Revoked(x, y, j)'
      BY Zenon, <1>3 DEF Revoked, RevokingError
    <2>2. \A x, y \in Node, j \in KeyId : Answering(x, y, j) <=> Answering(x, y, j)'
      BY Zenon, <1>3, <1>4, <1>5, <1>r DEF Answering
    <2>3. QED
      BY Zenon, <2>1, <2>2
  <1>k. \A j \in KeyId : j # NoKey
    BY Zenon, KeyAssumption
  <1> HIDE DEF e, request, sent, pend
  <1>8. PairExclusive'
    BY <1>2 DEF KeyLifecycle, PairExclusive
  <1>9. Roles'
    <2>1. ASSUME NEW x \in Node, NEW y \in Node
          PROVE  /\ pending'[x][y].keyId # NoKey
                      => owner'[pending'[x][y].keyId] = <<x, y>>
                 /\ active'[x][y].keyId # NoKey
                      => owner'[active'[x][y].keyId] \in {<<x, y>>, <<y, x>>}
      <3>0. pending[x][y].keyId \in KeyId \cup {NoKey}
            /\ active[x][y].keyId \in KeyId \cup {NoKey}
        BY DEF TypeOK, Pending, Active
      <3>a. /\ pending[x][y].keyId # NoKey => owner[pending[x][y].keyId] = <<x, y>>
            /\ active[x][y].keyId # NoKey
                 => owner[active[x][y].keyId] \in {<<x, y>>, <<y, x>>}
        BY Zenon DEF KeyLifecycle, Roles
      <3>b. pending[x][y].keyId # NoKey => owner'[pending[x][y].keyId] = <<x, y>>
        BY Zenon, <3>0, <3>a, <1>f, <1>g, <1>h
      <3>c. active[x][y].keyId # NoKey
              => owner'[active[x][y].keyId] \in {<<x, y>>, <<y, x>>}
        BY Zenon, <3>0, <3>a, <1>f, <1>g, <1>h
      <3>1. /\ pending[x][y].keyId # NoKey => owner'[pending[x][y].keyId] = <<x, y>>
            /\ active[x][y].keyId # NoKey
                 => owner'[active[x][y].keyId] \in {<<x, y>>, <<y, x>>}
        BY Zenon, <3>b, <3>c
      <3>2. pending'[x][y].keyId # NoKey =>
              pending'[x][y] = pending[x][y] \/ (x = n /\ y = p /\ pending'[x][y].keyId = k)
        BY Zenon, <1>2
      <3>3. active'[x][y].keyId # NoKey => active'[x][y] = active[x][y]
        BY Zenon, <1>2
      <3>4. QED
        BY Zenon, <3>1, <3>2, <3>3, <1>f
    <2>2. ASSUME NEW o \in net'
          PROVE  /\ o.type = "request" => owner'[o.keyId] = <<o.src, o.dst>>
                 /\ o.type = "reply" => owner'[o.keyId] = <<o.dst, o.src>>
                 /\ owner'[o.keyId] \in {<<o.src, o.dst>>, <<o.dst, o.src>>}
      <3>1. CASE o \in net
        BY ZenonT(30), <3>1, <1>f, <1>g, <1>t DEF KeyLifecycle, Roles
      <3>2. CASE o \in ExpiryDrops(n)
        <4>1. active[n][o.dst].keyId \in KeyId \cup {NoKey}
          BY <3>2, <1>5 DEF TypeOK, Active
        <4>2. owner[o.keyId] \in {<<o.src, o.dst>>, <<o.dst, o.src>>}
          BY ZenonT(30), <3>2, <1>5 DEF KeyLifecycle, Roles
        <4>3. QED
          BY <3>2, <4>1, <4>2, <1>5, <1>f
      <3>3. CASE o = request
        BY Zenon, <3>3, <1>f, <1>r
      <3>4. QED
        BY Zenon, <3>1, <3>2, <3>3, <1>4
    <2>3. \A u \in unpushed' : owner'[u[3]] # NoKey
      <3>1. \A u \in unpushed : u[3] \in KeyId /\ owner[u[3]] # NoKey
        BY Zenon DEF KeyLifecycle, Roles, TypeOK
      <3>2. QED
        BY <3>1, <1>e, <1>f, <1>p
    <2>4. \A j \in KeyId : owner'[j] # NoKey => owner'[j][1] # owner'[j][2]
      BY <1>a, <1>f DEF KeyLifecycle, Roles
    <2>5. QED
      BY Zenon, <2>1, <2>2, <2>3, <2>4 DEF Roles
  <1>10. RequestIsFirst'
    <2> SUFFICES ASSUME NEW r \in net', r.type = "request"
                 PROVE /\ \A o \in net' : o.keyId = r.keyId => o = r
                       /\ \A x, y \in Node : active'[x][y].keyId # r.keyId
                       /\ \A x, y \in Node : pending'[x][y].keyId = r.keyId
                                             => pending'[x][y].eph = r.eph
      BY Zenon DEF RequestIsFirst
    <2>1. CASE r \in net
      <3>1. r.keyId # k /\ r.keyId # NoKey
        BY Zenon, <2>1, <1>g, <1>t, <1>k
      <3>2. \A o \in net' : o.keyId = r.keyId => o = r
        BY <2>1, <3>1, <1>4, <1>5, <1>r DEF KeyLifecycle, RequestIsFirst
      <3>3. \A x, y \in Node : active'[x][y].keyId # r.keyId
        BY <2>1, <3>1, <1>2 DEF KeyLifecycle, RequestIsFirst
      <3>4. \A x, y \in Node : pending'[x][y].keyId = r.keyId
                               => pending'[x][y].eph = r.eph
        BY <2>1, <3>1, <1>2 DEF KeyLifecycle, RequestIsFirst
      <3>5. QED
        BY Zenon, <3>2, <3>3, <3>4
    <2>2. CASE r = request
      <3>1. \A o \in net' : o.keyId = r.keyId => o = r
        BY Zenon, <2>2, <1>4, <1>5, <1>g, <1>r
      <3>2. \A x, y \in Node : active'[x][y].keyId # r.keyId
        BY <2>2, <1>2, <1>g, <1>r, <1>a
      <3>3. \A x, y \in Node : pending'[x][y].keyId = r.keyId
                               => pending'[x][y].eph = r.eph
        BY <2>2, <1>2, <1>h, <1>r, <1>a
      <3>4. QED
        BY Zenon, <3>1, <3>2, <3>3
    <2>3. QED
      BY Zenon, <2>1, <2>2, <1>4, <1>5
  <1>11. ReplyMatches'
    <2> SUFFICES ASSUME NEW r \in net', r.type = "reply"
                 PROVE /\ \A o \in net' : o.type = "reply" /\ o.keyId = r.keyId => o = r
                       /\ active'[r.dst][r.src].keyId # r.keyId
                       /\ (/\ pending'[r.dst][r.src].keyId = r.keyId
                           /\ active'[r.src][r.dst].keyId = r.keyId)
                            => active'[r.src][r.dst].material =
                                 KeyMaterial(pending'[r.dst][r.src].eph, r.eph,
                                             r.keyId, r.dst, r.src)
      BY Zenon DEF ReplyMatches, KeyMaterial
    <2>1. r \in net /\ r.keyId # k /\ r.keyId # NoKey
      BY ZenonT(30), <1>4, <1>5, <1>r, <1>g, <1>t, <1>k
    <2>2. \A o \in net' : o.type = "reply" /\ o.keyId = r.keyId => o = r
      BY <2>1, <1>4, <1>5, <1>r DEF KeyLifecycle, ReplyMatches
    <2>3. active'[r.dst][r.src].keyId # r.keyId
      BY <2>1, <1>2, <1>t DEF KeyLifecycle, ReplyMatches
    <2>4. ASSUME pending'[r.dst][r.src].keyId = r.keyId,
                 active'[r.src][r.dst].keyId = r.keyId
          PROVE  /\ pending'[r.dst][r.src] = pending[r.dst][r.src]
                 /\ active'[r.src][r.dst] = active[r.src][r.dst]
      BY Zenon, <2>1, <2>4, <1>2, <1>t
    <2>5. QED
      BY Zenon, <2>1, <2>2, <2>3, <2>4 DEF KeyLifecycle, ReplyMatches
  <1>12. RevokerIsDone'
    <2> SUFFICES ASSUME NEW o \in net', Revokes(o)
                 PROVE  /\ active'[o.src][o.dst].keyId # o.keyId
                        /\ pending'[o.src][o.dst].keyId # o.keyId
      BY Zenon DEF RevokerIsDone, Revokes, RevokingError
    <2>1. CASE o \in net
      <3>1. /\ active[o.src][o.dst].keyId # o.keyId
            /\ pending[o.src][o.dst].keyId # o.keyId
        BY Zenon, <2>1 DEF KeyLifecycle, RevokerIsDone, Revokes
      <3>2. QED
        BY <2>1, <3>1, <1>2, <1>g, <1>t, <1>k
    <2>2. CASE o \in ExpiryDrops(n)
      BY <2>2, <1>5
    <2>3. QED
      BY Zenon, <2>1, <2>2, <1>4, <1>r DEF Revokes, RevokingError
  <1>13. InitiatorLearns'
    <2> SUFFICES ASSUME NEW x \in Node, NEW y \in Node, NEW j \in KeyId,
                        owner'[j] = <<x, y>>,
                        \/ active'[x][y].keyId = j
                        \/ pending'[x][y].keyId = j /\ Answering(y, x, j)',
                        active'[y][x].keyId # j
                 PROVE  Revoked(x, y, j)' \/ j \in orphaned'
      BY Zenon DEF InitiatorLearns
    <2>0. j # k
      <3>1. ~Answering(y, x, k)
        BY Zenon, <1>g DEF Answering
      <3>2. ~Answering(y, x, k)'
        BY Zenon, <3>1, <1>7
      <3>3. QED
        BY <3>2, <1>2, <1>g, <1>a
    <2>1. CASE active[y][x].keyId = j
      BY Zenon, <2>1, <1>6
    <2>2. CASE active[y][x].keyId # j
      <3>1. \/ active[x][y].keyId = j
            \/ pending[x][y].keyId = j /\ Answering(y, x, j)
        BY <2>0, <1>7, <1>2, <1>k
      <3>2. Revoked(x, y, j) \/ j \in orphaned
        BY Zenon, <2>0, <2>2, <3>1, <1>f DEF KeyLifecycle, InitiatorLearns
      <3>3. QED
        BY Zenon, <3>2, <1>7, <1>e
    <2>3. QED
      BY Zenon, <2>1, <2>2
  <1>14. ResponderLearns'
    <2> SUFFICES ASSUME NEW x \in Node, NEW y \in Node, NEW j \in KeyId,
                        owner'[j] = <<y, x>>, active'[x][y].keyId = j,
                        active'[y][x].keyId # j
                 PROVE  Answering(x, y, j)' \/ Revoked(x, y, j)' \/ j \in orphaned'
      BY Zenon DEF ResponderLearns
    <2>1. active[x][y].keyId = j /\ j # k
      BY <1>2, <1>k, <1>g
    <2>2. CASE active[y][x].keyId = j
      BY Zenon, <2>2, <1>6
    <2>3. CASE active[y][x].keyId # j
      <3>1. Answering(x, y, j) \/ Revoked(x, y, j) \/ j \in orphaned
        BY Zenon, <2>1, <2>3, <1>f DEF KeyLifecycle, ResponderLearns
      <3>2. QED
        BY Zenon, <3>1, <1>7, <1>e
    <2>4. QED
      BY Zenon, <2>2, <2>3
  <1>15. KeyAgreement'
    BY <1>2 DEF KeyLifecycle, KeyAgreement
  <1>16. QED
    BY Zenon, <1>1, <1>8, <1>9, <1>10, <1>11, <1>12, <1>13, <1>14, <1>15 DEF KeyLifecycle
-----------------------------------------------------------------------------
LEMMA InitEstablishes == Init => TypeOK /\ KeyLifecycle
  <1> SUFFICES ASSUME Init PROVE TypeOK /\ KeyLifecycle
    BY Zenon
  <1>1. TypeOK
    BY Zenon, EmptyEntries DEF Init, TypeOK
  <1>2. /\ \A n, p \in Node : pending[n][p].keyId = NoKey /\ active[n][p].keyId = NoKey
        /\ net = {} /\ unpushed = {} /\ \A k \in KeyId : owner[k] = NoKey
    BY Zenon DEF Init, NoPending, NoActive
  <1>3. \A k \in KeyId : k # NoKey
    BY Zenon, KeyAssumption
  <1>4. PairExclusive /\ KeyAgreement
    BY Zenon, <1>2 DEF PairExclusive, KeyAgreement
  <1>r. Roles
    BY Zenon, <1>2 DEF Roles
  <1>5. RequestIsFirst /\ ReplyMatches /\ RevokerIsDone
    BY Zenon, <1>2 DEF RequestIsFirst, ReplyMatches, RevokerIsDone
  <1>6. InitiatorLearns /\ ResponderLearns
    BY ZenonT(30), <1>2, <1>3 DEF InitiatorLearns, ResponderLearns
  <1>7. QED
    BY Zenon, <1>1, <1>4, <1>r, <1>5, <1>6 DEF KeyLifecycle

LEMMA StepPreserves ==
  TypeOK /\ KeyLifecycle /\ [Next]_vars => TypeOK' /\ KeyLifecycle'
  <1> SUFFICES ASSUME TypeOK, KeyLifecycle, [Next]_vars
               PROVE  TypeOK' /\ KeyLifecycle'
    BY Zenon
  <1>1. ASSUME NEW n \in Node, ProcessExpiredAesKeys(n) PROVE TypeOK' /\ KeyLifecycle'
    BY Zenon, <1>1, ProcessExpiredStep
  <1>2. ASSUME NEW n \in Node, NEW p \in Node,
               PendingDeadlinePasses(n, p) \/ ActiveDeadlinePasses(n, p)
        PROVE  TypeOK' /\ KeyLifecycle'
    BY Zenon, <1>2, DeadlineStep
  <1>3. ASSUME NEW n \in Node, NEW l \in Limits, SetAesNegotiationLimits(n, l)
        PROVE  TypeOK' /\ KeyLifecycle'
    BY Zenon, <1>3, SetLimitsStep
  <1>4. ASSUME NEW n \in Node, NEW p \in Node, NEW k \in KeyId, NEW pushed \in BOOLEAN,
               BeginAesKeyNegotiation(n, p, k, pushed)
        PROVE  TypeOK' /\ KeyLifecycle'
    BY Zenon, <1>4, BeginStep
  <1>5. ASSUME NEW n \in Node, NEW p \in Node, NEW k \in KeyId, UndoUnpushed(n, p, k)
        PROVE  TypeOK' /\ KeyLifecycle'
    BY Zenon, <1>5, UndoUnpushedStep
  <1>6. ASSUME NEW n \in Node, NEW p \in Node, DropAesKey(n, p)
        PROVE  TypeOK' /\ KeyLifecycle'
    BY Zenon, <1>6, DropAesKeyStep
  <1>7. ASSUME NEW m \in net, NEW o \in Outcomes, HandleRequest(m, o)
        PROVE  TypeOK' /\ KeyLifecycle'
    BY Zenon, <1>7, RefusedRequestStep, AcceptedRequestStep
  <1>8. ASSUME NEW m \in net, NEW o \in Outcomes, HandleReply(m, o)
        PROVE  TypeOK' /\ KeyLifecycle'
    BY Zenon, <1>8, RefusedReplyStep, AcceptedReplyStep
  <1>9. ASSUME NEW m \in net, HandleDrop(m) PROVE TypeOK' /\ KeyLifecycle'
    BY Zenon, <1>9, HandleDropStep
  <1>10. ASSUME NEW m \in net, HandleError(m) PROVE TypeOK' /\ KeyLifecycle'
    BY Zenon, <1>10, HandleErrorStep
  <1>11. ASSUME NEW m \in net, Lose(m) PROVE TypeOK' /\ KeyLifecycle'
    BY Zenon, <1>11, LoseStep
  <1>12. CASE UNCHANGED vars
    <2>1. TypeOK'
      BY Zenon, <1>12 DEF TypeOK, vars
    <2>2. ErasingStep
      BY Zenon, <1>12 DEF vars, ErasingStep, EntriesSurvive, SendsRevocations,
                   ErasuresAnnounced, ConsumptionsAnswered
    <2>3. QED
      BY Zenon, <2>1, <2>2, ErasingStepPreserves
  <1>13. QED
    BY Zenon, <1>1, <1>2, <1>3, <1>4, <1>5, <1>6, <1>7, <1>8, <1>9, <1>10, <1>11, <1>12
       DEF Next
-----------------------------------------------------------------------------
(* A step of node n that installs at most a key for peer p, where the expiry *)
(* pass has left none and room for it.                                      *)
Installs(n, p, act) ==
  /\ active' = [active EXCEPT ![n] = act] /\ act \in [Node -> Active]
  /\ \A q \in Node : q # p => act[q].keyId \in {LiveActive(n)[q].keyId, NoKey}
  /\ \/ act[p].keyId \in {LiveActive(n)[p].keyId, NoKey}
     \/ /\ LiveActive(n)[p].keyId = NoKey
        /\ Cardinality(Peers(LiveActive(n))) < limits[n].active

LEMMA InstallingStep ==
  ASSUME TypeOK, NEW n \in Node, NEW p \in Node, NEW act, Installs(n, p, act)
  PROVE  KeyTableStep
  <1> USE DEF Installs
  <1>1. \A q \in Node : LiveActive(n)[q].keyId =
                          IF active[n][q].due THEN NoKey ELSE active[n][q].keyId
    BY Zenon DEF LiveActive, NoActive
  <1>2. \A r \in Node : r # n => active'[r] = active[r]
    BY Zenon DEF TypeOK
  <1>3. active'[n] = act
    BY Zenon DEF TypeOK
  <1>4. ASSUME NEW r \in Node, NEW q \in Node, active[r][q].keyId # NoKey, ~active[r][q].due
        PROVE  active'[r][q].keyId \in {active[r][q].keyId, NoKey}
    BY Zenon, <1>1, <1>2, <1>3, <1>4
  <1>5. CASE act[p].keyId \in {LiveActive(n)[p].keyId, NoKey}
    <2>1. Peers(active'[n]) \subseteq Peers(active[n])
      BY Zenon, <1>1, <1>3, <1>5 DEF Peers
    <2>2. \A r \in Node : Peers(active'[r]) \subseteq Peers(active[r])
      BY Zenon, <1>2, <2>1
    <2> QED
      BY Zenon, <1>4, <2>2 DEF KeyTableStep
  <1>6. CASE Cardinality(Peers(LiveActive(n))) < limits[n].active
    <2>1. Peers(active'[n]) \subseteq Peers(LiveActive(n)) \cup {p}
      BY Zenon, <1>3 DEF Peers
    <2>2. IsFiniteSet(Peers(LiveActive(n)))
      BY Zenon, NodeAssumption, FS_Subset DEF Peers
    <2>3. /\ IsFiniteSet(Peers(LiveActive(n)) \cup {p})
          /\ Cardinality(Peers(LiveActive(n)) \cup {p}) <= Cardinality(Peers(LiveActive(n))) + 1
          /\ Cardinality(Peers(LiveActive(n))) \in Nat
          /\ Cardinality(Peers(LiveActive(n)) \cup {p}) \in Nat
      <3> DEFINE S == Peers(LiveActive(n))
      <3>0. IsFiniteSet(S)
        BY Zenon, <2>2
      <3> HIDE DEF S
      <3>1. /\ IsFiniteSet(S \cup {p})
            /\ Cardinality(S \cup {p}) = IF p \in S THEN Cardinality(S) ELSE Cardinality(S) + 1
        BY Zenon, <3>0, FS_AddElement
      <3>2. Cardinality(S) \in Nat
        BY Zenon, <2>2, FS_CardinalityType DEF S
      <3>3. CASE p \in S
        BY <3>1, <3>2, <3>3 DEF S
      <3>4. CASE p \notin S
        BY <3>1, <3>2, <3>4 DEF S
      <3> QED
        BY Zenon, <3>3, <3>4
    <2>4. /\ Cardinality(Peers(active'[n])) <= Cardinality(Peers(LiveActive(n)) \cup {p})
          /\ Cardinality(Peers(active'[n])) \in Nat
      BY Zenon, <2>1, <2>3, FS_Subset, FS_CardinalityType
    <2>5. limits[n].active \in Nat
      BY LimitsAssumption DEF TypeOK
    <2>6. Cardinality(Peers(active'[n])) <= limits[n].active
      BY <1>6, <2>3, <2>4, <2>5
    <2> QED
      BY Zenon, <1>2, <1>4, <2>6 DEF KeyTableStep
  <1> QED
    BY Zenon, <1>5, <1>6

LEMMA TableStep == TypeOK /\ KeyLifecycle /\ [Next]_vars => [KeyTableStep]_vars
  <1> SUFFICES ASSUME TypeOK, KeyLifecycle, Next PROVE KeyTableStep
    BY Zenon DEF KeyTableStep
  <1>l. ASSUME NEW n \in Node PROVE LiveActive(n) \in [Node -> Active]
    BY Zenon, <1>l, LiveTyped
  <1>1. ASSUME NEW n \in Node, ProcessExpiredAesKeys(n) PROVE KeyTableStep
    <2>1. active' = [active EXCEPT ![n] = LiveActive(n)]
      BY Zenon, <1>1 DEF ProcessExpiredAesKeys, Update
    <2>2. Installs(n, n, LiveActive(n))
      BY Zenon, <1>l, <2>1 DEF Installs
    <2> QED
      BY Zenon, <2>2, InstallingStep
  <1>2. CASE UNCHANGED active
    BY Zenon, <1>2 DEF KeyTableStep
  <1>3. ASSUME NEW n \in Node, NEW p \in Node, ActiveDeadlinePasses(n, p) PROVE KeyTableStep
    <2>1. /\ active \in [Node -> [Node -> Active]]
          /\ active' = [active EXCEPT ![n][p] = [@ EXCEPT !.due = TRUE]]
      BY Zenon, <1>3 DEF TypeOK, ActiveDeadlinePasses
    <2>2. \A r \in Node, q \in Node : active'[r][q].keyId = active[r][q].keyId
      BY <2>1 DEF Active
    <2>3. \A r \in Node : Peers(active'[r]) = Peers(active[r])
      BY Zenon, <2>2 DEF Peers
    <2> QED
      BY Zenon, <2>2, <2>3 DEF KeyTableStep
  <1>4. ASSUME NEW n \in Node, NEW p \in Node, NEW k \in KeyId, NEW pushed \in BOOLEAN,
               BeginAesKeyNegotiation(n, p, k, pushed)
        PROVE  KeyTableStep
    <2>1. active' = [active EXCEPT ![n] = LiveActive(n)]
      BY Zenon, <1>4 DEF BeginAesKeyNegotiation, Update
    <2>2. Installs(n, n, LiveActive(n))
      BY Zenon, <1>l, <2>1 DEF Installs
    <2> QED
      BY Zenon, <2>2, InstallingStep
  <1>e. ASSUME NEW n \in Node, NEW p \in Node,
               \/ active' = [active EXCEPT ![n] = LiveActive(n)]
               \/ active' = [active EXCEPT ![n] = [LiveActive(n) EXCEPT ![p] = NoActive]]
        PROVE  KeyTableStep
    <2> DEFINE none == [LiveActive(n) EXCEPT ![p] = NoActive]
    <2>1. none \in [Node -> Active] /\ none[p].keyId = NoKey
          /\ \A q \in Node : q # p => none[q] = LiveActive(n)[q]
      BY Zenon, <1>l, EmptyEntries DEF NoActive
    <2> HIDE DEF none
    <2>2. CASE active' = [active EXCEPT ![n] = none]
      <3>1. Installs(n, p, none)
        BY Zenon, <2>1, <2>2 DEF Installs
      <3> QED
        BY Zenon, <3>1, InstallingStep
    <2>3. CASE active' = [active EXCEPT ![n] = LiveActive(n)]
      <3>1. Installs(n, p, LiveActive(n))
        BY Zenon, <1>l, <2>3 DEF Installs
      <3> QED
        BY Zenon, <3>1, InstallingStep
    <2> QED
      BY Zenon, <1>e, <2>2, <2>3 DEF none
  <1>5. ASSUME NEW n \in Node, NEW p \in Node, DropAesKey(n, p) PROVE KeyTableStep
    <2>1. active' = [active EXCEPT ![n] = [LiveActive(n) EXCEPT ![p] = NoActive]]
      BY Zenon, <1>5 DEF DropAesKey, Update
    <2> QED
      BY Zenon, <1>e, <2>1
  <1>6. ASSUME NEW m \in net, HandleDrop(m) \/ HandleError(m) PROVE KeyTableStep
    BY Zenon, <1>6, <1>e, MessageTyped DEF HandleDrop, HandleError, Update
  <1>i. ASSUME NEW n \in Node, NEW p \in Node, NEW entry \in Active,
               LiveActive(n)[p].keyId = NoKey,
               Cardinality(Peers(LiveActive(n))) < limits[n].active,
               active' = [active EXCEPT ![n] = [LiveActive(n) EXCEPT ![p] = entry]]
        PROVE  KeyTableStep
    <2> DEFINE act == [LiveActive(n) EXCEPT ![p] = entry]
    <2>1. act \in [Node -> Active] /\ \A q \in Node : q # p => act[q] = LiveActive(n)[q]
      BY Zenon, <1>l
    <2> HIDE DEF act
    <2>2. active' = [active EXCEPT ![n] = act]
      BY Zenon, <1>i DEF act
    <2>3. Installs(n, p, act)
      <3>1. \A q \in Node : q # p => act[q].keyId \in {LiveActive(n)[q].keyId, NoKey}
        BY Zenon, <2>1
      <3> QED
        BY Zenon, <1>i, <2>1, <2>2, <3>1 DEF Installs
    <2> QED
      BY Zenon, <2>3, InstallingStep
  <1>n. ASSUME NEW n \in Node
        PROVE  Cardinality(Peers(LiveActive(n))) \in Nat /\ limits[n].active \in Nat
    BY NodeAssumption, LimitsAssumption, FS_Subset, FS_CardinalityType DEF Peers, TypeOK
  <1>7. ASSUME NEW m \in net, NEW o \in Outcomes, HandleRequest(m, o) PROVE KeyTableStep
    <2> DEFINE n == m.dst
               p == m.src
               e == ephemerals + 1
    <2>0. n \in Node /\ p \in Node /\ m.keyId \in KeyId /\ m.eph \in Nat /\ e \in Nat
      BY MessageTyped DEF TypeOK
    <2>1. CASE RequestRefusal(n, p, o) # "none"
      BY Zenon, <1>7, <1>e, <2>0, <2>1 DEF HandleRequest, Update
    <2>2. CASE RequestRefusal(n, p, o) = "none"
      <3> DEFINE entry == [keyId |-> m.keyId, material |-> KeyMaterial(e, m.eph, m.keyId, n, p),
                           due |-> FALSE]
      <3>1. entry \in Active
        BY Zenon, <2>0, MaterialTyped
      <3>2. active' = [active EXCEPT ![n] = [LiveActive(n) EXCEPT ![p] = entry]]
        BY Zenon, <1>7, <2>2 DEF HandleRequest, Update
      <3>3. LiveActive(n)[p].keyId = NoKey
            /\ ~(Cardinality(Peers(LiveActive(n))) >= limits[n].active)
        BY Zenon, <2>2 DEF RequestRefusal
      <3>4. Cardinality(Peers(LiveActive(n))) < limits[n].active
        BY <1>n, <2>0, <3>3
      <3> HIDE DEF entry, n, p
      <3> QED
        BY Zenon, <1>i, <2>0, <3>1, <3>2, <3>3, <3>4
    <2> QED
      BY Zenon, <2>1, <2>2
  <1>8. ASSUME NEW m \in net, NEW o \in Outcomes, HandleReply(m, o) PROVE KeyTableStep
    <2> DEFINE n == m.dst
               p == m.src
               k == m.keyId
    <2>0. n \in Node /\ p \in Node /\ k \in KeyId /\ k # NoKey /\ m.eph \in Nat
      BY Zenon, MessageTyped DEF TypeOK
    <2>1. CASE ReplyRefusal(n, p, k, o) # "none"
      <3>1. active' = [active EXCEPT ![n] = LiveActive(n)]
        BY Zenon, <1>8, <2>1 DEF HandleReply, Update
      <3> QED
        BY Zenon, <1>e, <2>0, <3>1
    <2>2. CASE ReplyRefusal(n, p, k, o) = "none"
      <3> DEFINE entry == [keyId |-> LivePending(n)[p].keyId,
                           material |-> KeyMaterial(LivePending(n)[p].eph, m.eph, k, n, p),
                           due |-> FALSE]
      <3>1. LivePending(n)[p].keyId = k
            /\ (LiveActive(n)[p].keyId = NoKey =>
                  ~(Cardinality(Peers(LiveActive(n))) >= limits[n].active))
        BY Zenon, <2>2 DEF ReplyRefusal
      <3>2. LivePending(n)[p] \in Pending
        BY Zenon, <2>0, LiveTyped
      <3>3. entry \in Active
        BY Zenon, <2>0, <3>1, <3>2, MaterialTyped DEF Pending
      <3>4. LiveActive(n)[p].keyId = NoKey
        <4>1. pending[n][p].keyId # NoKey
          BY Zenon, <2>0, <3>1 DEF LivePending, NoPending
        <4>2. active[n][p].keyId = NoKey
          BY Zenon, <2>0, <4>1 DEF KeyLifecycle, PairExclusive
        <4> QED
          BY Zenon, <2>0, <4>2 DEF LiveActive, NoActive
      <3>5. active' = [active EXCEPT ![n] = [LiveActive(n) EXCEPT ![p] = entry]]
        BY Zenon, <1>8, <2>2 DEF HandleReply, Update
      <3>6. Cardinality(Peers(LiveActive(n))) < limits[n].active
        BY <1>n, <2>0, <3>1, <3>4
      <3> HIDE DEF entry, n, p
      <3> QED
        BY Zenon, <1>i, <2>0, <3>3, <3>4, <3>5, <3>6
    <2> QED
      BY Zenon, <2>1, <2>2
  <1>9. CASE \/ \E n, p \in Node : PendingDeadlinePasses(n, p)
             \/ \E n \in Node, l \in Limits : SetAesNegotiationLimits(n, l)
             \/ \E n, p \in Node, k \in KeyId : UndoUnpushed(n, p, k)
             \/ \E m \in net : Lose(m)
    BY Zenon, <1>2, <1>9 DEF PendingDeadlinePasses, SetAesNegotiationLimits, UndoUnpushed, Lose
  <1> QED
    BY Zenon, <1>1, <1>3, <1>4, <1>5, <1>6, <1>7, <1>8, <1>9 DEF Next
-----------------------------------------------------------------------------
(* Every reachable state of any number of nodes is well typed.             *)
THEOREM TypeCorrect == Spec => []TypeOK
  <1>1. Init => TypeOK /\ KeyLifecycle
    BY Zenon, InitEstablishes
  <1>2. TypeOK /\ KeyLifecycle /\ [Next]_vars => TypeOK' /\ KeyLifecycle'
    BY Zenon, StepPreserves
  <1>3. QED
    BY <1>1, <1>2, PTL DEF Spec

(* A key id lives through request, answer, key and revocation in order.    *)
THEOREM LifecycleInvariant == Spec => []KeyLifecycle
  <1>1. Init => TypeOK /\ KeyLifecycle
    BY Zenon, InitEstablishes
  <1>2. TypeOK /\ KeyLifecycle /\ [Next]_vars => TypeOK' /\ KeyLifecycle'
    BY Zenon, StepPreserves
  <1>3. QED
    BY <1>1, <1>2, PTL DEF Spec

(* Two nodes that hold the same key id for each other hold the same key.   *)
THEOREM Agreement == Spec => []KeyAgreement
  <1>1. KeyLifecycle => KeyAgreement
    BY Zenon DEF KeyLifecycle
  <1>2. QED
    BY <1>1, LifecycleInvariant, PTL

(* A key only one side holds has an answer or a revocation in flight, or a *)
(* message about it was lost or refused in a way that tells nothing.       *)
THEOREM Repair == Spec => []OneSidedKeyIsRepaired
  <1>1. TypeOK /\ KeyLifecycle => OneSidedKeyIsRepaired
    <2> SUFFICES ASSUME TypeOK, KeyLifecycle, NEW n \in Node, NEW p \in Node,
                        active[n][p].keyId # NoKey,
                        active[p][n].keyId # active[n][p].keyId
                 PROVE  \/ Answering(n, p, active[n][p].keyId)
                        \/ Revoked(n, p, active[n][p].keyId)
                        \/ active[n][p].keyId \in orphaned
      BY Zenon DEF OneSidedKeyIsRepaired
    <2>1. active[n][p].keyId \in KeyId
      BY DEF TypeOK, Active
    <2>2. owner[active[n][p].keyId] \in {<<n, p>>, <<p, n>>}
      BY Zenon DEF KeyLifecycle, Roles
    <2>3. QED
      BY Zenon, <2>1, <2>2 DEF KeyLifecycle, InitiatorLearns, ResponderLearns
  <1>2. QED
    BY <1>1, TypeCorrect, LifecycleInvariant, PTL

(* An installed key that has not expired is never overwritten, and a key is *)
(* added only below the limit in force: for any number of nodes and keys,   *)
(* the handlers of requests and replies keep the key table in order.        *)
THEOREM TableDiscipline == Spec => KeyTableDiscipline
  <1>1. Spec => [](TypeOK /\ KeyLifecycle)
    BY TypeCorrect, LifecycleInvariant, PTL
  <1>2. TypeOK /\ KeyLifecycle /\ [Next]_vars => [KeyTableStep]_vars
    BY Zenon, TableStep
  <1>3. QED
    BY <1>1, <1>2, PTL DEF Spec, KeyTableDiscipline
=============================================================================
