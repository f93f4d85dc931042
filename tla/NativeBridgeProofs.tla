------------------------- MODULE NativeBridgeProofs -------------------------
(***************************************************************************)
(* Proofs about NativeBridge for any plan: any number of payloads, data,    *)
(* lost connections and stops.                                              *)
(***************************************************************************)
EXTENDS NativeBridge, TLAPS

Holds(q, st) == \E i \in DOMAIN q : q[i].st = st
Lone(q, st) == \A i, j \in DOMAIN q : q[i].st = st /\ q[j].st = st => i = j

Kind == {"open", "opened", "refused", "send", "close", "success", "data", "closed", "error",
         "none"}
Mail == [st : Kind, n : Nat]

(* The sequences of the payloads' way and the counters.                     *)
UpTypes ==
  /\ plan \in Plans
  /\ reqs \in Seq(Mail)
  /\ chan \in Seq(Mail)
  /\ queue \in Seq(Mail)
  /\ sent \in Nat /\ wrote \in Nat /\ payload \in Nat /\ wrote <= plan.writes
  /\ outbox \in Seq(Nat) /\ svcGot \in Seq(Nat)

(* The application's payloads are numbered as they are written; payload is  *)
(* the last one that the worker took, and the rest waits in the outbox.      *)
OutboxFollows ==
  /\ Len(outbox) = wrote - payload /\ payload <= wrote
  /\ \A i \in 1 .. Len(outbox) : outbox[i] = payload + i

(* The service has a prefix of the payloads, and at most the last one taken *)
(* is still to come.                                                        *)
ServiceFollows ==
  /\ \A i \in 1 .. Len(svcGot) : svcGot[i] = i
  /\ Len(svcGot) <= payload /\ payload <= Len(svcGot) + 1
  /\ Lone(reqs, "send")
  /\ \A i \in DOMAIN reqs : reqs[i].st = "send" => reqs[i].n = payload /\ Len(svcGot) + 1 = payload

(* A worker that will take another payload has the acknowledgement of the   *)
(* last one, and no other acknowledgement is on its way that it could take  *)
(* for the next one's.                                                      *)
InLoop == {"none", "check", "recv", "mark", "send", "wait"}

AckFollows ==
  /\ worker = "none" <=> opener # "done"
  /\ worker = "none" => wrote = 0
  /\ worker \in {"none", "check", "recv"} => Len(svcGot) = payload
  /\ worker \in {"mark", "send"} => ~Holds(reqs, "send") /\ Len(svcGot) + 1 = payload
  /\ worker \in InLoop /\ opener # "failed" =>
       /\ ~Holds(reqs, "close")
       /\ Lone(chan, "success") /\ Lone(queue, "success")
       /\ ~(Holds(chan, "success") /\ Holds(queue, "success"))
       /\ Holds(chan, "success") \/ Holds(queue, "success") =>
            worker = "wait" /\ Len(svcGot) = payload

UpInv == UpTypes /\ OutboxFollows /\ ServiceFollows /\ AckFollows
-----------------------------------------------------------------------------
(* What the end of a sequence, its rest and a longer one hold.              *)
LEMMA SeqHead ==
  ASSUME NEW S, NEW q \in Seq(S), q # <<>>
  PROVE  /\ Head(q) \in S /\ Head(q) = q[1] /\ Tail(q) \in Seq(S)
         /\ Len(q) \in Nat /\ Len(q) > 0 /\ Len(Tail(q)) = Len(q) - 1
         /\ \A i \in 1 .. Len(q) - 1 : Tail(q)[i] = q[i + 1]
  OBVIOUS

(* push: the new element is last, and nothing else changes.                *)
LEMMA SeqAppend ==
  ASSUME NEW S, NEW q \in Seq(S), NEW m \in S
  PROVE  /\ Append(q, m) \in Seq(S) /\ Len(Append(q, m)) = Len(q) + 1 /\ Len(q) \in Nat
         /\ \A i \in 1 .. Len(q) : Append(q, m)[i] = q[i]
         /\ Append(q, m)[Len(q) + 1] = m
  OBVIOUS

(* An empty queue holds no message of any status.                          *)
LEMMA EmptyHolds == ASSUME NEW st PROVE ~Holds(<<>>, st) /\ Lone(<<>>, st)
  BY DEF Holds, Lone

(* Taking the head adds no message, and takes the only one of its status.  *)
LEMMA TailHolds ==
  ASSUME NEW S, NEW q \in Seq(S), q # <<>>, NEW st
  PROVE  /\ Holds(Tail(q), st) => Holds(q, st)
         /\ Head(q).st = st => Holds(q, st)
         /\ Lone(q, st) => Lone(Tail(q), st)
         /\ Lone(q, st) /\ Head(q).st = st => ~Holds(Tail(q), st)
  <1> DEFINE t == Tail(q)
             L == Len(q)
  <1>1. /\ Head(q) = q[1] /\ L \in Nat /\ L > 0 /\ Len(t) = L - 1 /\ t \in Seq(S)
        /\ \A i \in 1 .. L - 1 : t[i] = q[i + 1]
    BY Zenon, SeqHead
  <1>2. DOMAIN t = 1 .. L - 1 /\ DOMAIN q = 1 .. L
    BY <1>1
  <1>3. 1 \in DOMAIN q /\ \A i \in DOMAIN t : i + 1 \in DOMAIN q /\ t[i] = q[i + 1]
                                              /\ i \in Nat /\ i + 1 # 1
    BY <1>1, <1>2
  <1> HIDE DEF t, L
  <1>4. /\ Holds(t, st) => Holds(q, st)
        /\ Head(q).st = st => Holds(q, st)
        /\ Lone(q, st) /\ Head(q).st = st => ~Holds(t, st)
    BY Zenon, <1>1, <1>3 DEF Holds, Lone
  <1>5. Lone(q, st) => Lone(t, st)
    BY <1>3 DEF Lone
  <1> QED
    BY Zenon, <1>4, <1>5 DEF t

(* Appending adds one message.                                             *)
LEMMA AppendHolds ==
  ASSUME NEW S, NEW q \in Seq(S), NEW m \in S, NEW st
  PROVE  /\ Holds(Append(q, m), st) <=> (Holds(q, st) \/ m.st = st)
         /\ Lone(q, st) /\ ~(Holds(q, st) /\ m.st = st) => Lone(Append(q, m), st)
  <1> DEFINE a == Append(q, m)
             L == Len(q)
  <1>1. /\ a \in Seq(S) /\ Len(a) = L + 1 /\ L \in Nat
        /\ \A i \in 1 .. L : a[i] = q[i]
        /\ a[L + 1] = m
    BY Zenon, SeqAppend
  <1>2. DOMAIN a = 1 .. L + 1 /\ DOMAIN q = 1 .. L
    BY <1>1
  <1>3. /\ L + 1 \in DOMAIN a
        /\ \A i \in DOMAIN q : i \in DOMAIN a /\ a[i] = q[i]
        /\ \A i \in DOMAIN a : i = L + 1 \/ i \in DOMAIN q
    BY <1>1, <1>2
  <1> HIDE DEF a, L
  <1>4. Holds(a, st) <=> (Holds(q, st) \/ m.st = st)
    BY Zenon, <1>1, <1>3 DEF Holds
  <1>5. Lone(q, st) /\ ~(Holds(q, st) /\ m.st = st) => Lone(a, st)
    BY Zenon, <1>1, <1>3 DEF Holds, Lone
  <1> QED
    BY Zenon, <1>4, <1>5 DEF a
-----------------------------------------------------------------------------
(* The initial states satisfy the invariant of the upward direction.       *)
LEMMA UpInit == Init => UpInv
  <1> SUFFICES ASSUME Init PROVE UpInv
    BY Zenon
  <1>1. UpTypes
    BY PlansAreBounded DEF Init, UpTypes
  <1>2. OutboxFollows
    BY DEF Init, OutboxFollows
  <1>3. ServiceFollows
    BY EmptyHolds DEF Init, ServiceFollows
  <1>4. AckFollows
    BY Zenon, EmptyHolds DEF Init, AckFollows, InLoop
  <1> QED
    BY Zenon, <1>1, <1>2, <1>3, <1>4 DEF UpInv

(* A request other than a payload changes nothing for the service's prefix. *)
LEMMA ServiceFrame ==
  ASSUME UpInv, UNCHANGED <<svcGot, payload>>,
         \/ reqs' = reqs
         \/ reqs' = <<>>
         \/ reqs' = Append(reqs, Msg("close", 0))
         \/ reqs' = Append(reqs, Msg("open", 0))
  PROVE  ServiceFollows' /\ reqs' \in Seq(Mail)
  <1> USE DEF UpInv, UpTypes
  <1>1. CASE reqs' = reqs
    BY Zenon, <1>1 DEF ServiceFollows, Lone
  <1>2. CASE reqs' = <<>>
    BY <1>2 DEF ServiceFollows, Lone
  <1>3. ASSUME NEW st \in {"close", "open"}, reqs' = Append(reqs, Msg(st, 0))
        PROVE  ServiceFollows' /\ reqs' \in Seq(Mail)
    <2>1. Msg(st, 0) \in Mail /\ Msg(st, 0).st # "send"
      BY Zenon, <1>3 DEF Msg, Mail, Kind
    <2>2. /\ reqs' \in Seq(Mail) /\ Len(reqs') = Len(reqs) + 1
          /\ \A i \in 1 .. Len(reqs) : reqs'[i] = reqs[i]
          /\ reqs'[Len(reqs) + 1] = Msg(st, 0) /\ Len(reqs) \in Nat
      BY <1>3, <2>1, SeqAppend
    <2>3. \A i \in DOMAIN reqs' : reqs'[i].st = "send" => i \in DOMAIN reqs /\ reqs'[i] = reqs[i]
      <3>1. DOMAIN reqs' = 1 .. Len(reqs) + 1 /\ DOMAIN reqs = 1 .. Len(reqs)
        BY <2>2
      <3>2. \A i \in DOMAIN reqs' : i = Len(reqs) + 1 \/ i \in 1 .. Len(reqs)
        BY <2>2, <3>1
      <3> QED
        BY Zenon, <2>1, <2>2, <3>1, <3>2
    <2>5. Lone(reqs', "send")
      <3>1. \A i, j \in DOMAIN reqs : reqs[i].st = "send" /\ reqs[j].st = "send" => i = j
        BY Zenon DEF ServiceFollows, Lone
      <3>2. \A i, j \in DOMAIN reqs' : reqs'[i].st = "send" /\ reqs'[j].st = "send" => i = j
        BY Zenon, <2>3, <3>1
      <3> QED
        BY Zenon, <3>2 DEF Lone
    <2>4. ServiceFollows'
      BY Zenon, <2>3, <2>5 DEF ServiceFollows
    <2> QED
      BY Zenon, <2>2, <2>4
  <1> QED
    BY Zenon, <1>1, <1>2, <1>3

(* The steps of the opener, the listener, the stopper and of those outside   *)
(* the client leave the worker's payloads alone.                            *)
Bystander ==
  /\ UNCHANGED <<plan, wrote, payload, outbox, svcGot, worker>> /\ sent' \in Nat
  /\ opener' = opener \/ (opener \notin {"done", "failed"} /\ opener' # "done")
  /\ \/ reqs' = reqs
     \/ reqs' = <<>>
     \/ reqs' = Append(reqs, Msg("open", 0))
     \/ opener' = "failed" /\ reqs' = Append(reqs, Msg("close", 0))
  /\ \/ chan' = chan
     \/ chan' = <<>>
     \/ \E m \in Mail : m.st # "success" /\ chan' = Append(chan, m)
  /\ queue' = queue \/ queue' = <<>>

(* A step that leaves the way of the payloads alone keeps its invariant.   *)
LEMMA BystanderStep == ASSUME UpInv, Bystander PROVE UpInv'
  <1>0. reqs \in Seq(Mail) /\ chan \in Seq(Mail) /\ queue \in Seq(Mail)
    BY Zenon DEF UpInv, UpTypes
  <1>1. ServiceFollows' /\ reqs' \in Seq(Mail)
    BY Zenon, ServiceFrame DEF Bystander
  <1>2. OutboxFollows'
    BY Zenon DEF UpInv, OutboxFollows, Bystander
  <1>3. /\ chan' \in Seq(Mail)
        /\ Holds(chan', "success") => Holds(chan, "success")
        /\ Lone(chan, "success") => Lone(chan', "success")
    <2>1. CASE chan' = chan
      BY Zenon, <1>0, <2>1
    <2>2. CASE chan' = <<>>
      BY <2>2, EmptyHolds
    <2>3. ASSUME NEW m \in Mail, m.st # "success", chan' = Append(chan, m)
          PROVE  <1>3!:
      BY <1>0, <2>3, AppendHolds
    <2> QED
      BY Zenon, <2>1, <2>2, <2>3 DEF Bystander
  <1>4. /\ queue' \in Seq(Mail)
        /\ Holds(queue', "success") => Holds(queue, "success")
        /\ Lone(queue, "success") => Lone(queue', "success")
    <2>1. CASE queue' = queue
      BY Zenon, <1>0, <2>1
    <2>2. CASE queue' = <<>>
      BY <2>2, EmptyHolds
    <2> QED
      BY Zenon, <2>1, <2>2 DEF Bystander
  <1>5. Msg("open", 0) \in Mail /\ Msg("open", 0).st = "open"
        /\ Msg("close", 0) \in Mail /\ Msg("close", 0).st = "close"
    BY Zenon DEF Msg, Mail, Kind
  <1>6. /\ Holds(reqs', "send") => Holds(reqs, "send")
        /\ opener' # "failed" /\ Holds(reqs', "close") => Holds(reqs, "close")
    <2>1. CASE reqs' = reqs
      BY Zenon, <2>1
    <2>2. CASE reqs' = <<>>
      BY Zenon, <2>2, EmptyHolds
    <2>3. CASE reqs' = Append(reqs, Msg("open", 0))
      BY Zenon, <1>0, <1>5, <2>3, AppendHolds
    <2>4. CASE opener' = "failed" /\ reqs' = Append(reqs, Msg("close", 0))
      BY Zenon, <1>0, <1>5, <2>4, AppendHolds
    <2> QED
      BY Zenon, <2>1, <2>2, <2>3, <2>4 DEF Bystander
  <1>7. AckFollows'
    BY Zenon, <1>3, <1>4, <1>6 DEF UpInv, AckFollows, Bystander
  <1>8. UpTypes'
    BY Zenon, <1>1, <1>3, <1>4 DEF UpInv, UpTypes, Bystander
  <1> QED
    BY Zenon, <1>1, <1>2, <1>7, <1>8 DEF UpInv

(* Which steps are those.                                                   *)
LEMMA BystanderActions ==
  ASSUME UpInv, UNCHANGED plan,
         \/ Lose \/ Reconnect \/ RequestStream \/ OpenReturns \/ AcceptReturns
         \/ attachNativeStreamBridge \/ FillBuffered \/ listenTCPSocket
         \/ runNativeListenSocketBridge
         \/ HandlerWrites \/ stopNativeListenBridgesForNode \/ stopNativeSocketBridgesForNode
         \/ (ServicePushes /\ UNCHANGED <<opener, worker, payload, bridgeVars, appVars>>)
  PROVE  Bystander
  <1> USE DEF Bystander, bridgeVars, appVars, netVars
  <1>0. sent \in Nat
    BY Zenon DEF UpInv, UpTypes
  <1>1. CASE Lose
    BY Zenon, <1>0, <1>1 DEF Lose
  <1>2. CASE Reconnect
    BY Zenon, <1>0, <1>2 DEF Reconnect
  <1>3. CASE RequestStream
    BY Zenon, <1>0, <1>3 DEF RequestStream
  <1>4. CASE OpenReturns
    BY Zenon, <1>0, <1>4 DEF OpenReturns
  <1>5. CASE AcceptReturns
    BY Zenon, <1>0, <1>5 DEF AcceptReturns
  <1>6. CASE attachNativeStreamBridge
    BY Zenon, <1>0, <1>6 DEF attachNativeStreamBridge
  <1>7. CASE FillBuffered
    BY Zenon, <1>0, <1>7 DEF FillBuffered, WriteOrClose
  <1>8. CASE listenTCPSocket \/ runNativeListenSocketBridge
    BY Zenon, <1>0, <1>8 DEF listenTCPSocket, runNativeListenSocketBridge
  <1>9. CASE HandlerWrites
    BY Zenon, <1>0, <1>9 DEF HandlerWrites, WriteOrClose
  <1>10. CASE stopNativeListenBridgesForNode \/ stopNativeSocketBridgesForNode
    BY Zenon, <1>0, <1>10 DEF stopNativeListenBridgesForNode, stopNativeSocketBridgesForNode, StopBridge
  <1>11. CASE ServicePushes /\ UNCHANGED <<opener, worker, payload, bridgeVars, appVars>>
    <2>1. Msg("data", sent + 1) \in Mail /\ Msg("data", sent + 1).st # "success"
          /\ Msg("closed", 0) \in Mail /\ Msg("closed", 0).st # "success"
      BY <1>0 DEF Msg, Mail, Kind
    <2> QED
      BY <1>0, <1>11, <2>1 DEF ServicePushes, Replies
  <1> QED
    BY Zenon, <1>1, <1>2, <1>3, <1>4, <1>5, <1>6, <1>7, <1>8, <1>9, <1>10, <1>11

(* The service takes a request: an acknowledgement is sent for the payload   *)
(* the worker waits for, and for nothing else as long as the worker may take *)
(* it for one.                                                              *)
LEMMA AnswerStep ==
  ASSUME UpInv, ServiceAnswers, UNCHANGED <<plan, opener, worker, payload, bridgeVars, appVars>>
  PROVE  UpInv'
  <1> USE DEF bridgeVars, appVars
  <1>0. UpTypes /\ OutboxFollows /\ ServiceFollows /\ AckFollows
    BY Zenon DEF UpInv
  <1> DEFINE q == Head(reqs)
             R == Len(reqs)
  <1>1. /\ q \in Mail /\ q = reqs[1] /\ reqs' = Tail(reqs) /\ reqs' \in Seq(Mail)
        /\ R \in Nat /\ R > 0 /\ Len(reqs') = R - 1 /\ reqs # <<>>
        /\ \A i \in 1 .. R - 1 : reqs'[i] = reqs[i + 1]
    BY Zenon, <1>0, SeqHead DEF ServiceAnswers, UpTypes
  <1>2. \A st : /\ Holds(reqs', st) => Holds(reqs, st)
                /\ q.st = st => Holds(reqs, st)
                /\ Lone(reqs, st) => Lone(reqs', st)
                /\ Lone(reqs, st) /\ q.st = st => ~Holds(reqs', st)
    BY Zenon, <1>0, <1>1, TailHolds DEF UpTypes
  <1>3. \A i \in DOMAIN reqs' : i + 1 \in DOMAIN reqs /\ reqs'[i] = reqs[i + 1]
    BY <1>0, <1>1 DEF UpTypes
  <1>4. \A m \in Mail : /\ Append(chan, m) \in Seq(Mail)
                        /\ Holds(Append(chan, m), "success") <=>
                             (Holds(chan, "success") \/ m.st = "success")
                        /\ Lone(chan, "success") /\ ~(Holds(chan, "success") /\ m.st = "success")
                             => Lone(Append(chan, m), "success")
    BY <1>0, AppendHolds, SeqAppend DEF UpTypes
  <1>5. /\ Msg("opened", 0) \in Mail /\ Msg("refused", 0) \in Mail /\ Msg("success", 0) \in Mail
        /\ Msg("error", 0) \in Mail
        /\ Msg("opened", 0).st = "opened" /\ Msg("refused", 0).st = "refused"
        /\ Msg("success", 0).st = "success" /\ Msg("error", 0).st = "error"
    BY Zenon DEF Msg, Mail, Kind
  <1>6. OutboxFollows'
    BY Zenon, <1>0 DEF OutboxFollows
  <1>7. CASE q.st = "send" /\ svc = "open" /\ svcGot' = Append(svcGot, q.n)
             /\ Replies(Msg("success", 0))
    <2>0. payload \in Nat /\ Len(svcGot) \in Nat
      BY <1>0 DEF UpTypes
    <2>1. Len(svcGot) + 1 = payload /\ q.n = payload
      <3>1. 1 \in DOMAIN reqs
        BY <1>1, <1>0 DEF UpTypes
      <3> QED
        BY Zenon, <1>0, <1>1, <1>7, <3>1 DEF ServiceFollows
    <2>2. /\ svcGot' \in Seq(Nat) /\ Len(svcGot') = payload
          /\ \A i \in 1 .. Len(svcGot) : svcGot'[i] = svcGot[i]
          /\ svcGot'[payload] = payload
      BY <1>0, <1>7, <2>1, SeqAppend DEF UpTypes
    <2>3. \A i \in 1 .. Len(svcGot') : svcGot'[i] = i
      <3>1. \A i \in 1 .. payload : i = payload \/ i \in 1 .. Len(svcGot)
        BY <2>0, <2>1
      <3>2. \A i \in 1 .. Len(svcGot) : svcGot[i] = i
        BY Zenon, <1>0 DEF ServiceFollows
      <3> QED
        BY Zenon, <2>2, <3>1, <3>2
    <2>4. ~Holds(reqs', "send") /\ Lone(reqs', "send")
      BY Zenon, <1>0, <1>2, <1>7 DEF ServiceFollows
    <2>5. ServiceFollows'
      <3>1. \A i \in DOMAIN reqs' : reqs'[i].st # "send"
        BY Zenon, <2>4 DEF Holds
      <3> QED
        BY <2>0, <2>2, <2>3, <2>4, <3>1 DEF ServiceFollows
    <2>6. worker \notin {"none", "check", "recv", "mark", "send"}
      <3>1. Holds(reqs, "send")
        BY Zenon, <1>2, <1>7
      <3> QED
        BY <1>0, <2>0, <2>1, <3>1 DEF AckFollows
    <2>7. worker \in InLoop /\ opener # "failed" =>
            ~Holds(chan, "success") /\ ~Holds(queue, "success")
      BY <1>0, <2>1 DEF AckFollows, UpTypes
    <2>8. chan' = chan \/ chan' = Append(chan, Msg("success", 0))
      BY Zenon, <1>7 DEF Replies
    <2>9. chan' \in Seq(Mail) /\ (worker \in InLoop /\ opener # "failed" => Lone(chan', "success"))
      BY Zenon, <1>0, <1>4, <1>5, <2>7, <2>8 DEF AckFollows, UpTypes
    <2>10. AckFollows'
      BY Zenon, <1>0, <1>2, <2>2, <2>6, <2>7, <2>9 DEF AckFollows, InLoop
    <2>11. UpTypes'
      BY Zenon, <1>0, <1>1, <2>2, <2>9 DEF UpTypes, ServiceAnswers
    <2> QED
      BY Zenon, <1>6, <2>5, <2>10, <2>11 DEF UpInv
  <1>8. CASE /\ UNCHANGED svcGot
             /\ \E m \in Mail : /\ m.st = "success" => q.st = "close"
                                /\ Replies(m)
    <2>1. PICK m \in Mail : (m.st = "success" => q.st = "close") /\ Replies(m)
      BY Zenon, <1>8
    <2>2. worker \in InLoop /\ opener # "failed" => m.st # "success"
      BY Zenon, <1>0, <1>2, <2>1 DEF AckFollows
    <2>3. chan' = chan \/ chan' = Append(chan, m)
      BY Zenon, <2>1 DEF Replies
    <2>4. chan' \in Seq(Mail)
          /\ (worker \in InLoop /\ opener # "failed" =>
                /\ Lone(chan', "success")
                /\ Holds(chan', "success") => Holds(chan, "success"))
      BY Zenon, <1>0, <1>4, <2>2, <2>3 DEF AckFollows, UpTypes
    <2>5. ServiceFollows'
      <3>1. Lone(reqs', "send")
        BY Zenon, <1>0, <1>2 DEF ServiceFollows
      <3>2. \A i \in DOMAIN reqs' : reqs'[i].st = "send" =>
              reqs'[i].n = payload /\ Len(svcGot) + 1 = payload
        BY Zenon, <1>0, <1>3 DEF ServiceFollows
      <3> QED
        BY Zenon, <1>0, <1>8, <3>1, <3>2 DEF ServiceFollows
    <2>6. AckFollows'
      BY Zenon, <1>0, <1>2, <1>8, <2>4 DEF AckFollows
    <2>7. UpTypes'
      BY Zenon, <1>0, <1>1, <1>8, <2>4 DEF UpTypes, ServiceAnswers
    <2> QED
      BY Zenon, <1>6, <2>5, <2>6, <2>7 DEF UpInv
  <1> QED
    <2> HIDE DEF q
    <2>1. \/ q.st = "open" /\ Replies(Msg("opened", 0)) /\ UNCHANGED svcGot
          \/ q.st = "open" /\ Replies(Msg("refused", 0)) /\ UNCHANGED svcGot
          \/ q.st = "send" /\ svc = "open" /\ svcGot' = Append(svcGot, q.n) /\ Replies(Msg("success", 0))
          \/ q.st = "close" /\ Replies(Msg("success", 0)) /\ UNCHANGED svcGot
          \/ Replies(Msg("error", 0)) /\ UNCHANGED svcGot
      BY Zenon DEF ServiceAnswers, q
    <2> QED
      BY Zenon, <1>5, <1>7, <1>8, <2>1

(* The application writes its next payload, or closes.                      *)
LEMMA ApplicationStep == ASSUME UpInv, Application, UNCHANGED plan PROVE UpInv'
  <1> USE DEF bridgeVars, netVars
  <1>0. UpTypes /\ OutboxFollows /\ ServiceFollows /\ AckFollows
    BY Zenon DEF UpInv
  <1>u. UNCHANGED <<plan, opener, worker, payload, queue, reqs, chan, sent, svcGot>>
    BY Zenon DEF Application
  <1>1. ServiceFollows'
    BY Zenon, <1>0, <1>u DEF ServiceFollows
  <1>2. AckFollows'
    BY Zenon, <1>0, <1>u DEF AckFollows, Application
  <1>3. UpTypes' /\ OutboxFollows'
    <2>1. CASE wrote < plan.writes /\ wrote' = wrote + 1 /\ outbox' = Append(outbox, wrote + 1)
      <3>0. plan.writes \in Nat /\ wrote \in Nat /\ payload \in Nat /\ outbox \in Seq(Nat)
        BY Zenon, <1>0, PlansAreBounded DEF UpTypes
      <3>1. /\ outbox' \in Seq(Nat) /\ Len(outbox') = Len(outbox) + 1 /\ Len(outbox) \in Nat
            /\ \A i \in 1 .. Len(outbox) : outbox'[i] = outbox[i]
            /\ outbox'[Len(outbox) + 1] = wrote + 1
        BY <2>1, <3>0, SeqAppend
      <3>2. Len(outbox) = wrote - payload /\ payload <= wrote
            /\ \A i \in 1 .. Len(outbox) : outbox[i] = payload + i
        BY Zenon, <1>0 DEF OutboxFollows
      <3>3. \A i \in 1 .. Len(outbox) + 1 : i = Len(outbox) + 1 \/ i \in 1 .. Len(outbox)
        BY <3>1
      <3>4. OutboxFollows'
        <4>1. Len(outbox') = wrote' - payload' /\ payload' <= wrote'
          BY <1>u, <2>1, <3>0, <3>1, <3>2
        <4>2. ASSUME NEW i \in 1 .. Len(outbox') PROVE outbox'[i] = payload' + i
          <5>1. CASE i \in 1 .. Len(outbox)
            BY Zenon, <1>u, <3>1, <3>2, <5>1
          <5>2. CASE i = Len(outbox) + 1
            BY <1>u, <3>0, <3>1, <3>2, <5>2
          <5> QED
            BY Zenon, <3>1, <3>3, <5>1, <5>2
        <4> QED
          BY Zenon, <4>1, <4>2 DEF OutboxFollows
      <3>5. UpTypes'
        BY <1>0, <1>u, <2>1, <3>0, <3>1 DEF UpTypes
      <3> QED
        BY Zenon, <3>4, <3>5
    <2>2. CASE UNCHANGED <<wrote, outbox>>
      BY Zenon, <1>0, <1>u, <2>2 DEF UpTypes, OutboxFollows
    <2> QED
      BY Zenon, <2>1, <2>2 DEF Application
  <1> QED
    BY Zenon, <1>1, <1>2, <1>3 DEF UpInv

(* The handler takes a reply: at most it moves the acknowledgement from the *)
(* connection to the queue.                                                 *)
LEMMA HandlerStep == ASSUME UpInv, handleStreamReply, UNCHANGED plan PROVE UpInv'
  <1> USE DEF appVars
  <1>0. UpTypes /\ OutboxFollows /\ ServiceFollows /\ AckFollows
    BY Zenon DEF UpInv
  <1>u. UNCHANGED <<plan, worker, payload, wrote, outbox, reqs, sent, svcGot>>
    BY Zenon DEF handleStreamReply
  <1> DEFINE m == Head(chan)
  <1>1. chan # <<>> /\ chan' = Tail(chan) /\ chan' \in Seq(Mail) /\ m \in Mail
    BY Zenon, <1>0, SeqHead DEF handleStreamReply, UpTypes
  <1>2. /\ Holds(chan', "success") => Holds(chan, "success")
        /\ m.st = "success" => Holds(chan, "success")
        /\ Lone(chan, "success") => Lone(chan', "success")
        /\ Lone(chan, "success") /\ m.st = "success" => ~Holds(chan', "success")
    BY Zenon, <1>0, <1>1, TailHolds DEF UpTypes
  <1>3. /\ Append(queue, m) \in Seq(Mail)
        /\ Holds(Append(queue, m), "success") <=> (Holds(queue, "success") \/ m.st = "success")
        /\ Lone(queue, "success") /\ ~(Holds(queue, "success") /\ m.st = "success") =>
             Lone(Append(queue, m), "success")
    BY <1>0, <1>1, AppendHolds, SeqAppend DEF UpTypes
  <1>4. /\ queue' = queue \/ queue' = Append(queue, m)
        /\ opener' = opener \/ (opener = "asked" /\ opener' \in {"opened", "refused"})
    BY Zenon DEF handleStreamReply
  <1> HIDE DEF m
  <1>5. AckFollows'
    BY Zenon, <1>0, <1>u, <1>2, <1>3, <1>4 DEF AckFollows
  <1>6. UpTypes' /\ OutboxFollows' /\ ServiceFollows'
    BY Zenon, <1>0, <1>u, <1>1, <1>3, <1>4 DEF UpTypes, OutboxFollows, ServiceFollows
  <1> QED
    BY Zenon, <1>5, <1>6 DEF UpInv

(* Steps of the worker that take no payload, send none and end no wait.      *)
LEMMA WorkerFrame ==
  ASSUME UpInv, UNCHANGED <<plan, opener, payload, wrote, outbox, chan, sent, svcGot>>,
         worker # "none", worker' # "none",
         \/ worker' \notin InLoop
         \/ worker = "check" /\ worker' = "recv"
         \/ worker = "mark" /\ worker' = "send",
         reqs' = reqs \/ (worker' \notin InLoop /\ reqs' = Append(reqs, Msg("close", 0))),
         queue' = queue \/ (worker' \notin InLoop /\ queue # <<>> /\ queue' = Tail(queue))
  PROVE  UpInv'
  <1>0. UpTypes /\ OutboxFollows /\ ServiceFollows /\ AckFollows
    BY Zenon DEF UpInv
  <1>1. ServiceFollows' /\ reqs' \in Seq(Mail)
    BY Zenon, ServiceFrame
  <1>2. OutboxFollows'
    BY Zenon, <1>0 DEF OutboxFollows
  <1>3. queue' \in Seq(Mail)
    BY Zenon, <1>0, SeqHead DEF UpTypes
  <1>4. UpTypes'
    BY Zenon, <1>0, <1>1, <1>3 DEF UpTypes
  <1>5. AckFollows'
    BY Zenon, <1>0 DEF AckFollows, InLoop
  <1> QED
    BY Zenon, <1>1, <1>2, <1>4, <1>5 DEF UpInv

(* The worker takes the next payload: the last one is acknowledged.         *)
LEMMA TakeStep ==
  ASSUME UpInv, UNCHANGED <<plan, opener, wrote, reqs, chan, queue, sent, svcGot>>,
         worker = "recv", worker' = "mark", outbox # <<>>,
         payload' = Head(outbox), outbox' = Tail(outbox)
  PROVE  UpInv'
  <1>0. UpTypes /\ OutboxFollows /\ ServiceFollows /\ AckFollows
    BY Zenon DEF UpInv
  <1>1. /\ Head(outbox) = outbox[1] /\ outbox' \in Seq(Nat) /\ Len(outbox) \in Nat /\ Len(outbox) > 0
        /\ Len(outbox') = Len(outbox) - 1
        /\ \A i \in 1 .. Len(outbox) - 1 : outbox'[i] = outbox[i + 1]
    BY Zenon, <1>0, SeqHead DEF UpTypes
  <1>2. wrote \in Nat /\ payload \in Nat /\ Len(svcGot) \in Nat
    BY <1>0 DEF UpTypes
  <1>3. Len(outbox) = wrote - payload /\ payload <= wrote
        /\ \A i \in 1 .. Len(outbox) : outbox[i] = payload + i
    BY Zenon, <1>0 DEF OutboxFollows
  <1>4. payload' = payload + 1 /\ Len(svcGot) = payload
    BY <1>0, <1>1, <1>2, <1>3 DEF AckFollows
  <1>5. OutboxFollows'
    <2>1. \A i \in 1 .. Len(outbox') : outbox'[i] = payload' + i
      <3>1. \A i \in 1 .. Len(outbox) - 1 : i + 1 \in 1 .. Len(outbox) /\ i \in Nat
        BY <1>1
      <3>2. \A i \in 1 .. Len(outbox) - 1 : outbox'[i] = payload + (i + 1)
        BY Zenon, <1>1, <1>3, <3>1
      <3> QED
        BY <1>1, <1>2, <1>4, <3>1, <3>2
    <2> QED
      BY <1>1, <1>2, <1>3, <1>4, <2>1 DEF OutboxFollows
  <1>6. \A i \in DOMAIN reqs : reqs[i].st # "send"
    BY <1>0, <1>2, <1>4 DEF ServiceFollows
  <1>7. ServiceFollows'
    BY <1>0, <1>2, <1>4, <1>6 DEF ServiceFollows
  <1>8. ~Holds(reqs, "send")
    BY Zenon, <1>6 DEF Holds
  <1>9. AckFollows'
    BY Zenon, <1>0, <1>2, <1>4, <1>8 DEF AckFollows, InLoop
  <1>10. UpTypes'
    BY <1>0, <1>1, <1>2, <1>4 DEF UpTypes
  <1> QED
    BY Zenon, <1>5, <1>7, <1>9, <1>10 DEF UpInv

(* The worker sends the payload.                                            *)
LEMMA SendStep ==
  ASSUME UpInv, UNCHANGED <<plan, opener, payload, wrote, outbox, chan, queue, sent, svcGot>>,
         worker = "send", worker' = "wait", reqs' = Append(reqs, Msg("send", payload))
  PROVE  UpInv'
  <1>0. UpTypes /\ OutboxFollows /\ ServiceFollows /\ AckFollows
    BY Zenon DEF UpInv
  <1> DEFINE m == Msg("send", payload)
  <1>1. m \in Mail /\ m.st = "send" /\ m.n = payload
    BY Zenon, <1>0 DEF Msg, Mail, Kind, UpTypes
  <1> HIDE DEF m
  <1>r. reqs' = Append(reqs, m) /\ reqs \in Seq(Mail)
    BY Zenon, <1>0 DEF m, UpTypes
  <1>2. /\ reqs' \in Seq(Mail) /\ Len(reqs') = Len(reqs) + 1 /\ Len(reqs) \in Nat
        /\ \A i \in 1 .. Len(reqs) : reqs'[i] = reqs[i]
        /\ reqs'[Len(reqs) + 1] = m
    BY <1>1, <1>r, SeqAppend
  <1>3. ~Holds(reqs, "send") /\ Len(svcGot) + 1 = payload
    BY Zenon, <1>0 DEF AckFollows
  <1>4. Lone(reqs', "send") /\ (Holds(reqs', "close") <=> Holds(reqs, "close"))
    BY <1>0, <1>1, <1>r, <1>3, AppendHolds DEF ServiceFollows
  <1>5. \A i \in DOMAIN reqs' : reqs'[i].st = "send" => reqs'[i].n = payload
    <2>1. DOMAIN reqs' = 1 .. Len(reqs) + 1 /\ DOMAIN reqs = 1 .. Len(reqs)
      BY <1>r, <1>2
    <2>2. \A i \in DOMAIN reqs' : i = Len(reqs) + 1 \/ i \in DOMAIN reqs
      BY <1>2, <2>1
    <2>3. \A i \in DOMAIN reqs : reqs[i].st # "send"
      BY Zenon, <1>3 DEF Holds
    <2> QED
      BY Zenon, <1>1, <1>2, <2>1, <2>2, <2>3
  <1>6. ServiceFollows'
    BY Zenon, <1>0, <1>3, <1>4, <1>5 DEF ServiceFollows
  <1>7. AckFollows'
    BY Zenon, <1>0, <1>4 DEF AckFollows, InLoop
  <1>8. UpTypes' /\ OutboxFollows'
    BY Zenon, <1>0, <1>2 DEF UpTypes, OutboxFollows
  <1> QED
    BY Zenon, <1>6, <1>7, <1>8 DEF UpInv

(* The acknowledgement it waited for is the payload's, and the only one.    *)
LEMMA AckStep ==
  ASSUME UpInv, UNCHANGED <<plan, opener, payload, wrote, outbox, reqs, chan, sent, svcGot>>,
         worker = "wait", worker' = "check",
         queue # <<>>, Head(queue).st = "success", queue' = Tail(queue)
  PROVE  UpInv'
  <1>0. UpTypes /\ OutboxFollows /\ ServiceFollows /\ AckFollows
    BY Zenon DEF UpInv
  <1>1. opener = "done"
    BY Zenon, <1>0 DEF AckFollows
  <1>2. /\ Holds(queue, "success")
        /\ Lone(queue, "success") => Lone(queue', "success") /\ ~Holds(queue', "success")
        /\ queue' \in Seq(Mail)
    BY Zenon, <1>0, TailHolds, SeqHead DEF UpTypes
  <1>3. AckFollows'
    BY Zenon, <1>0, <1>1, <1>2 DEF AckFollows, InLoop
  <1>4. UpTypes' /\ OutboxFollows' /\ ServiceFollows'
    BY Zenon, <1>0, <1>2 DEF UpTypes, OutboxFollows, ServiceFollows
  <1> QED
    BY Zenon, <1>3, <1>4 DEF UpInv

(* Every step keeps the invariant of the upward direction.                 *)
LEMMA UpNext == UpInv /\ [Next]_vars => UpInv'
  <1> SUFFICES ASSUME UpInv, [Next]_vars PROVE UpInv'
    BY Zenon
  <1>1. CASE UNCHANGED vars
    <2>1. Bystander
      BY Zenon, <1>1 DEF vars, bridgeVars, appVars, netVars, Bystander, UpInv, UpTypes
    <2> QED
      BY Zenon, <2>1, BystanderStep
  <1> SUFFICES ASSUME Next PROVE UpInv'
    BY Zenon, <1>1
  <1>p. UNCHANGED plan
    BY Zenon DEF Next
  <1>2. CASE \/ Lose \/ Reconnect \/ RequestStream \/ OpenReturns \/ AcceptReturns
             \/ attachNativeStreamBridge \/ FillBuffered \/ listenTCPSocket
             \/ runNativeListenSocketBridge
             \/ HandlerWrites \/ stopNativeListenBridgesForNode \/ stopNativeSocketBridgesForNode
    BY Zenon, <1>2, <1>p, BystanderActions, BystanderStep
  <1>3. CASE Service
    <2>1. UNCHANGED <<opener, worker, payload, bridgeVars, appVars>>
      BY Zenon, <1>3 DEF Service
    <2>2. CASE ServiceAnswers
      BY Zenon, <1>p, <2>1, <2>2, AnswerStep
    <2>3. CASE ServicePushes
      BY Zenon, <1>p, <2>1, <2>3, BystanderActions, BystanderStep
    <2> QED
      BY Zenon, <1>3, <2>2, <2>3 DEF Service
  <1>4. CASE Application
    BY Zenon, <1>4, <1>p, ApplicationStep
  <1>5. CASE handleStreamReply
    BY Zenon, <1>5, <1>p, HandlerStep
  <1>6. CASE startNativeStreamBridgeWorker
    <2>1. UNCHANGED <<payload, wrote, outbox, reqs, chan, queue, sent, svcGot>>
          /\ opener = "fill" /\ opener' = "done" /\ worker' = "check"
      BY Zenon, <1>6 DEF startNativeStreamBridgeWorker, bridgeVars, appVars, netVars
    <2>2. UpTypes' /\ OutboxFollows' /\ ServiceFollows'
      BY Zenon, <1>p, <2>1 DEF UpInv, UpTypes, OutboxFollows, ServiceFollows
    <2>3. AckFollows'
      BY Zenon, <2>1 DEF UpInv, AckFollows, InLoop
    <2> QED
      BY Zenon, <2>2, <2>3 DEF UpInv
  <1>7. CASE runNativeStreamBridge
    <2>u. UNCHANGED <<plan, opener, wrote, chan, sent, svcGot>>
      BY Zenon, <1>p, <1>7 DEF runNativeStreamBridge
    <2>1. CASE WorkerChecks \/ WorkerCloses \/ streamClose \/ CloseReturns
      BY Zenon, <2>u, <2>1, WorkerFrame DEF WorkerChecks, WorkerCloses, streamClose, CloseReturns, Goes,
         bridgeVars, InLoop
    <2>2. CASE WorkerReceives
      BY Zenon, <2>u, <2>2, WorkerFrame, TakeStep DEF WorkerReceives, Goes, bridgeVars, InLoop
    <2>3. CASE streamSend
      BY Zenon, <2>u, <2>3, WorkerFrame, SendStep DEF streamSend, Goes, InLoop
    <2>4. CASE SendReturns
      BY Zenon, <2>u, <2>4, WorkerFrame, AckStep DEF SendReturns, Goes, InLoop
    <2> QED
      BY Zenon, <1>7, <2>1, <2>2, <2>3, <2>4 DEF runNativeStreamBridge
  <1> QED
    BY Zenon, <1>2, <1>3, <1>4, <1>5, <1>6, <1>7 DEF Next, Opener, Handler, Stopper, OpenStream, connectTCPSocket, connectSshdSocket,
       connectHttpSocket, acceptTCPSocket, acceptTCPEx
-----------------------------------------------------------------------------
(* The payloads written so far, one more and none at all.                   *)
LEMMA PayloadsGrow ==
  ASSUME NEW n \in Nat
  PROVE  /\ Payloads(n) \in Seq(Nat) /\ Len(Payloads(n)) = n
         /\ Payloads(n + 1) = Append(Payloads(n), n + 1)
         /\ Payloads(0) = <<>>
  <1>1. Payloads(n) \in Seq(Nat) /\ Len(Payloads(n)) = n
        /\ Payloads(n + 1) \in Seq(Nat) /\ Len(Payloads(n + 1)) = n + 1
    BY DEF Payloads
  <1>2. Payloads(n + 1) = Append(Payloads(n), n + 1)
    BY <1>1 DEF Payloads
  <1> QED
    BY <1>1, <1>2 DEF Payloads

(* A step of the bridge is a step of the pipe or none at all.               *)
LEMMA PipeStep == UpInv /\ [Next]_vars => [Up!Next]_<<Payloads(wrote), svcGot>>
  <1> SUFFICES ASSUME UpInv, [Next]_vars PROVE [Up!Next]_<<Payloads(wrote), svcGot>>
    BY Zenon
  <1> USE DEF bridgeVars, appVars, netVars
  <1>0. UpTypes /\ OutboxFollows /\ ServiceFollows
    BY Zenon DEF UpInv
  <1>1. CASE UNCHANGED <<wrote, svcGot>>
    BY Zenon, <1>1
  <1>2. CASE Application /\ UNCHANGED plan /\ wrote' # wrote
    <2>1. wrote' = wrote + 1 /\ wrote < plan.writes /\ UNCHANGED svcGot
      BY Zenon, <1>2 DEF Application
    <2>2. wrote \in Nat /\ plan \in Plans /\ plan.writes \in Nat
      BY Zenon, <1>0, PlansAreBounded DEF UpTypes
    <2>3. wrote + 1 \in UNION {1 .. p.writes : p \in Plans}
      <3>1. wrote + 1 \in 1 .. plan.writes
        BY <2>1, <2>2
      <3> QED
        BY Zenon, <2>2, <3>1
    <2>4. Payloads(wrote)' = Append(Payloads(wrote), wrote + 1)
      BY Zenon, <2>1, <2>2, PayloadsGrow
    <2>5. Up!Write
      BY Zenon, <2>1, <2>3, <2>4 DEF Up!Write
    <2> QED
      BY Zenon, <2>5 DEF Up!Next
  <1>3. CASE Service /\ UNCHANGED plan /\ svcGot' # svcGot
    <2>1. UNCHANGED wrote
      BY Zenon, <1>3 DEF Service
    <2>2. reqs # <<>> /\ Head(reqs).st = "send" /\ svcGot' = Append(svcGot, Head(reqs).n)
      BY Zenon, <1>3 DEF Service, ServiceAnswers, ServicePushes
    <2>3. 1 \in DOMAIN reqs /\ Head(reqs) = reqs[1]
      BY <1>0, <2>2, SeqHead DEF UpTypes
    <2>4. Head(reqs).n = payload /\ Len(svcGot) + 1 = payload
      BY Zenon, <1>0, <2>2, <2>3 DEF ServiceFollows
    <2>5. payload <= wrote /\ payload \in Nat /\ wrote \in Nat /\ Len(svcGot) \in Nat
      BY <1>0 DEF OutboxFollows, UpTypes
    <2>6. Len(svcGot) < Len(Payloads(wrote))
      BY SMTT(30), <2>4, <2>5, PayloadsGrow
    <2>7. Payloads(wrote)[Len(svcGot) + 1] = Head(reqs).n
      BY <2>4, <2>5 DEF Payloads
    <2>8. Up!Deliver
      BY Zenon, <2>1, <2>2, <2>6, <2>7 DEF Up!Deliver
    <2> QED
      BY Zenon, <2>8 DEF Up!Next
  <1>4. CASE Next
    <2>1. CASE Application \/ Service
      BY Zenon, <1>1, <1>2, <1>3, <1>4, <2>1 DEF Next, Application, Service
    <2>2. CASE ~(Application \/ Service)
      <3>1. UNCHANGED <<wrote, svcGot>>
        BY Zenon, <1>4, <2>2 DEF Next, Lose, Reconnect, OpenStream, connectTCPSocket, connectSshdSocket,
           connectHttpSocket, acceptTCPSocket, acceptTCPEx,
           RequestStream, listenTCPSocket, Opener, OpenReturns,
           AcceptReturns, attachNativeStreamBridge, FillBuffered, startNativeStreamBridgeWorker,
           runNativeListenSocketBridge, Handler, handleStreamReply, HandlerWrites,
           runNativeStreamBridge, stopNativeListenBridgesForNode, Stopper,
           stopNativeSocketBridgesForNode, StopBridge
      <3> QED
        BY Zenon, <1>1, <3>1
    <2> QED
      BY Zenon, <2>1, <2>2
  <1> QED
    BY Zenon, <1>1, <1>4 DEF vars

(* The bridge implements the pipe: whatever sends fail, time out or are     *)
(* lost with their connection, the payloads reach the service in the order  *)
(* in which the application wrote them, none twice and none left out before *)
(* a later one.                                                             *)
THEOREM BridgeImplementsPipe == Spec => PayloadsInOrder
  <1>1. Init => Up!Init
    BY Zenon, PayloadsGrow DEF Init, Up!Init
  <1> QED
    BY <1>1, UpInit, UpNext, PipeStep, PTL DEF Spec, PayloadsInOrder, Up!Spec
-----------------------------------------------------------------------------
(* Data on their way down.  The messages that carry data carry one of the   *)
(* numbers the service gives them.                                          *)
Post == {m \in Message : m.st = "data" => m.n \in 1 .. plan.data}

Counts ==
  /\ plan.data \in Nat /\ plan.writes \in Nat /\ plan.losses \in Nat
  /\ sent \in 0 .. plan.data /\ losses \in 0 .. plan.losses

Stages ==
  /\ opener \in {"idle", "asked", "opened", "refused", "attach", "fill", "done", "failed"}
  /\ listener \in {"off", "opening", "accept", "closing", "done"}
  /\ worker \in {"none", "check", "recv", "mark", "send", "wait", "closing", "cmark", "csend",
                 "cwait", "done"}
  /\ stopper \in {"idle", "listen", "stop", "join", "done"}
  /\ sock \in {"open", "closed"} /\ link \in {"up", "down"} /\ svc \in {"none", "open", "closed"}

Switches ==
  /\ registered \in BOOLEAN /\ awaited \in BOOLEAN /\ route \in BOOLEAN /\ stopping \in BOOLEAN
  /\ remoteClosed \in BOOLEAN /\ appOpen \in BOOLEAN /\ gaveUp \in BOOLEAN /\ lstop \in BOOLEAN

Control == Counts /\ Stages /\ Switches

Parcels ==
  /\ hand \in Post /\ reqs \in Seq(Message)
  /\ chan \in Seq(Post) /\ queue \in Seq(Post) /\ buffered \in Seq(Post)
  /\ inbox \in Seq(1 .. plan.data)

(* The numbers of the data in a sequence of replies, and that none of them   *)
(* is in it twice.                                                          *)
Has(q, n) == \E i \in DOMAIN q : q[i] = Msg("data", n)
Single(q) == \A i, j \in DOMAIN q : q[i] = q[j] /\ q[i].st = "data" => i = j
Got(n) == \E i \in DOMAIN inbox : inbox[i] = n

(* Before the bridge is attached the queue is everybody's; from then on the  *)
(* handler keeps the data out of it, and only the attaching thread has what  *)
(* was in it.  The worker, which takes from the queue, starts later.         *)
Attached ==
  /\ link = "down" => losses > 0
  /\ buffered # <<>> => opener = "fill"
  /\ opener \in {"fill", "done"} /\ stopper = "idle" =>
       registered /\ \A n \in Nat : ~Has(queue, n)

Undisturbed == losses = 0 /\ ~stopping /\ opener # "failed" /\ stopper = "idle"

(* Every stage has a number at most once, and a number is in one stage: in   *)
(* exactly one if the service sent it.                                       *)
Apart ==
  /\ Single(chan) /\ Single(queue) /\ Single(buffered)
  /\ \A i, j \in DOMAIN inbox : inbox[i] = inbox[j] => i = j
  /\ \A n \in Nat :
       /\ n \in 1 .. sent <=> \/ Has(chan, n) \/ Has(queue, n) \/ Has(buffered, n)
                              \/ hand = Msg("data", n) \/ Got(n)
       /\ Has(chan, n) => ~Has(queue, n) /\ ~Has(buffered, n) /\ hand # Msg("data", n) /\ ~Got(n)
       /\ Has(queue, n) => ~Has(buffered, n) /\ hand # Msg("data", n) /\ ~Got(n)
       /\ Has(buffered, n) => hand # Msg("data", n) /\ ~Got(n)
       /\ hand = Msg("data", n) => ~Got(n)

DownInv == UpInv /\ Control /\ Parcels /\ Attached /\ (Undisturbed => Apart)
-----------------------------------------------------------------------------
(* What an empty, a shorter and a longer sequence of replies have.           *)
LEMMA EmptyHas == Single(<<>>) /\ \A n : ~Has(<<>>, n)
  BY DEF Single, Has

(* Taking the head of a queue takes that data reply and no other.          *)
LEMMA TailHas ==
  ASSUME NEW S, NEW q \in Seq(S), q # <<>>
  PROVE  /\ \A n : Has(Tail(q), n) => Has(q, n)
         /\ \A n : Head(q) = Msg("data", n) => Has(q, n)
         /\ \A n : Has(q, n) => Has(Tail(q), n) \/ Head(q) = Msg("data", n)
         /\ Single(q) => Single(Tail(q))
         /\ \A n : Single(q) /\ Head(q) = Msg("data", n) => ~Has(Tail(q), n)
  <1> DEFINE t == Tail(q)
             L == Len(q)
  <1>1. /\ Head(q) = q[1] /\ L \in Nat /\ L > 0 /\ Len(t) = L - 1 /\ t \in Seq(S)
        /\ \A i \in 1 .. L - 1 : t[i] = q[i + 1]
    BY Zenon, SeqHead
  <1>2. DOMAIN t = 1 .. L - 1 /\ DOMAIN q = 1 .. L
    BY <1>1
  <1>3. /\ 1 \in DOMAIN q
        /\ \A i \in DOMAIN t : i + 1 \in DOMAIN q /\ t[i] = q[i + 1] /\ i \in Nat /\ i + 1 # 1
        /\ \A i \in DOMAIN q : i = 1 \/ (i - 1 \in DOMAIN t /\ t[i - 1] = q[i])
    BY <1>1, <1>2
  <1>m. \A n : Msg("data", n).st = "data"
    BY Zenon DEF Msg
  <1> HIDE DEF t, L
  <1>4. /\ \A n : Has(t, n) => Has(q, n)
        /\ \A n : Head(q) = Msg("data", n) => Has(q, n)
        /\ \A n : Has(q, n) => Has(t, n) \/ Head(q) = Msg("data", n)
    <2>1. ASSUME NEW n, Has(t, n) PROVE Has(q, n)
      BY ZenonT(30), <1>3, <2>1 DEF Has
    <2>2. ASSUME NEW n, Head(q) = Msg("data", n) PROVE Has(q, n)
      BY Zenon, <1>1, <1>3, <2>2 DEF Has
    <2>3. ASSUME NEW n, Has(q, n) PROVE Has(t, n) \/ Head(q) = Msg("data", n)
      BY ZenonT(30), <1>1, <1>3, <2>3 DEF Has
    <2> QED
      BY Zenon, <2>1, <2>2, <2>3
  <1>5. Single(q) => Single(t)
    <2>1. SUFFICES ASSUME Single(q), NEW i \in DOMAIN t, NEW j \in DOMAIN t,
                          t[i] = t[j], t[i].st = "data"
                   PROVE  i = j
      BY Zenon DEF Single
    <2>2. /\ i + 1 \in DOMAIN q /\ j + 1 \in DOMAIN q /\ i \in Nat /\ j \in Nat
          /\ q[i + 1] = q[j + 1] /\ q[i + 1].st = "data"
      BY Zenon, <1>3, <2>1
    <2>3. i + 1 = j + 1
      BY Zenon, <2>1, <2>2 DEF Single
    <2> QED
      BY <2>2, <2>3
  <1>6. ASSUME NEW n, Single(q), Head(q) = Msg("data", n), Has(t, n)
        PROVE  FALSE
    <2>1. PICK i \in DOMAIN t : t[i] = Msg("data", n)
      BY Zenon, <1>6 DEF Has
    <2>2. q[i + 1] = q[1] /\ q[1].st = "data" /\ i + 1 \in DOMAIN q /\ i + 1 # 1
      BY SMTT(30), <1>1, <1>3, <1>6, <1>m, <2>1
    <2> QED
      BY Zenon, <1>3, <1>6, <2>2 DEF Single
  <1> QED
    BY Zenon, <1>4, <1>5, <1>6 DEF t

(* Appending to a queue adds that data reply and no other.                 *)
LEMMA AppendHas ==
  ASSUME NEW S, NEW q \in Seq(S), NEW m \in S
  PROVE  /\ \A n : Has(Append(q, m), n) <=> (Has(q, n) \/ m = Msg("data", n))
         /\ m.st # "data" /\ Single(q) => Single(Append(q, m))
         /\ \A n : m = Msg("data", n) /\ Single(q) /\ ~Has(q, n) => Single(Append(q, m))
  <1> DEFINE a == Append(q, m)
             L == Len(q)
  <1>1. /\ a \in Seq(S) /\ Len(a) = L + 1 /\ L \in Nat
        /\ \A i \in 1 .. L : a[i] = q[i]
        /\ a[L + 1] = m
    BY Zenon, SeqAppend
  <1>2. DOMAIN a = 1 .. L + 1 /\ DOMAIN q = 1 .. L
    BY <1>1
  <1>3. /\ L + 1 \in DOMAIN a
        /\ \A i \in DOMAIN q : i \in DOMAIN a /\ a[i] = q[i]
        /\ \A i \in DOMAIN a : i = L + 1 \/ i \in DOMAIN q
    BY <1>1, <1>2
  <1> HIDE DEF a, L
  <1>4. \A n : Has(a, n) <=> (Has(q, n) \/ m = Msg("data", n))
    BY Zenon, <1>1, <1>3 DEF Has
  <1>5. m.st # "data" /\ Single(q) => Single(a)
    BY ZenonT(30), <1>1, <1>3 DEF Single
  <1>6. \A n : m = Msg("data", n) /\ Single(q) /\ ~Has(q, n) => Single(a)
    BY ZenonT(30), <1>1, <1>3 DEF Single, Has
  <1> QED
    BY Zenon, <1>4, <1>5, <1>6 DEF a

(* One more number in the application's socket.                             *)
LEMMA AppendGot ==
  ASSUME NEW S, inbox \in Seq(S), NEW k \in S, inbox' = Append(inbox, k)
  PROVE  /\ \A n : Got(n)' <=> (Got(n) \/ n = k)
         /\ ~Got(k) /\ (\A i, j \in DOMAIN inbox : inbox[i] = inbox[j] => i = j)
              => \A i, j \in DOMAIN inbox' : inbox'[i] = inbox'[j] => i = j
  <1> DEFINE L == Len(inbox)
  <1>1. /\ inbox' \in Seq(S) /\ Len(inbox') = L + 1 /\ L \in Nat
        /\ \A i \in 1 .. L : inbox'[i] = inbox[i]
        /\ inbox'[L + 1] = k
    BY SeqAppend
  <1>2. DOMAIN inbox' = 1 .. L + 1 /\ DOMAIN inbox = 1 .. L
    BY <1>1
  <1>3. /\ L + 1 \in DOMAIN inbox'
        /\ \A i \in DOMAIN inbox : i \in DOMAIN inbox' /\ inbox'[i] = inbox[i]
        /\ \A i \in DOMAIN inbox' : i = L + 1 \/ i \in DOMAIN inbox
    BY <1>1, <1>2
  <1> HIDE DEF L
  <1> QED
    BY <1>1, <1>3 DEF Got
-----------------------------------------------------------------------------
(* The initial states satisfy the invariant of the downward direction.     *)
LEMMA DownInit == Init => DownInv
  <1> SUFFICES ASSUME Init PROVE DownInv
    BY Zenon
  <1>1. UpInv
    BY Zenon, UpInit
  <1>2. Control
    <2>1. Counts
      BY PlansAreBounded DEF Init, Counts
    <2>2. Stages
      BY Zenon DEF Init, Stages
    <2>3. Switches
      BY Zenon DEF Init, Switches
    <2> QED
      BY Zenon, <2>1, <2>2, <2>3 DEF Control
  <1>3. Parcels
    <2>1. Nothing \in Post
      BY <1>2 DEF Nothing, Post, Message, Control, Counts
    <2> QED
      BY <2>1 DEF Init, Parcels
  <1>4. Attached
    BY Zenon, EmptyHas DEF Init, Attached
  <1>5. Apart
    <2>1. \A n : Nothing # Msg("data", n)
      BY Zenon DEF Nothing, Msg
    <2>2. hand = Nothing /\ sent = 0 /\ inbox = <<>> /\ chan = <<>> /\ queue = <<>> /\ buffered = <<>>
      BY Zenon DEF Init
    <2> QED
      BY <2>1, <2>2, EmptyHas DEF Apart, Got
  <1> QED
    BY Zenon, <1>1, <1>2, <1>3, <1>4, <1>5 DEF DownInv

(* The counters keep their bounds.                                          *)
LEMMA CountsNext == ASSUME Control, [Next]_vars PROVE Counts'
  <1> USE DEF bridgeVars, appVars, netVars, Counts
  <1>0. Counts
    BY Zenon DEF Control
  <1>1. CASE UNCHANGED vars
    BY Zenon, <1>0, <1>1 DEF vars
  <1> SUFFICES ASSUME Next PROVE Counts'
    BY Zenon, <1>1
  <1>p. plan' = plan
    BY Zenon DEF Next
  <1>2. CASE Lose \/ Reconnect
    BY <1>0, <1>p, <1>2 DEF Lose, Reconnect
  <1>3. CASE Service /\ ServiceAnswers
    BY Zenon, <1>0, <1>p, <1>3 DEF Service, ServiceAnswers
  <1>4. CASE Service /\ ServicePushes
    BY <1>0, <1>p, <1>4 DEF Service, ServicePushes
  <1>5. CASE Application
    BY Zenon, <1>0, <1>p, <1>5 DEF Application
  <1>6. CASE OpenStream
    BY Zenon, <1>0, <1>p, <1>6 DEF OpenStream, connectTCPSocket, connectSshdSocket,
       connectHttpSocket, acceptTCPSocket, acceptTCPEx, RequestStream
  <1>7. CASE OpenReturns
    BY Zenon, <1>0, <1>p, <1>7 DEF OpenReturns
  <1>8. CASE AcceptReturns
    BY Zenon, <1>0, <1>p, <1>8 DEF AcceptReturns
  <1>9. CASE attachNativeStreamBridge \/ startNativeStreamBridgeWorker
    BY Zenon, <1>0, <1>p, <1>9 DEF attachNativeStreamBridge, startNativeStreamBridgeWorker
  <1>10. CASE FillBuffered
    BY Zenon, <1>0, <1>p, <1>10 DEF FillBuffered, WriteOrClose
  <1>11. CASE listenTCPSocket \/ runNativeListenSocketBridge
    BY Zenon, <1>0, <1>p, <1>11 DEF listenTCPSocket, runNativeListenSocketBridge
  <1>12. CASE handleStreamReply
    BY Zenon, <1>0, <1>p, <1>12 DEF handleStreamReply
  <1>13. CASE HandlerWrites
    BY Zenon, <1>0, <1>p, <1>13 DEF HandlerWrites, WriteOrClose
  <1>14. CASE stopNativeListenBridgesForNode
    BY Zenon, <1>0, <1>p, <1>14 DEF stopNativeListenBridgesForNode
  <1>15. CASE stopNativeSocketBridgesForNode
    BY Zenon, <1>0, <1>p, <1>15 DEF stopNativeSocketBridgesForNode, StopBridge
  <1>16. CASE runNativeStreamBridge
    <2>u. UNCHANGED <<opener, buffered, listener, lstop, hand, stopper, appOpen, wrote, inbox,
                      link, losses, chan, svc, sent, svcGot>>
      BY Zenon, <1>16 DEF runNativeStreamBridge
    <2>1. CASE WorkerChecks
      BY Zenon, <1>0, <1>p, <2>u, <2>1 DEF WorkerChecks, Goes
    <2>2. CASE WorkerReceives
      BY Zenon, <1>0, <1>p, <2>u, <2>2 DEF WorkerReceives, Goes
    <2>3. CASE streamSend
      BY Zenon, <1>0, <1>p, <2>u, <2>3 DEF streamSend, Goes
    <2>4. CASE SendReturns
      BY Zenon, <1>0, <1>p, <2>u, <2>4 DEF SendReturns, Goes
    <2>5. CASE WorkerCloses
      BY Zenon, <1>0, <1>p, <2>u, <2>5 DEF WorkerCloses, Goes
    <2>6. CASE streamClose
      BY Zenon, <1>0, <1>p, <2>u, <2>6 DEF streamClose, Goes
    <2>7. CASE CloseReturns
      BY Zenon, <1>0, <1>p, <2>u, <2>7 DEF CloseReturns, Goes
    <2> QED
      BY Zenon, <1>16, <2>1, <2>2, <2>3, <2>4, <2>5, <2>6, <2>7 DEF runNativeStreamBridge
  <1> QED
    BY Zenon, <1>2, <1>3, <1>4, <1>5, <1>6, <1>7, <1>8, <1>9, <1>10, <1>11, <1>12, <1>13, <1>14, <1>15, <1>16
       DEF Next, Opener, Handler, Stopper, Service

(* Every thread is at one of its places.                                    *)
LEMMA StagesNext == ASSUME Control, [Next]_vars PROVE Stages'
  <1> USE DEF bridgeVars, appVars, netVars, Stages
  <1>0. Stages
    BY Zenon DEF Control
  <1>1. CASE UNCHANGED vars
    BY <1>0, <1>1 DEF vars
  <1> SUFFICES ASSUME Next PROVE Stages'
    BY Zenon, <1>1
  <1>p. plan' = plan
    BY Zenon DEF Next
  <1>2. CASE Lose \/ Reconnect
    BY Zenon, <1>0, <1>p, <1>2 DEF Lose, Reconnect
  <1>3. CASE Service /\ ServiceAnswers
    BY <1>0, <1>p, <1>3 DEF Service, ServiceAnswers
  <1>4. CASE Service /\ ServicePushes
    BY <1>0, <1>p, <1>4 DEF Service, ServicePushes
  <1>5. CASE Application
    BY <1>0, <1>p, <1>5 DEF Application
  <1>6. CASE OpenStream
    BY Zenon, <1>0, <1>p, <1>6 DEF OpenStream, connectTCPSocket, connectSshdSocket,
       connectHttpSocket, acceptTCPSocket, acceptTCPEx, RequestStream
  <1>7. CASE OpenReturns
    BY ZenonT(30), <1>0, <1>p, <1>7 DEF OpenReturns
  <1>8. CASE AcceptReturns
    BY <1>0, <1>p, <1>8 DEF AcceptReturns
  <1>9. CASE attachNativeStreamBridge \/ startNativeStreamBridgeWorker
    BY Zenon, <1>0, <1>p, <1>9 DEF attachNativeStreamBridge, startNativeStreamBridgeWorker
  <1>10. CASE FillBuffered
    BY <1>0, <1>p, <1>10 DEF FillBuffered, WriteOrClose
  <1>11. CASE listenTCPSocket \/ runNativeListenSocketBridge
    BY Zenon, <1>0, <1>p, <1>11 DEF listenTCPSocket, runNativeListenSocketBridge
  <1>12. CASE handleStreamReply
    BY <1>0, <1>p, <1>12 DEF handleStreamReply
  <1>13. CASE HandlerWrites
    BY <1>0, <1>p, <1>13 DEF HandlerWrites, WriteOrClose
  <1>14. CASE stopNativeListenBridgesForNode
    BY <1>0, <1>p, <1>14 DEF stopNativeListenBridgesForNode
  <1>15. CASE stopNativeSocketBridgesForNode
    BY <1>0, <1>p, <1>15 DEF stopNativeSocketBridgesForNode, StopBridge
  <1>16. CASE runNativeStreamBridge
    <2>u. UNCHANGED <<opener, buffered, listener, lstop, hand, stopper, appOpen, wrote, inbox,
                      link, losses, chan, svc, sent, svcGot>>
      BY Zenon, <1>16 DEF runNativeStreamBridge
    <2>1. CASE WorkerChecks
      BY <1>0, <1>p, <2>u, <2>1 DEF WorkerChecks, Goes
    <2>2. CASE WorkerReceives
      BY <1>0, <1>p, <2>u, <2>2 DEF WorkerReceives, Goes
    <2>3. CASE streamSend
      BY <1>0, <1>p, <2>u, <2>3 DEF streamSend, Goes
    <2>4. CASE SendReturns
      BY <1>0, <1>p, <2>u, <2>4 DEF SendReturns, Goes
    <2>5. CASE WorkerCloses
      BY ZenonT(30), <1>0, <1>p, <2>u, <2>5 DEF WorkerCloses, Goes
    <2>6. CASE streamClose
      BY <1>0, <1>p, <2>u, <2>6 DEF streamClose, Goes
    <2>7. CASE CloseReturns
      BY <1>0, <1>p, <2>u, <2>7 DEF CloseReturns, Goes
    <2> QED
      BY Zenon, <1>16, <2>1, <2>2, <2>3, <2>4, <2>5, <2>6, <2>7 DEF runNativeStreamBridge
  <1> QED
    BY Zenon, <1>2, <1>3, <1>4, <1>5, <1>6, <1>7, <1>8, <1>9, <1>10, <1>11, <1>12, <1>13, <1>14, <1>15, <1>16
       DEF Next, Opener, Handler, Stopper, Service

(* The flags are flags.                                                     *)
LEMMA SwitchesNext == ASSUME Control, [Next]_vars PROVE Switches'
  <1> USE DEF bridgeVars, appVars, netVars, Switches
  <1>0. Switches
    BY Zenon DEF Control
  <1>1. CASE UNCHANGED vars
    BY Zenon, <1>0, <1>1 DEF vars
  <1> SUFFICES ASSUME Next PROVE Switches'
    BY Zenon, <1>1
  <1>p. plan' = plan
    BY Zenon DEF Next
  <1>2. CASE Lose \/ Reconnect
    BY ZenonT(30), <1>0, <1>p, <1>2 DEF Lose, Reconnect
  <1>3. CASE Service /\ ServiceAnswers
    BY Zenon, <1>0, <1>p, <1>3 DEF Service, ServiceAnswers
  <1>4. CASE Service /\ ServicePushes
    BY Zenon, <1>0, <1>p, <1>4 DEF Service, ServicePushes
  <1>5. CASE Application
    BY Zenon, <1>0, <1>p, <1>5 DEF Application
  <1>6. CASE OpenStream
    BY Zenon, <1>0, <1>p, <1>6 DEF OpenStream, connectTCPSocket, connectSshdSocket,
       connectHttpSocket, acceptTCPSocket, acceptTCPEx, RequestStream
  <1>7. CASE OpenReturns
    BY Zenon, <1>0, <1>p, <1>7 DEF OpenReturns
  <1>8. CASE AcceptReturns
    BY Zenon, <1>0, <1>p, <1>8 DEF AcceptReturns
  <1>9. CASE attachNativeStreamBridge \/ startNativeStreamBridgeWorker
    BY ZenonT(30), <1>0, <1>p, <1>9 DEF attachNativeStreamBridge, startNativeStreamBridgeWorker
  <1>10. CASE FillBuffered
    BY Zenon, <1>0, <1>p, <1>10 DEF FillBuffered, WriteOrClose
  <1>11. CASE listenTCPSocket \/ runNativeListenSocketBridge
    BY ZenonT(30), <1>0, <1>p, <1>11 DEF listenTCPSocket, runNativeListenSocketBridge
  <1>12. CASE handleStreamReply
    BY Zenon, <1>0, <1>p, <1>12 DEF handleStreamReply
  <1>13. CASE HandlerWrites
    BY Zenon, <1>0, <1>p, <1>13 DEF HandlerWrites, WriteOrClose
  <1>14. CASE stopNativeListenBridgesForNode
    BY Zenon, <1>0, <1>p, <1>14 DEF stopNativeListenBridgesForNode
  <1>15. CASE stopNativeSocketBridgesForNode
    BY Zenon, <1>0, <1>p, <1>15 DEF stopNativeSocketBridgesForNode, StopBridge
  <1>16. CASE runNativeStreamBridge
    <2>u. UNCHANGED <<opener, buffered, listener, lstop, hand, stopper, appOpen, wrote, inbox,
                      link, losses, chan, svc, sent, svcGot>>
      BY Zenon, <1>16 DEF runNativeStreamBridge
    <2>1. CASE WorkerChecks
      BY Zenon, <1>0, <1>p, <2>u, <2>1 DEF WorkerChecks, Goes
    <2>2. CASE WorkerReceives
      BY Zenon, <1>0, <1>p, <2>u, <2>2 DEF WorkerReceives, Goes
    <2>3. CASE streamSend
      BY Zenon, <1>0, <1>p, <2>u, <2>3 DEF streamSend, Goes
    <2>4. CASE SendReturns
      BY Zenon, <1>0, <1>p, <2>u, <2>4 DEF SendReturns, Goes
    <2>5. CASE WorkerCloses
      BY Zenon, <1>0, <1>p, <2>u, <2>5 DEF WorkerCloses, Goes
    <2>6. CASE streamClose
      BY Zenon, <1>0, <1>p, <2>u, <2>6 DEF streamClose, Goes
    <2>7. CASE CloseReturns
      BY Zenon, <1>0, <1>p, <2>u, <2>7 DEF CloseReturns, Goes
    <2> QED
      BY Zenon, <1>16, <2>1, <2>2, <2>3, <2>4, <2>5, <2>6, <2>7 DEF runNativeStreamBridge
  <1> QED
    BY Zenon, <1>2, <1>3, <1>4, <1>5, <1>6, <1>7, <1>8, <1>9, <1>10, <1>11, <1>12, <1>13, <1>14, <1>15, <1>16
       DEF Next, Opener, Handler, Stopper, Service

(* Every step keeps the counters, the stages of the threads and the        *)
(* switches.                                                               *)
LEMMA ControlNext == ASSUME Control, [Next]_vars PROVE Control'
  BY Zenon, CountsNext, StagesNext, SwitchesNext DEF Control

(* A step that moves no data: a reply without data may be sent, and the      *)
(* worker may take a reply from the queue, where no data are any more.       *)
Calm ==
  /\ UNCHANGED <<plan, sent, hand, buffered, inbox>>
  /\ chan' = chan \/ \E m \in Post : m.st # "data" /\ chan' = Append(chan, m)
  /\ queue' = queue \/ (opener = "done" /\ queue # <<>> /\ queue' = Tail(queue))
  /\ reqs' \in Seq(Message)
  /\ opener' \in {"fill", "done"} /\ stopper' = "idle" =>
       opener \in {"fill", "done"} /\ stopper = "idle" /\ (registered => registered')
  /\ opener = "fill" => opener' = "fill" \/ buffered = <<>>
  /\ link' = "down" => link = "down" /\ losses' = losses
  /\ Undisturbed' => Undisturbed

(* The messages of a plan stay the same.                                   *)
LEMMA PostStays == ASSUME UNCHANGED plan PROVE Post' = Post /\ Message' = Message
  BY Zenon DEF Post, Message

(* A step that moves no data reply keeps the invariant of the downward     *)
(* direction.                                                              *)
LEMMA CalmStep ==
  ASSUME DownInv, Control', Calm
  PROVE  Parcels' /\ Attached' /\ (Undisturbed' => Apart')
  <1>0. /\ plan' = plan /\ chan \in Seq(Post) /\ queue \in Seq(Post) /\ Parcels /\ Attached
        /\ Post' = Post /\ Message' = Message
    BY Zenon, PostStays DEF DownInv, Parcels, Calm
  <1>1. /\ chan' \in Seq(Post) /\ \A n : Has(chan', n) <=> Has(chan, n)
        /\ Single(chan) => Single(chan')
    <2>1. CASE chan' = chan
      BY Zenon, <1>0, <2>1
    <2>2. ASSUME NEW m \in Post, m.st # "data", chan' = Append(chan, m)
          PROVE  <1>1!:
      <3>1. \A n : m # Msg("data", n)
        BY <2>2 DEF Msg
      <3>2. Append(chan, m) \in Seq(Post)
        BY Zenon, <1>0, SeqAppend
      <3> QED
        BY Zenon, <1>0, <2>2, <3>1, <3>2, AppendHas
    <2> QED
      BY Zenon, <2>1, <2>2 DEF Calm
  <1>2. queue' \in Seq(Post) /\ \A n : Has(queue', n) => Has(queue, n)
    <2>1. CASE queue' = queue
      BY Zenon, <1>0, <2>1
    <2>2. CASE queue # <<>> /\ queue' = Tail(queue)
      BY Zenon, <1>0, <2>2, TailHas, SeqHead
    <2> QED
      BY Zenon, <2>1, <2>2 DEF Calm
  <1>3. Undisturbed => (Single(queue) => Single(queue'))
                       /\ \A n \in Nat : Has(queue', n) <=> Has(queue, n)
    <2>1. CASE queue' = queue
      BY Zenon, <2>1
    <2>2. CASE opener = "done" /\ queue # <<>> /\ queue' = Tail(queue)
      <3>1. Undisturbed => \A n \in Nat : ~Has(queue, n)
        BY Zenon, <1>0, <2>2 DEF Undisturbed, Attached
      <3> QED
        BY Zenon, <1>0, <1>2, <2>2, <3>1, TailHas
    <2> QED
      BY Zenon, <2>1, <2>2 DEF Calm
  <1>4. Parcels'
    BY Zenon, <1>0, <1>1, <1>2 DEF Parcels, Calm
  <1>5. Attached'
    BY Zenon, <1>0, <1>2 DEF Attached, Calm
  <1>6. ASSUME Undisturbed' PROVE Apart'
    <2>1. Apart /\ Undisturbed
      BY Zenon, <1>6 DEF Calm, DownInv
    <2>2. /\ \A n \in Nat : Has(chan', n) <=> Has(chan, n)
          /\ \A n \in Nat : Has(queue', n) <=> Has(queue, n)
          /\ Single(chan') /\ Single(queue')
      BY Zenon, <1>1, <1>3, <2>1 DEF Apart
    <2>3. UNCHANGED <<sent, hand, buffered, inbox>>
      BY Zenon DEF Calm
    <2> QED
      BY Zenon, <2>1, <2>2, <2>3 DEF Apart, Got
  <1> QED
    BY Zenon, <1>4, <1>5, <1>6

(* The service sends data with the next number.                              *)
LEMMA PushStep ==
  ASSUME DownInv, Control', UNCHANGED <<plan, hand, buffered, inbox, queue, opener, stopper,
                                        registered, stopping, link, losses>>,
         sent < plan.data, sent' = sent + 1, Replies(Msg("data", sent + 1)), reqs' = reqs
  PROVE  Parcels' /\ Attached' /\ (Undisturbed' => Apart')
  <1>0. /\ Post' = Post /\ Message' = Message /\ Parcels /\ Attached /\ Control
        /\ chan \in Seq(Post)
    BY Zenon, PostStays DEF DownInv, Parcels
  <1>1. /\ Msg("data", sent + 1) \in Post
        /\ \A n : Msg("data", sent + 1) = Msg("data", n) <=> n = sent + 1
    BY <1>0 DEF Control, Counts, Post, Message, Msg
  <1>2. chan' \in Seq(Post)
    BY Zenon, <1>0, <1>1, SeqAppend DEF Replies
  <1>3. Parcels'
    BY Zenon, <1>0, <1>2 DEF Parcels
  <1>4. Attached'
    BY Zenon, <1>0 DEF Attached
  <1>5. ASSUME Undisturbed' PROVE Apart'
    <2>1. Undisturbed /\ Apart
      BY Zenon, <1>5 DEF Undisturbed, DownInv
    <2>2. chan' = Append(chan, Msg("data", sent + 1))
      BY <1>0, <2>1 DEF Undisturbed, Attached, Replies, Control, Counts, Stages
    <2>3. \A n : Has(chan', n) <=> (Has(chan, n) \/ n = sent + 1)
      BY <1>0, <1>1, <2>2, AppendHas
    <2>4. sent \in Nat /\ sent + 1 \in Nat /\ ~(sent + 1 \in 1 .. sent)
          /\ \A n \in Nat : n \in 1 .. sent + 1 <=> (n \in 1 .. sent \/ n = sent + 1)
      BY <1>0 DEF Control, Counts
    <2>5. ~Has(chan, sent + 1) /\ ~Has(queue, sent + 1) /\ ~Has(buffered, sent + 1)
          /\ hand # Msg("data", sent + 1) /\ ~Got(sent + 1)
      BY Zenon, <2>1, <2>4 DEF Apart
    <2>6. Single(chan')
      BY <1>0, <1>1, <2>1, <2>2, <2>5, AppendHas DEF Apart
    <2>7. \A n : Got(n)' <=> Got(n)
      BY Zenon DEF Got
    <2> QED
      BY Zenon, <2>1, <2>3, <2>4, <2>5, <2>6, <2>7 DEF Apart
  <1> QED
    BY Zenon, <1>3, <1>4, <1>5

(* The handler takes a reply: data go to the bridge or, before there is one, *)
(* to the queue.                                                             *)
LEMMA TakeReplyStep ==
  ASSUME DownInv, Control', handleStreamReply, UNCHANGED plan
  PROVE  Parcels' /\ Attached' /\ (Undisturbed' => Apart')
  <1>0. /\ Post' = Post /\ Message' = Message /\ Parcels /\ Attached /\ Control
        /\ chan \in Seq(Post) /\ queue \in Seq(Post) /\ chan # <<>> /\ chan' = Tail(chan)
        /\ hand = Nothing
    BY Zenon, PostStays DEF DownInv, Parcels, handleStreamReply
  <1>u. UNCHANGED <<buffered, stopper, registered, inbox, link, losses, reqs, sent>>
    BY Zenon DEF handleStreamReply, appVars
  <1>1. PICK m : m = Head(chan)
    BY Zenon
  <1>2. m \in Post /\ chan' \in Seq(Post)
    BY Zenon, <1>0, <1>1, SeqHead
  <1>3. \/ /\ m.st \in {"opened", "refused"} /\ opener = "asked" /\ opener' = m.st
           /\ UNCHANGED <<hand, queue, stopping>>
        \/ /\ m.st = "data" => registered
           /\ hand' = m /\ stopping' = (stopping \/ m.st # "data") /\ UNCHANGED <<opener, queue>>
        \/ /\ m.st = "data" => ~registered
           /\ queue' = Append(queue, m) /\ UNCHANGED <<opener, hand, stopping>>
    BY Zenon, <1>1 DEF handleStreamReply, ForBridge
  <1>4. \A n : Nothing # Msg("data", n)
    BY Zenon DEF Nothing, Msg
  <1>5. Parcels'
    <2>1. hand' \in Post /\ queue' \in Seq(Post)
      <3>1. hand \in Post /\ queue \in Seq(Post) /\ Append(queue, m) \in Seq(Post)
        BY Zenon, <1>0, <1>2, SeqAppend DEF Parcels
      <3> QED
        BY Zenon, <1>2, <1>3, <3>1
    <2> QED
      BY Zenon, <1>0, <1>u, <1>2, <2>1 DEF Parcels
  <1>6. Attached'
    <2>1. /\ opener' \in {"fill", "done"} => opener' = opener
          /\ opener = "fill" => opener' = "fill"
      BY Zenon, <1>3
    <2>2. ASSUME opener' \in {"fill", "done"}, stopper' = "idle", NEW n \in Nat, Has(queue', n)
          PROVE  FALSE
      <3>1. registered /\ ~Has(queue, n)
        BY Zenon, <1>0, <1>u, <2>1, <2>2 DEF Attached
      <3>2. queue' = Append(queue, m) /\ m.st # "data"
        BY Zenon, <1>3, <2>2, <3>1
      <3>3. m # Msg("data", n)
        BY <3>2 DEF Msg
      <3> QED
        BY Zenon, <1>0, <1>2, <2>2, <3>1, <3>2, <3>3, AppendHas
    <2> QED
      BY Zenon, <1>0, <1>u, <2>1, <2>2 DEF Attached
  <1>7. ASSUME Undisturbed' PROVE Apart'
    <2>1. Undisturbed /\ Apart
      <3>1. opener = "failed" => opener' = "failed"
        BY Zenon, <1>3
      <3>2. stopping => stopping'
        BY Zenon, <1>3
      <3> QED
        BY Zenon, <1>u, <1>7, <3>1, <3>2 DEF Undisturbed, DownInv
    <2>2. Single(chan') /\ \A n : Has(chan', n) <=> (Has(chan, n) /\ m # Msg("data", n))
      BY Zenon, <1>0, <1>1, <2>1, TailHas DEF Apart
    <2>3. \A n : (Got(n)' <=> Got(n)) /\ (m = Msg("data", n) => Has(chan, n))
      BY Zenon, <1>0, <1>1, <1>u, TailHas DEF Got
    <2>4. CASE m.st # "data"
      <3>1. \A n : m # Msg("data", n)
        BY <2>4 DEF Msg
      <3>2. \A n : hand' # Msg("data", n)
        BY Zenon, <1>0, <1>3, <1>4, <3>1
      <3>3. Single(queue') /\ \A n : Has(queue', n) <=> Has(queue, n)
        <4>1. Single(queue)
          BY Zenon, <2>1 DEF Apart
        <4>2. Single(Append(queue, m)) /\ \A n : Has(Append(queue, m), n) <=> Has(queue, n)
          BY Zenon, <1>0, <1>2, <2>4, <3>1, <4>1, AppendHas
        <4> QED
          BY Zenon, <1>3, <4>1, <4>2
      <3> QED
        BY Zenon, <1>0, <1>u, <1>4, <2>1, <2>2, <2>3, <3>1, <3>2, <3>3 DEF Apart
    <2>5. CASE m.st = "data"
      <3>1. PICK k \in Nat : m = Msg("data", k) /\ \A n : m = Msg("data", n) <=> n = k
        <4>1. m \in Message /\ m.n \in Nat
          BY <1>0, <1>2, <2>5 DEF Post, Message, Control, Counts
        <4>2. m = Msg("data", m.n)
          BY Zenon, <2>5, <4>1 DEF Msg, Message
        <4>3. \A n : Msg("data", n).n = n
          BY Zenon DEF Msg
        <4> QED
          BY Zenon, <4>1, <4>2, <4>3
      <3>2. Has(chan, k) /\ ~Has(queue, k) /\ ~Has(buffered, k) /\ ~Got(k)
        BY Zenon, <2>1, <2>3, <3>1 DEF Apart
      <3>3. CASE hand' = m /\ queue' = queue
        BY Zenon, <1>0, <1>u, <1>4, <2>1, <2>2, <2>3, <3>1, <3>2, <3>3 DEF Apart
      <3>4. CASE hand' = hand /\ queue' = Append(queue, m)
        <4>1. Single(queue') /\ \A n : Has(queue', n) <=> (Has(queue, n) \/ n = k)
          BY Zenon, <1>0, <1>2, <2>1, <3>1, <3>2, <3>4, AppendHas DEF Apart
        <4> QED
          BY Zenon, <1>0, <1>u, <1>4, <2>1, <2>2, <2>3, <3>1, <3>2, <3>4, <4>1 DEF Apart
      <3> QED
        BY Zenon, <1>3, <2>5, <3>3, <3>4
    <2> QED
      BY Zenon, <2>4, <2>5
  <1> QED
    BY Zenon, <1>5, <1>6, <1>7

(* ... and writes it to the socket pair.                                     *)
LEMMA HandlerWriteStep ==
  ASSUME DownInv, Control', HandlerWrites, UNCHANGED plan
  PROVE  Parcels' /\ Attached' /\ (Undisturbed' => Apart')
  <1>0. /\ Post' = Post /\ Message' = Message /\ Parcels /\ Attached /\ Control
        /\ inbox \in Seq(1 .. plan.data) /\ hand \in Post
    BY Zenon, PostStays DEF DownInv, Parcels
  <1>u. UNCHANGED <<opener, buffered, stopper, registered, queue, chan, link, losses, reqs, sent>>
        /\ hand' = Nothing
    BY Zenon DEF HandlerWrites, netVars
  <1>1. \/ hand.st = "data" /\ inbox' = Append(inbox, hand.n) /\ stopping' = stopping
        \/ inbox' = inbox /\ (hand.st = "data" => stopping')
           /\ (hand.st # "data" => stopping' = stopping)
    BY Zenon DEF HandlerWrites, WriteOrClose
  <1>2. hand.st = "data" => hand.n \in 1 .. plan.data
    BY Zenon, <1>0 DEF Post
  <1>3. /\ Nothing \in Post
        /\ \A n : Nothing # Msg("data", n)
    BY <1>0 DEF Nothing, Msg, Post, Message, Control, Counts
  <1>4. Parcels'
    <2>1. inbox' \in Seq(1 .. plan.data)
      BY ZenonT(30), <1>0, <1>1, <1>2, SeqAppend
    <2> QED
      BY Zenon, <1>0, <1>u, <1>3, <2>1 DEF Parcels
  <1>5. Attached'
    BY Zenon, <1>0, <1>u DEF Attached
  <1>6. ASSUME Undisturbed' PROVE Apart'
    <2>1. Undisturbed /\ Apart
      BY <1>u, <1>1, <1>6 DEF Undisturbed, DownInv
    <2>2. CASE hand.st # "data"
      <3>1. inbox' = inbox /\ \A n : hand # Msg("data", n)
        BY <1>1, <2>2 DEF Msg
      <3>2. \A n : Got(n)' <=> Got(n)
        BY Zenon, <3>1 DEF Got
      <3> QED
        BY Zenon, <1>u, <1>3, <2>1, <3>1, <3>2 DEF Apart
    <2>3. CASE hand.st = "data"
      <3>1. PICK k \in 1 .. plan.data : k = hand.n /\ hand = Msg("data", k)
                             /\ \A n : hand = Msg("data", n) <=> n = k
        BY SMTT(30), <1>0, <1>2, <2>3 DEF Msg, Post, Message
      <3>2. k \in Nat /\ ~Got(k) /\ ~Has(chan, k) /\ ~Has(queue, k) /\ ~Has(buffered, k)
        BY <1>0, <2>1, <3>1 DEF Apart, Control, Counts
      <3>3. inbox' = Append(inbox, k)
        BY Zenon, <1>1, <1>6, <2>3, <3>1 DEF Undisturbed
      <3>4. /\ \A n : Got(n)' <=> (Got(n) \/ n = k)
            /\ \A i, j \in DOMAIN inbox' : inbox'[i] = inbox'[j] => i = j
        <4>1. \A i, j \in DOMAIN inbox : inbox[i] = inbox[j] => i = j
          BY Zenon, <2>1 DEF Apart
        <4> QED
          BY ZenonT(30), <1>0, <3>1, <3>2, <3>3, <4>1, AppendGot
      <3> QED
        BY Zenon, <1>u, <1>3, <2>1, <3>1, <3>2, <3>4 DEF Apart
    <2> QED
      BY Zenon, <2>2, <2>3
  <1> QED
    BY Zenon, <1>4, <1>5, <1>6

(* The attaching thread takes the queue, ...                                 *)
LEMMA AttachStep ==
  ASSUME DownInv, Control', attachNativeStreamBridge, UNCHANGED plan
  PROVE  Parcels' /\ Attached' /\ (Undisturbed' => Apart')
  <1>0. /\ Post' = Post /\ Message' = Message /\ Parcels /\ Attached /\ Control
        /\ queue \in Seq(Post)
    BY Zenon, PostStays DEF DownInv, Parcels
  <1>u. /\ UNCHANGED <<stopper, inbox, hand, chan, link, losses, reqs, sent, stopping>>
        /\ opener = "attach" /\ opener' = "fill" /\ registered' = TRUE
        /\ buffered' = queue /\ queue' = <<>>
    BY Zenon DEF attachNativeStreamBridge, appVars, netVars
  <1>1. buffered = <<>>
    BY Zenon, <1>0, <1>u DEF Attached
  <1>2. Parcels'
    BY <1>0, <1>u DEF Parcels
  <1>3. Attached'
    BY Zenon, <1>0, <1>u, EmptyHas DEF Attached
  <1>4. ASSUME Undisturbed' PROVE Apart'
    <2>1. Apart
      BY Zenon, <1>u, <1>4 DEF Undisturbed, DownInv
    <2>2. \A n : Got(n)' <=> Got(n)
      BY Zenon, <1>u DEF Got
    <2>3. /\ Single(queue') /\ Single(buffered')
          /\ \A n : ~Has(queue', n) /\ ~Has(buffered, n) /\ (Has(buffered', n) <=> Has(queue, n))
      BY Zenon, <1>u, <1>1, <2>1, EmptyHas DEF Apart
    <2> QED
      BY Zenon, <1>u, <2>1, <2>2, <2>3 DEF Apart
  <1> QED
    BY Zenon, <1>2, <1>3, <1>4

(* ... and writes the data of it to the socket pair.                         *)
LEMMA FillStep ==
  ASSUME DownInv, Control', FillBuffered, UNCHANGED plan
  PROVE  Parcels' /\ Attached' /\ (Undisturbed' => Apart')
  <1>0. /\ Post' = Post /\ Message' = Message /\ Parcels /\ Attached /\ Control
        /\ inbox \in Seq(1 .. plan.data) /\ buffered \in Seq(Post) /\ buffered # <<>>
    BY Zenon, PostStays DEF DownInv, Parcels, FillBuffered
  <1>u. /\ UNCHANGED <<opener, stopper, registered, queue, hand, chan, link, losses, reqs, sent>>
        /\ opener = "fill"
    BY Zenon DEF FillBuffered, netVars
  <1>1. PICK m : m = Head(buffered)
    BY Zenon
  <1>2. m \in Post /\ Tail(buffered) \in Seq(Post)
    BY Zenon, <1>0, <1>1, SeqHead
  <1>3. \/ /\ m.st = "data" /\ inbox' = Append(inbox, m.n) /\ buffered' = Tail(buffered)
           /\ stopping' = stopping
        \/ inbox' = inbox /\ buffered' \in {<<>>, Tail(buffered)} /\ stopping' = TRUE
    BY <1>1 DEF FillBuffered, WriteOrClose
  <1>4. m.st = "data" => m.n \in 1 .. plan.data
    BY Zenon, <1>2 DEF Post
  <1>5. Parcels'
    <2>1. inbox' \in Seq(1 .. plan.data)
      BY ZenonT(30), <1>0, <1>3, <1>4, SeqAppend
    <2>2. buffered' \in Seq(Post)
      <3>1. <<>> \in Seq(Post)
        OBVIOUS
      <3> QED
        BY Zenon, <1>2, <1>3, <3>1
    <2> QED
      BY Zenon, <1>0, <1>u, <2>1, <2>2 DEF Parcels
  <1>6. Attached'
    BY Zenon, <1>0, <1>u DEF Attached
  <1>7. ASSUME Undisturbed' PROVE Apart'
    <2>1. /\ m.st = "data" /\ inbox' = Append(inbox, m.n) /\ buffered' = Tail(buffered)
          /\ stopping' = stopping
      BY Zenon, <1>3, <1>7 DEF Undisturbed
    <2>2. Undisturbed /\ Apart
      BY Zenon, <1>u, <1>7, <2>1 DEF Undisturbed, DownInv
    <2>3. PICK k \in 1 .. plan.data : k = m.n /\ m = Msg("data", k)
                           /\ \A n : m = Msg("data", n) <=> n = k
      BY SMTT(30), <1>2, <1>4, <2>1 DEF Msg, Post, Message
    <2>4. /\ Single(buffered') /\ Has(buffered, k)
          /\ \A n : Has(buffered', n) <=> (Has(buffered, n) /\ n # k)
      BY Zenon, <1>0, <1>1, <2>1, <2>2, <2>3, TailHas DEF Apart
    <2>5. k \in Nat /\ ~Got(k) /\ ~Has(chan, k) /\ ~Has(queue, k) /\ hand # Msg("data", k)
      BY <1>0, <2>2, <2>3, <2>4 DEF Apart, Control, Counts
    <2>6. /\ \A n : Got(n)' <=> (Got(n) \/ n = k)
          /\ \A i, j \in DOMAIN inbox' : inbox'[i] = inbox'[j] => i = j
      <3>1. \A i, j \in DOMAIN inbox : inbox[i] = inbox[j] => i = j
        BY Zenon, <2>2 DEF Apart
      <3>2. inbox' = Append(inbox, k)
        BY Zenon, <2>1, <2>3
      <3> QED
        BY Zenon, <1>0, <2>5, <3>1, <3>2, AppendGot
    <2> QED
      BY Zenon, <1>u, <2>2, <2>4, <2>5, <2>6 DEF Apart
  <1> QED
    BY Zenon, <1>5, <1>6, <1>7
-----------------------------------------------------------------------------
(* The steps that move no data.                                              *)
LEMMA CalmActions ==
  ASSUME DownInv, Control', UNCHANGED plan,
         \/ Reconnect \/ (Service /\ sent' = sent) \/ Application \/ RequestStream
         \/ OpenReturns \/ AcceptReturns \/ startNativeStreamBridgeWorker
         \/ listenTCPSocket \/ runNativeListenSocketBridge \/ runNativeStreamBridge
         \/ stopNativeListenBridgesForNode \/ stopNativeSocketBridgesForNode
  PROVE  Calm
  <1>0. /\ Control /\ reqs \in Seq(Message) /\ payload \in 0 .. plan.writes
        /\ (worker = "none" <=> opener # "done")
        /\ buffered # <<>> => opener = "fill"
    BY SMTT(30) DEF DownInv, Parcels, UpInv, UpTypes, OutboxFollows, AckFollows, Attached, Control, Counts
  <1>m. /\ \A st \in {"open", "close"} : Msg(st, 0) \in Message
        /\ Msg("send", payload) \in Message
        /\ \A st \in {"opened", "refused", "success", "error", "closed"} :
             Msg(st, 0) \in Post /\ Msg(st, 0).st # "data"
    BY SMTT(30), <1>0 DEF Msg, Message, Post, Control, Counts
  <1> USE DEF Calm, Undisturbed, bridgeVars, appVars, netVars
  <1>1. CASE Reconnect
    BY Zenon, <1>0, <1>1 DEF Reconnect
  <1>2. CASE Service /\ sent' = sent
    <2>1. reqs' \in Seq(Message)
      BY Zenon, <1>0, <1>2, SeqHead DEF Service, ServiceAnswers, ServicePushes
    <2>2. chan' = chan \/ \E m \in Post : m.st # "data" /\ chan' = Append(chan, m)
      <3>1. CASE ServiceAnswers
        BY Zenon, <1>m, <3>1 DEF ServiceAnswers, Replies
      <3>2. CASE ServicePushes
        BY <1>0, <1>2, <1>m, <3>2 DEF ServicePushes, Replies, Control, Counts
      <3> QED
        BY Zenon, <1>2, <3>1, <3>2 DEF Service
    <2>3. UNCHANGED <<opener, buffered, hand, stopper, registered, queue, stopping, inbox,
                      link, losses>>
      BY Zenon, <1>2 DEF Service, ServiceAnswers, ServicePushes
    <2> QED
      BY Zenon, <1>2, <2>1, <2>2, <2>3
  <1>3. CASE Application
    BY Zenon, <1>0, <1>3 DEF Application
  <1>4. CASE RequestStream
    BY Zenon, <1>0, <1>m, <1>4, SeqAppend DEF RequestStream
  <1>5. CASE OpenReturns
    BY Zenon, <1>0, <1>5 DEF OpenReturns
  <1>6. CASE AcceptReturns
    <2>1. reqs' \in Seq(Message)
      BY <1>0, <1>m, <1>6, SeqAppend DEF AcceptReturns
    <2> QED
      BY ZenonT(30), <1>0, <1>6, <2>1 DEF AcceptReturns
  <1>7. CASE startNativeStreamBridgeWorker
    BY Zenon, <1>0, <1>7 DEF startNativeStreamBridgeWorker
  <1>8. CASE listenTCPSocket \/ runNativeListenSocketBridge
    BY <1>0, <1>8 DEF listenTCPSocket, runNativeListenSocketBridge
  <1>9. CASE runNativeStreamBridge
    <2>u. UNCHANGED <<opener, buffered, hand, stopper, inbox, link, losses, chan, sent>>
      BY Zenon, <1>9 DEF runNativeStreamBridge
    <2>1. CASE WorkerChecks \/ WorkerReceives \/ WorkerCloses
      BY SMTT(30), <1>0, <2>u, <2>1 DEF WorkerChecks, WorkerReceives, WorkerCloses
    <2>2. CASE streamSend \/ streamClose
      <3>1. reqs' \in Seq(Message)
        BY SMTT(30), <1>0, <1>m, <2>2, SeqAppend DEF streamSend, streamClose
      <3> QED
        BY SMTT(30), <1>0, <2>u, <2>2, <3>1 DEF streamSend, streamClose
    <2>3. CASE SendReturns \/ CloseReturns
      BY <1>0, <2>u, <2>3 DEF SendReturns, CloseReturns
    <2> QED
      BY Zenon, <1>9, <2>1, <2>2, <2>3 DEF runNativeStreamBridge
  <1>10. CASE stopNativeListenBridgesForNode
    BY Zenon, <1>0, <1>10 DEF stopNativeListenBridgesForNode
  <1>11. CASE stopNativeSocketBridgesForNode
    BY Zenon, <1>0, <1>11 DEF stopNativeSocketBridgesForNode, StopBridge
  <1> QED
    BY Zenon, <1>1, <1>2, <1>3, <1>4, <1>5, <1>6, <1>7, <1>8, <1>9, <1>10, <1>11

(* Every step keeps the invariant of the downward direction.               *)
LEMMA DownNext == DownInv /\ [Next]_vars => DownInv'
  <1> SUFFICES ASSUME DownInv, [Next]_vars PROVE DownInv'
    BY Zenon
  <1>1. UpInv' /\ Control'
    BY Zenon, UpNext, ControlNext DEF DownInv
  <1> SUFFICES Parcels' /\ Attached' /\ (Undisturbed' => Apart')
    BY Zenon, <1>1 DEF DownInv
  <1>2. CASE UNCHANGED vars
    <2>1. Calm
      BY Zenon, <1>2 DEF Calm, vars, bridgeVars, appVars, netVars, DownInv, Parcels, Undisturbed
    <2> QED
      BY Zenon, <1>1, <2>1, CalmStep
  <1>3. CASE Next
    <2>p. UNCHANGED plan
      BY Zenon, <1>3 DEF Next
    <2>1. CASE Lose
      <3>1. /\ UNCHANGED <<opener, buffered, hand, stopper, registered, queue, inbox, sent>>
            /\ losses' = losses + 1 /\ reqs' = <<>> /\ chan' = <<>>
        BY Zenon, <2>1 DEF Lose, bridgeVars, appVars
      <3>2. losses' > 0 /\ Parcels /\ Attached /\ Post' = Post /\ Message' = Message
        BY <2>p, <3>1, PostStays DEF DownInv, Control, Counts
      <3>3. losses' # 0
        BY <1>1, <3>2 DEF Control, Counts
      <3> QED
        BY <2>p, <3>1, <3>2, <3>3 DEF Parcels, Attached, Undisturbed
    <2>2. CASE Service /\ sent' # sent
      <3>1. /\ UNCHANGED <<hand, buffered, inbox, queue, opener, stopper, registered, stopping,
                           link, losses, reqs>>
            /\ sent < plan.data /\ sent' = sent + 1 /\ Replies(Msg("data", sent + 1))
        BY Zenon, <2>2 DEF Service, ServiceAnswers, ServicePushes, bridgeVars, appVars
      <3> QED
        BY Zenon, <1>1, <2>p, <3>1, PushStep
    <2>3. CASE \/ Reconnect \/ (Service /\ sent' = sent) \/ Application \/ RequestStream
               \/ OpenReturns \/ AcceptReturns \/ startNativeStreamBridgeWorker
               \/ listenTCPSocket \/ runNativeListenSocketBridge \/ runNativeStreamBridge
               \/ stopNativeListenBridgesForNode \/ stopNativeSocketBridgesForNode
      BY Zenon, <1>1, <2>p, <2>3, CalmActions, CalmStep
    <2>4. CASE attachNativeStreamBridge
      BY Zenon, <1>1, <2>p, <2>4, AttachStep
    <2>5. CASE FillBuffered
      BY Zenon, <1>1, <2>p, <2>5, FillStep
    <2>6. CASE handleStreamReply
      BY Zenon, <1>1, <2>p, <2>6, TakeReplyStep
    <2>7. CASE HandlerWrites
      BY Zenon, <1>1, <2>p, <2>7, HandlerWriteStep
    <2> QED
      BY Zenon, <1>3, <2>1, <2>2, <2>3, <2>4, <2>5, <2>6, <2>7 DEF Next, Opener, Handler, Stopper,
         OpenStream, connectTCPSocket, connectSshdSocket, connectHttpSocket, acceptTCPSocket,
         acceptTCPEx
  <1> QED
    BY Zenon, <1>2, <1>3

(* A sequence whose elements are in a set.                                   *)
LEMMA SeqIn ==
  ASSUME NEW S, NEW T, NEW q \in Seq(S), \A i \in 1 .. Len(q) : q[i] \in T
  PROVE  q \in Seq(T)
  OBVIOUS

(* The invariant contains the types.                                       *)
LEMMA DownTypeOK == DownInv => TypeOK
  <1> SUFFICES ASSUME DownInv PROVE TypeOK
    BY Zenon
  <1>0. Control /\ Parcels /\ UpInv
    BY Zenon DEF DownInv
  <1>1. hand \in Message /\ reqs \in Seq(Message) /\ chan \in Seq(Message)
        /\ queue \in Seq(Message) /\ buffered \in Seq(Message)
    <2>1. \A m \in Post : m \in Message
      BY Zenon DEF Post
    <2> QED
      BY <1>0, <2>1, SeqIn DEF Parcels
  <1>2. payload \in 0 .. plan.writes /\ wrote \in 0 .. plan.writes
    BY SMTT(30), <1>0 DEF UpInv, UpTypes, OutboxFollows, Control, Counts
  <1>3. outbox \in Seq(1 .. plan.writes)
    <2>1. \A i \in 1 .. Len(outbox) : outbox[i] \in 1 .. plan.writes
      <3>1. /\ wrote \in Nat /\ payload \in Nat /\ wrote <= plan.writes /\ plan.writes \in Nat
            /\ Len(outbox) = wrote - payload
            /\ \A i \in 1 .. Len(outbox) : outbox[i] = payload + i
        BY Zenon, <1>0 DEF UpInv, UpTypes, OutboxFollows, Control, Counts
      <3> QED
        BY <3>1
    <2> QED
      BY Zenon, <1>0, <2>1, SeqIn DEF UpInv, UpTypes
  <1>4. svcGot \in Seq(1 .. plan.writes)
    <2>1. \A i \in 1 .. Len(svcGot) : svcGot[i] \in 1 .. plan.writes
      <3>1. /\ wrote \in Nat /\ payload \in Nat /\ wrote <= plan.writes /\ plan.writes \in Nat
            /\ payload <= wrote /\ Len(svcGot) <= payload /\ Len(svcGot) \in Nat
            /\ \A i \in 1 .. Len(svcGot) : svcGot[i] = i
        BY SMTT(30), <1>0 DEF UpInv, UpTypes, ServiceFollows, OutboxFollows, Control, Counts
      <3> QED
        BY <3>1
    <2> QED
      BY Zenon, <1>0, <2>1, SeqIn DEF UpInv, UpTypes
  <1>5. {registered, awaited, route, stopping, remoteClosed, appOpen, gaveUp, lstop} \subseteq BOOLEAN
    BY Zenon, <1>0 DEF Control, Switches
  <1>6. inbox \in Seq(1 .. plan.data)
    BY Zenon, <1>0 DEF Parcels
  <1> QED
    BY Zenon, <1>0, <1>1, <1>2, <1>3, <1>4, <1>5, <1>6 DEF TypeOK, Control, Counts, Stages

(* What a stage carries: the numbers it has, each at one position.           *)
LEMMA StageFacts ==
  ASSUME Counts, NEW q \in Seq(Post), Single(q), NEW stage
  PROVE  /\ \A data \in DataIn(stage, q) : data.n \in Nat /\ Has(q, data.n)
         /\ \A n : Has(q, n) => \E data \in DataIn(stage, q) : data.n = n
         /\ \A one, other \in DataIn(stage, q) : one.n = other.n => one = other
  <1>1. \A i \in DOMAIN q : q[i].st = "data" => q[i].n \in Nat /\ q[i] = Msg("data", q[i].n)
    <2>1. \A m \in Post : m.st = "data" => m.n \in Nat /\ m = Msg("data", m.n)
      BY DEF Post, Message, Msg, Counts
    <2>2. \A i \in DOMAIN q : q[i] \in Post
      OBVIOUS
    <2> QED
      BY Zenon, <2>1, <2>2
  <1>2. \A n : Msg("data", n).st = "data" /\ Msg("data", n).n = n
    BY Zenon DEF Msg
  <1>3. ASSUME NEW data \in DataIn(stage, q)
        PROVE  \E i \in DOMAIN q : q[i] = Msg("data", data.n) /\ data.n \in Nat /\ data.at = stage
                                   /\ data.pos = i /\ data = [at |-> stage, pos |-> i, n |-> data.n]
    <2>1. PICK i \in DOMAIN q : q[i].st = "data" /\ data = [at |-> stage, pos |-> i, n |-> q[i].n]
      BY Zenon DEF DataIn
    <2>2. data.n = q[i].n /\ data.at = stage /\ data.pos = i
      BY Zenon, <2>1
    <2> QED
      BY Zenon, <1>1, <2>1, <2>2
  <1>4. \A data \in DataIn(stage, q) : data.n \in Nat /\ Has(q, data.n)
    BY Zenon, <1>3 DEF Has
  <1>5. ASSUME NEW n, Has(q, n) PROVE \E data \in DataIn(stage, q) : data.n = n
    <2>1. PICK i \in DOMAIN q : q[i] = Msg("data", n)
      BY Zenon, <1>5 DEF Has
    <2>2. q[i].st = "data" /\ q[i].n = n
      BY Zenon, <1>2, <2>1
    <2>3. [at |-> stage, pos |-> i, n |-> q[i].n] \in DataIn(stage, q)
      BY Zenon, <2>2 DEF DataIn
    <2>4. [at |-> stage, pos |-> i, n |-> q[i].n].n = q[i].n
      BY Zenon
    <2> QED
      BY Zenon, <2>2, <2>3, <2>4
  <1>6. ASSUME NEW one \in DataIn(stage, q), NEW other \in DataIn(stage, q), one.n = other.n
        PROVE  one = other
    <2>1. PICK i \in DOMAIN q : q[i] = Msg("data", one.n) /\ one = [at |-> stage, pos |-> i, n |-> one.n]
      BY Zenon, <1>3
    <2>2. PICK j \in DOMAIN q : q[j] = Msg("data", other.n)
                               /\ other = [at |-> stage, pos |-> j, n |-> other.n]
      BY Zenon, <1>3
    <2>3. i = j
      BY Zenon, <1>2, <1>6, <2>1, <2>2 DEF Single
    <2> QED
      BY Zenon, <1>6, <2>1, <2>2, <2>3
  <1> QED
    BY Zenon, <1>4, <1>5, <1>6

(* Numbers kept apart are carried once.                                      *)
LEMMA ApartCarried ==
  ASSUME Counts, Parcels, Apart
  PROVE  /\ {data.n : data \in Carried} = 1 .. sent
         /\ \A one, other \in Carried : one.n = other.n => one = other
  <1> DEFINE hands == <<hand>>
             A == DataIn("network", chan)
             B == DataIn("queue", queue)
             C == DataIn("buffered", buffered)
             D == DataIn("handler", hands)
             E == {[at |-> "application", pos |-> i, n |-> inbox[i]] : i \in DOMAIN inbox}
  <1>1. hands \in Seq(Post) /\ Single(hands) /\ \A n : Has(hands, n) <=> hand = Msg("data", n)
    BY DEF Parcels, Single, Has
  <1>2. /\ \A data \in E : data.n \in Nat /\ Got(data.n)
        /\ \A n : Got(n) => \E data \in E : data.n = n
        /\ \A one, other \in E : one.n = other.n => one = other
    <2>0. \A i \in DOMAIN inbox : inbox[i] \in Nat
      BY SMTT(30) DEF Parcels, Counts
    <2>1. \A i : [at |-> "application", pos |-> i, n |-> inbox[i]].n = inbox[i]
      BY Zenon
    <2>2. \A i \in DOMAIN inbox : [at |-> "application", pos |-> i, n |-> inbox[i]] \in E
      BY Zenon
    <2>3. \A data \in E : \E i \in DOMAIN inbox :
                            data = [at |-> "application", pos |-> i, n |-> inbox[i]]
      BY Zenon
    <2> HIDE DEF E
    <2>4. \A data \in E : data.n \in Nat /\ Got(data.n)
      BY ZenonT(30), <2>0, <2>1, <2>3 DEF Got
    <2>5. \A n : Got(n) => \E data \in E : data.n = n
      BY Zenon, <2>1, <2>2 DEF Got
    <2>6. ASSUME NEW one \in E, NEW other \in E, one.n = other.n PROVE one = other
      <3>1. PICK i \in DOMAIN inbox : one = [at |-> "application", pos |-> i, n |-> inbox[i]]
        BY Zenon, <2>3
      <3>2. PICK j \in DOMAIN inbox : other = [at |-> "application", pos |-> j, n |-> inbox[j]]
        BY Zenon, <2>3
      <3>3. inbox[i] = inbox[j]
        BY Zenon, <2>1, <2>6, <3>1, <3>2
      <3>4. i = j
        BY Zenon, <3>3 DEF Apart
      <3> QED
        BY Zenon, <3>1, <3>2, <3>4
    <2> QED
      BY Zenon, <2>4, <2>5, <2>6
  <1>3. /\ \A data \in A : data.n \in Nat /\ Has(chan, data.n)
        /\ \A n : Has(chan, n) => \E data \in A : data.n = n
        /\ \A one, other \in A : one.n = other.n => one = other
    BY Zenon, StageFacts DEF Parcels, Apart
  <1>4. /\ \A data \in B : data.n \in Nat /\ Has(queue, data.n)
        /\ \A n : Has(queue, n) => \E data \in B : data.n = n
        /\ \A one, other \in B : one.n = other.n => one = other
    BY Zenon, StageFacts DEF Parcels, Apart
  <1>5. /\ \A data \in C : data.n \in Nat /\ Has(buffered, data.n)
        /\ \A n : Has(buffered, n) => \E data \in C : data.n = n
        /\ \A one, other \in C : one.n = other.n => one = other
    BY Zenon, StageFacts DEF Parcels, Apart
  <1>6. /\ \A data \in D : data.n \in Nat /\ hand = Msg("data", data.n)
        /\ \A n : hand = Msg("data", n) => \E data \in D : data.n = n
        /\ \A one, other \in D : one.n = other.n => one = other
    BY Zenon, <1>1, StageFacts
  <1>7. Carried = A \cup B \cup C \cup D \cup E
    BY Zenon DEF Carried
  <1> HIDE DEF A, B, C, D, E, hands
  <1>8. \A n \in Nat : n \in 1 .. sent <=> \E data \in Carried : data.n = n
    <2>1. ASSUME NEW n \in Nat, n \in 1 .. sent PROVE \E data \in Carried : data.n = n
      <3>1. \/ Has(chan, n) \/ Has(queue, n) \/ Has(buffered, n) \/ hand = Msg("data", n) \/ Got(n)
        BY Zenon, <2>1 DEF Apart
      <3> QED
        BY Zenon, <1>2, <1>3, <1>4, <1>5, <1>6, <1>7, <3>1
    <2>2. ASSUME NEW n \in Nat, NEW data \in Carried, data.n = n PROVE n \in 1 .. sent
      <3>1. \/ Has(chan, n) \/ Has(queue, n) \/ Has(buffered, n) \/ hand = Msg("data", n) \/ Got(n)
        BY Zenon, <1>2, <1>3, <1>4, <1>5, <1>6, <1>7, <2>2
      <3> QED
        BY Zenon, <3>1 DEF Apart
    <2> QED
      BY Zenon, <2>1, <2>2
  <1>9. \A data \in Carried : data.n \in Nat
    BY Zenon, <1>2, <1>3, <1>4, <1>5, <1>6, <1>7
  <1>10. {data.n : data \in Carried} = 1 .. sent
    <2>1. 1 .. sent \subseteq Nat
      BY DEF Counts
    <2> QED
      BY Zenon, <1>8, <1>9, <2>1
  <1>11. /\ \A one \in A, other \in B \cup C \cup D \cup E : one.n # other.n
         /\ \A one \in B, other \in C \cup D \cup E : one.n # other.n
         /\ \A one \in C, other \in D \cup E : one.n # other.n
         /\ \A one \in D, other \in E : one.n # other.n
    <2>1. \A one \in A, other \in B \cup C \cup D \cup E : one.n # other.n
      BY Zenon, <1>2, <1>3, <1>4, <1>5, <1>6 DEF Apart
    <2>2. \A one \in B, other \in C \cup D \cup E : one.n # other.n
      BY Zenon, <1>2, <1>4, <1>5, <1>6 DEF Apart
    <2>3. \A one \in C, other \in D \cup E : one.n # other.n
      BY Zenon, <1>2, <1>5, <1>6 DEF Apart
    <2>4. \A one \in D, other \in E : one.n # other.n
      BY Zenon, <1>2, <1>6 DEF Apart
    <2> QED
      BY Zenon, <2>1, <2>2, <2>3, <2>4
  <1>12. ASSUME NEW one \in Carried, NEW other \in Carried, one.n = other.n
         PROVE  one = other
    <2>1. CASE one \in A
      BY Zenon, <1>3, <1>7, <1>11, <1>12, <2>1
    <2>2. CASE one \in B
      BY Zenon, <1>4, <1>7, <1>11, <1>12, <2>2
    <2>3. CASE one \in C
      BY Zenon, <1>5, <1>7, <1>11, <1>12, <2>3
    <2>4. CASE one \in D
      BY Zenon, <1>6, <1>7, <1>11, <1>12, <2>4
    <2>5. CASE one \in E
      BY Zenon, <1>2, <1>7, <1>11, <1>12, <2>5
    <2> QED
      BY Zenon, <1>7, <2>1, <2>2, <2>3, <2>4, <2>5
  <1> QED
    BY Zenon, <1>10, <1>12

(* For every plan: the state keeps its types, and as long as the bridge runs *)
(* and the connection held, every data reply is in exactly one place between *)
(* the service and the application's socket.  The attaching thread takes the *)
(* whole queue when it registers the bridge, so that from then on the handler*)
(* keeps data out of the queue the worker takes its acknowledgements from.   *)
THEOREM DataInOnePlace == Spec => []DataOnce
  <1>1. DownInv => DataOnce
    <2> SUFFICES ASSUME DownInv PROVE DataOnce
      BY Zenon
    <2>1. TypeOK
      BY Zenon, DownTypeOK
    <2>2. ASSUME Undisturbed
          PROVE  /\ {data.n : data \in Carried} = 1 .. sent
                 /\ \A one, other \in Carried : one.n = other.n => one = other
      BY Zenon, <2>2, ApartCarried DEF DownInv, Control
    <2> QED
      BY Zenon, <2>1, <2>2 DEF DataOnce, Undisturbed
  <1> QED
    BY <1>1, DownInit, DownNext, PTL DEF Spec
=============================================================================
