----------------------- MODULE ResourceManagerProofs -----------------------
(* Proofs about ResourceManager for any connections, nodes, plans and      *)
(* numbers of workers.                                                     *)
EXTENDS ResourceManager, TLAPS

USE SMTT(30)

(* Queues, and what their two operations do to what is in them.            *)
IsQueue(q) == \E S : q \in Seq(S)

(* A queue has a length, which tells whether it is empty.                  *)
LEMMA QueueTyped ==
  ASSUME NEW q, IsQueue(q)
  PROVE  Len(q) \in Nat /\ DOMAIN q = 1..Len(q) /\ (q # <<>> <=> Len(q) > 0)
  BY DEF IsQueue

(* Nothing is in the empty queue.                                          *)
LEMMA EmptyQueue == IsQueue(<<>>) /\ Range(<<>>) = {} /\ Len(<<>>) = 0
  <1>1. <<>> \in Seq({})
    OBVIOUS
  <1>2. QED
    BY <1>1 DEF IsQueue, Range

(* push: the new message is last, and nothing else changes.                *)
LEMMA QueueAppend ==
  ASSUME NEW q, IsQueue(q), NEW m
  PROVE  /\ IsQueue(Append(q, m)) /\ Len(Append(q, m)) = Len(q) + 1
         /\ \A i \in 1..Len(q) : Append(q, m)[i] = q[i]
         /\ Append(q, m)[Len(q) + 1] = m
         /\ Range(Append(q, m)) = Range(q) \cup {m}
  <1>1. PICK S : q \in Seq(S)
    BY Zenon DEF IsQueue
  <1>2. q \in Seq(S \cup {m})
    BY <1>1
  <1>3. Append(q, m) \in Seq(S \cup {m})
    BY <1>2
  <1>4. /\ Len(q) \in Nat /\ Len(Append(q, m)) = Len(q) + 1
        /\ \A i \in 1..Len(q) : Append(q, m)[i] = q[i]
        /\ Append(q, m)[Len(q) + 1] = m
        /\ DOMAIN q = 1..Len(q) /\ DOMAIN Append(q, m) = 1..(Len(q) + 1)
    BY <1>2
  <1>5. Range(Append(q, m)) = Range(q) \cup {m}
    BY <1>4 DEF Range
  <1>6. QED
    BY Zenon, <1>3, <1>4, <1>5 DEF IsQueue

(* pop: the head leaves, and the others move up.                           *)
LEMMA QueueTail ==
  ASSUME NEW q, IsQueue(q), q # <<>>
  PROVE  /\ IsQueue(Tail(q)) /\ Len(Tail(q)) = Len(q) - 1
         /\ \A i \in 1..(Len(q) - 1) : Tail(q)[i] = q[i + 1]
         /\ Head(q) = q[1] /\ Head(q) \in Range(q)
         /\ Range(Tail(q)) \subseteq Range(q)
  <1>1. PICK S : q \in Seq(S)
    BY Zenon DEF IsQueue
  <1>2. Tail(q) \in Seq(S)
    BY <1>1
  <1>3. /\ Len(q) \in Nat \ {0} /\ Len(Tail(q)) = Len(q) - 1
        /\ \A i \in 1..(Len(q) - 1) : Tail(q)[i] = q[i + 1]
        /\ Head(q) = q[1]
        /\ DOMAIN q = 1..Len(q) /\ DOMAIN Tail(q) = 1..(Len(q) - 1)
    BY <1>1
  <1>4. Head(q) \in Range(q)
    BY <1>3 DEF Range
  <1>5. \A i \in 1..(Len(q) - 1) : i + 1 \in 1..Len(q)
    BY <1>3
  <1>6. Range(Tail(q)) \subseteq Range(q)
    BY <1>3, <1>5 DEF Range
  <1>7. QED
    BY Zenon, <1>2, <1>3, <1>4, <1>6 DEF IsQueue

(* Order in a queue and between two queues.                                *)
Sorted(q) == \A i, j \in DOMAIN q : i < j => Fits(q[i], q[j])
InOrder(p, q) == \A x \in Range(p), y \in Range(q) : Fits(x, y)

(* A queue in order stays so if what is pushed fits behind all of it.      *)
LEMMA SortedAppend ==
  ASSUME NEW q, IsQueue(q), Sorted(q), NEW m, \A x \in Range(q) : Fits(x, m)
  PROVE  Sorted(Append(q, m))
  <1> DEFINE a == Append(q, m)
  <1>1. /\ Len(q) \in Nat /\ DOMAIN a = 1..(Len(q) + 1) /\ DOMAIN q = 1..Len(q)
        /\ \A i \in 1..Len(q) : a[i] = q[i]
        /\ a[Len(q) + 1] = m
    BY QueueTyped, QueueAppend
  <1> HIDE DEF a
  <1>2. SUFFICES ASSUME NEW i \in DOMAIN a, NEW j \in DOMAIN a, i < j
                 PROVE  Fits(a[i], a[j])
    BY Zenon DEF Sorted, a
  <1>3. CASE j = Len(q) + 1
    <2>1. i \in DOMAIN q /\ a[j] = m
      BY <1>1, <1>2, <1>3
    <2>2. q[i] \in Range(q)
      BY Zenon, <2>1 DEF Range
    <2>3. QED
      BY Zenon, <1>1, <2>1, <2>2
  <1>4. CASE j # Len(q) + 1
    <2>1. i \in DOMAIN q /\ j \in DOMAIN q
      BY <1>1, <1>2, <1>4
    <2>2. QED
      BY <1>1, <1>2, <2>1 DEF Sorted
  <1>5. QED
    BY Zenon, <1>3, <1>4

(* A queue in order stays so when its head is taken, and the head fits     *)
(* before the rest.                                                        *)
LEMMA SortedTail ==
  ASSUME NEW q, IsQueue(q), q # <<>>, Sorted(q)
  PROVE  Sorted(Tail(q)) /\ \A x \in Range(Tail(q)) : Fits(Head(q), x)
  <1> DEFINE t == Tail(q)
  <1>1. /\ Len(q) \in Nat \ {0} /\ DOMAIN t = 1..(Len(q) - 1) /\ DOMAIN q = 1..Len(q)
        /\ \A i \in DOMAIN t : t[i] = q[i + 1]
        /\ Head(q) = q[1]
    BY QueueTyped, QueueTail
  <1> HIDE DEF t
  <1>2. \A i \in DOMAIN t : i + 1 \in DOMAIN q /\ 1 \in DOMAIN q /\ 1 < i + 1
    BY <1>1
  <1>3. ASSUME NEW x \in Range(t)
        PROVE  Fits(Head(q), x)
    <2>1. PICK i \in DOMAIN t : t[i] = x
      BY Zenon, <1>3 DEF Range
    <2>2. QED
      BY Zenon, <1>1, <1>2, <2>1 DEF Sorted
  <1>4. ASSUME NEW i \in DOMAIN t, NEW j \in DOMAIN t, i < j
        PROVE  Fits(t[i], t[j])
    BY <1>1, <1>2, <1>4 DEF Sorted
  <1>5. QED
    BY Zenon, <1>3, <1>4 DEF Sorted, t

(* The empty queue is in order.                                            *)
LEMMA SortedEmpty == Sorted(<<>>)
  BY DEF Sorted

-----------------------------------------------------------------------------
(* The life of a session.                                                  *)
Listed == Range(activeEncodings)
Running == {"registered", "reading", "lost"}
Over == {"announcing", "ended"}

(* Every connection has its queue.                                         *)
Family(f) == DOMAIN f = Conn /\ \A c \in Conn : IsQueue(f[c])

Queues ==
  /\ plan \in Plans
  /\ sent \in [Conn -> Nat] /\ \A c \in Conn : sent[c] <= Len(plan.sends[c])
  /\ Family(wire) /\ Family(publishing) /\ Family(signing) /\ Family(outgoing) /\ Family(got)
  /\ IsQueue(verified) /\ IsQueue(inputQueue) /\ IsQueue(outputQueue)
  /\ lastId \in Nat /\ DOMAIN subscriptions \subseteq 1..lastId

(* The sessions that run are the ones that are listed.                     *)
Lives ==
  /\ stage \in [Conn -> Stages] /\ alive \in [Conn -> BOOLEAN]
  /\ exchange \in [Conn -> SUBSET {"challenge", "identity"}]
  /\ activeEncodings \in Seq(Conn) /\ IsInjective(activeEncodings)
  /\ \A c \in Conn : publishing[c] # <<>> => stage[c] \in {"authenticating", "announcing"}
  /\ unrouted \in Node \cup {None} /\ DOMAIN adverts \subseteq Node
  /\ \A c \in Conn : stage[c] \in Running <=> c \in Listed
  /\ \A c \in Conn : c \notin Listed => signing[c] = <<>>

(* An opening has been read to its end before the session is registered.   *)
Opened ==
  \A c \in Conn :
    /\ stage[c] \in {"idle", "accepted", "handshaking", "greeted"} => exchange[c] = {}
    /\ stage[c] \in {"accepted", "handshaking"} => Len(wire[c]) <= 3
    /\ stage[c] \in {"greeted", "authenticating"} =>
        /\ Len(wire[c]) <= 2
        /\ exchange[c] # {} => Len(wire[c]) <= 1
        /\ exchange[c] = {"challenge", "identity"} => wire[c] = <<>>
    /\ stage[c] \in {"registered", "reading", "lost", "announcing", "ended"} =>
        exchange[c] = {"challenge", "identity"}

(* What is in flight: mail of peers, and what the resource manager says.   *)
Sent(m) == \E c \in Conn : \E k \in 1..sent[c] : m = plan.sends[c][k]

Told(m) ==
  m.kind \in Events =>
    \A d \in Conn : OnlyConnection(d) /\ m.about = NodeOf(d) =>
      /\ "identity" \in exchange[d]
      /\ m.kind = "disconnected" => stage[d] \in Over

Own(m) == m.kind # "data" /\ Told(m)

(* The mail that the peer of a session has sent and nobody has read.        *)
Mail == [c \in Conn |-> IF stage[c] \in Running \cup Over THEN wire[c] ELSE <<>>]

InFlight ==
  /\ \A m \in Range(verified) \cup Range(inputQueue) : Sent(m)
  /\ \A m \in Range(outputQueue) : Own(m)
  /\ \A c \in Conn :
      /\ \A m \in Range(Mail[c]) : Sent(m) /\ m.from = c
      /\ \A m \in Range(publishing[c]) : Own(m) /\ m.kind \in Events /\ m.about = NodeOf(c)
      /\ \A m \in Range(signing[c]) : Own(m) /\ m.to = NodeOf(c)
      /\ \A m \in Range(outgoing[c]) \cup Range(got[c]) : (Sent(m) \/ Own(m)) /\ m.to = NodeOf(c)

(* The way of the log records to a peer, and that of the mail of a peer.   *)
LogChain(g, o, s, out, pub) ==
  /\ Sorted(out)
  /\ \A d \in Conn : Sorted(pub[d]) /\ InOrder(out, pub[d])
  /\ \A c \in Conn :
      /\ Sorted(s[c]) /\ InOrder(s[c], out) /\ InOrder(o[c], out) /\ InOrder(g[c], out)
      /\ InOrder(o[c], s[c]) /\ InOrder(g[c], s[c])
  /\ \A c, d \in Conn :
      InOrder(s[c], pub[d]) /\ InOrder(o[c], pub[d]) /\ InOrder(g[c], pub[d])
LogOrder == LogChain(got, outgoing, signing, outputQueue, publishing)

MailChain(g, o, ver, mail) ==
  /\ Sorted(ver)
  /\ \A d \in Conn : Sorted(mail[d]) /\ InOrder(ver, mail[d])
  /\ \A c \in Conn :
      /\ Sorted(g[c]) /\ Sorted(o[c]) /\ InOrder(g[c], o[c])
      /\ InOrder(o[c], ver) /\ InOrder(g[c], ver)
  /\ \A c, d \in Conn : InOrder(o[c], mail[d]) /\ InOrder(g[c], mail[d])
MailOrder == MailChain(got, outgoing, verified, Mail)

(* The registry holds every schema that was ever advertised.               *)
RegistryInv ==
  /\ \A hash \in DOMAIN registry.byHash :
      LET schema == registry.byHash[hash] IN
      /\ schema.hash = hash /\ hash # NoHash /\ schema \in Advertised(plan)
      /\ schema.file \in DOMAIN registry.byProtoFile
  /\ \A file \in DOMAIN registry.byProtoFile :
      LET hash == registry.byProtoFile[file] IN
      hash \in DOMAIN registry.byHash /\ registry.byHash[hash].file = file
  /\ \A node \in DOMAIN adverts : \A i \in DOMAIN adverts[node] :
      /\ adverts[node][i] \in Advertised(plan)
      /\ adverts[node][i].hash # NoHash => adverts[node][i].hash \in DOMAIN registry.byHash

-----------------------------------------------------------------------------
(* The encoding that is selected for a node is listed and of that node.    *)
LEMMA SelectedFacts ==
  ASSUME NEW node, NEW c, Selected(c, node)
  PROVE  c \in Listed /\ NodeOf(c) = node
  BY Zenon DEF Selected, Routes, Listed, Range

(* Erasing takes out exactly the encoding asked for.                       *)
LEMMA WithoutFacts ==
  ASSUME activeEncodings \in Seq(Conn), IsInjective(activeEncodings), NEW c \in Listed
  PROVE  /\ Without(c) \in Seq(Conn) /\ IsInjective(Without(c))
         /\ Range(Without(c)) = Listed \ {c}
  <1> DEFINE i == CHOOSE i \in DOMAIN activeEncodings : activeEncodings[i] = c
             n == Len(activeEncodings)
             rest == Without(c)
  <1>1. n \in Nat /\ DOMAIN activeEncodings = 1..n
    OBVIOUS
  <1>2. i \in 1..n /\ activeEncodings[i] = c
    BY Zenon, <1>1 DEF Listed, Range
  <1>3. rest = [j \in 1..(n - 1) |-> IF j < i THEN activeEncodings[j] ELSE activeEncodings[j + 1]]
    BY Zenon DEF Without, Erase, Listed
  <1> HIDE DEF i, n, rest
  <1>4. \A j \in 1..(n - 1) : j \in 1..n /\ j + 1 \in 1..n
    BY <1>1
  <1>5. n - 1 \in Nat
    BY <1>1, <1>2
  <1>6. rest \in Seq(Conn) /\ DOMAIN rest = 1..(n - 1)
    BY <1>1, <1>3, <1>4, <1>5
  <1>7. \A j, k \in 1..n : activeEncodings[j] = activeEncodings[k] => j = k
    BY Zenon, <1>1 DEF IsInjective
  <1>8. IsInjective(rest)
    <2>1. SUFFICES ASSUME NEW j \in 1..(n - 1), NEW k \in 1..(n - 1), rest[j] = rest[k]
                   PROVE  j = k
      BY Zenon, <1>6 DEF IsInjective
    <2>2. QED
      BY <1>1, <1>2, <1>3, <1>4, <1>7, <2>1
  <1>9. \A j \in 1..(n - 1) : rest[j] \in Listed \ {c}
    <2>1. SUFFICES ASSUME NEW j \in 1..(n - 1) PROVE rest[j] \in Listed \ {c}
      BY Zenon
    <2>2. PICK k \in 1..n : rest[j] = activeEncodings[k] /\ k # i
      BY <1>1, <1>2, <1>3, <1>4
    <2>3. activeEncodings[k] # c
      BY Zenon, <1>2, <1>7, <2>2
    <2>4. QED
      BY Zenon, <1>1, <2>2, <2>3 DEF Listed, Range
  <1>10. ASSUME NEW d \in Listed \ {c} PROVE \E j \in 1..(n - 1) : rest[j] = d
    <2>1. PICK k \in 1..n : activeEncodings[k] = d
      BY Zenon, <1>1, <1>10 DEF Listed, Range
    <2>2. k # i
      BY Zenon, <1>2, <1>10, <2>1
    <2>3. CASE k < i
      <3>1. k \in 1..(n - 1)
        BY <1>1, <1>2, <2>3
      <3>2. QED
        BY Zenon, <1>3, <2>1, <2>3, <3>1
    <2>4. CASE k > i
      <3>1. k - 1 \in 1..(n - 1) /\ ~(k - 1 < i) /\ (k - 1) + 1 = k
        BY <1>1, <1>2, <2>4
      <3>2. QED
        BY Zenon, <1>3, <2>1, <3>1
    <2>5. QED
      BY <1>1, <1>2, <2>2, <2>3, <2>4
  <1>11. Range(rest) = Listed \ {c}
    BY Zenon, <1>6, <1>9, <1>10 DEF Range
  <1>12. QED
    BY Zenon, <1>6, <1>8, <1>11 DEF rest

(* The copies of a record are a queue of envelopes, one per subscription.  *)
LEMMA EnvelopeFacts ==
  ASSUME lastId \in Nat, DOMAIN subscriptions \subseteq 1..lastId,
         NEW type, NEW about, NEW copies \in Envelopes(type, about)
  PROVE  /\ IsQueue(copies)
         /\ \A m \in Range(copies) : m.kind = type /\ m.about = about
         /\ \A i, j \in DOMAIN copies : i # j => copies[i].id # copies[j].id
  <1> DEFINE matched == {id \in LiveIds : subscriptions[id].type = type
                                          /\ about \in subscriptions[id].filter}
             Envelope(id) == [to |-> subscriptions[id].node, kind |-> type,
                              about |-> about, id |-> id]
  <1>3. PICK n \in 0..lastId : \E order \in Bijection(1..n, matched) :
                               copies = [i \in DOMAIN order |-> Envelope(order[i])]
    BY DEF Envelopes
  <1>4. PICK order \in Injection(1..n, matched) :
          copies = [i \in DOMAIN order |-> Envelope(order[i])]
    BY Zenon, <1>3 DEF Bijection
  <1>5. order \in [1..n -> matched] /\ \A i, j \in 1..n : order[i] = order[j] => i = j
    BY Zenon, <1>4 DEF Injection, IsInjective
  <1>6. copies = [i \in 1..n |-> Envelope(order[i])]
    BY Zenon, <1>4, <1>5
  <1>7. copies \in Seq({Envelope(id) : id \in matched})
    <2> DEFINE S == {Envelope(id) : id \in matched}
    <2>1. copies \in [1..n -> S]
      BY Zenon, <1>5, <1>6
    <2> HIDE DEF S
    <2>2. n \in Nat
      BY <1>3
    <2>3. copies \in Seq(S)
      BY <2>1, <2>2
    <2>4. QED
      BY Zenon, <2>3 DEF S
  <1>8. IsQueue(copies)
    BY Zenon, <1>7 DEF IsQueue
  <1>9. \A m \in Range(copies) : m.kind = type /\ m.about = about
    BY <1>6 DEF Range
  <1>10. \A i, j \in DOMAIN copies : i # j => copies[i].id # copies[j].id
    BY <1>5, <1>6
  <1>11. QED
    BY Zenon, <1>8, <1>9, <1>10

-----------------------------------------------------------------------------
(* The steps, one by one.                                                  *)
LEMMA NextSplit ==
  ASSUME Next
  PROVE  \/ \E c \in Conn :
              /\ Session(c)
              /\ \/ enqueueAcceptedConnection(c) \/ WorkerTakes(c) \/ Handshake(c)
                 \/ Exchange(c) \/ Register(c) \/ Start(c) \/ readLoop(c)
         \/ \E c \in Conn : \/ handleEncodingDisconnect(c) \/ Publish(c) \/ Sign(c)
                            \/ dispatchSend(c) \/ PeerSends(c) \/ Break(c)
         \/ handleAuthorizedMessage \/ eraseResourceAdvertisement \/ HandleInput
         \/ handleOutputMessage \/ TimePasses
  BY Zenon DEF Next, Thread, Worker, Session

(* What a peer has sent is what its plan says.                             *)
LEMMA SentFacts ==
  ASSUME plan \in Plans, sent \in [Conn -> Nat], \A c \in Conn : sent[c] <= Len(plan.sends[c]),
         NEW m, Sent(m)
  PROVE  /\ m.from \in Conn /\ m.kind \in PeerKinds /\ m.to \in Node \cup {RM}
         /\ NodeOf(m.from) \in Node
         /\ \E k \in 1..sent[m.from] : m = plan.sends[m.from][k]
  <1>0. PICK c \in Conn : \E k \in 1..sent[c] : m = plan.sends[c][k]
    BY Zenon DEF Sent
  <1>1. PICK k \in 1..sent[c] : m = plan.sends[c][k]
    BY Zenon, <1>0
  <1>2. Len(plan.sends[c]) \in Nat /\ DOMAIN plan.sends[c] = 1..Len(plan.sends[c])
    BY PlansAssumption
  <1>3. k \in DOMAIN plan.sends[c]
    BY <1>1, <1>2
  <1>4. m.from = c /\ m.kind \in PeerKinds /\ m.to \in Node \cup {RM}
    BY Zenon, <1>1, <1>3, PlansAssumption
  <1>5. plan.node \in [Conn -> Node]
    BY Zenon, PlansAssumption
  <1>6. QED
    BY Zenon, <1>1, <1>4, <1>5 DEF NodeOf

(* sendLocalMessage and routeAndSend append to one queue of a listed       *)
(* encoding of the addressee, or to none.                                  *)
LEMMA SendLocalFacts ==
  ASSUME Queues, Lives, NEW m, sendLocalMessage(m)
  PROVE  \/ signing' = signing
         \/ \E c \in Listed : /\ c \in Conn /\ NodeOf(c) = m.to
                              /\ signing' = [signing EXCEPT ![c] = Append(@, m)]
  BY Zenon, SelectedFacts DEF sendLocalMessage, Lives

(* routeAndSend gives the message to a listed session of its destination,  *)
(* or notes that there is none.                                            *)
LEMMA RouteFacts ==
  ASSUME Queues, Lives, NEW m, routeAndSend(m)
  PROVE  \/ outgoing' = outgoing /\ unrouted' = m.to
         \/ \E c \in Listed : /\ c \in Conn /\ NodeOf(c) = m.to /\ unrouted' = unrouted
                              /\ outgoing' = [outgoing EXCEPT ![c] = Append(@, m)]
  BY Zenon, SelectedFacts DEF routeAndSend, Lives

(* One queue of a family gets a message.                                   *)
LEMMA AppendAt ==
  ASSUME NEW f, Family(f), NEW d \in Conn, NEW m
  PROVE  /\ Family([f EXCEPT ![d] = Append(@, m)])
         /\ \A c \in Conn : [f EXCEPT ![d] = Append(@, m)][c] = IF c = d THEN Append(f[c], m) ELSE f[c]
  BY Zenon, QueueAppend DEF Family

(* One queue of a family gives up its head.                                *)
LEMMA TailAt ==
  ASSUME NEW f, Family(f), NEW d \in Conn, f[d] # <<>>
  PROVE  /\ Family([f EXCEPT ![d] = Tail(@)])
         /\ \A c \in Conn : [f EXCEPT ![d] = Tail(@)][c] = IF c = d THEN Tail(f[c]) ELSE f[c]
  BY Zenon, QueueTail DEF Family

(* One queue of a family is replaced.                                      *)
LEMMA SetAt ==
  ASSUME NEW f, Family(f), NEW d \in Conn, NEW q, IsQueue(q)
  PROVE  /\ Family([f EXCEPT ![d] = q])
         /\ \A c \in Conn : [f EXCEPT ![d] = q][c] = IF c = d THEN q ELSE f[c]
  BY Zenon DEF Family

(* sendLocalMessage changes at most the signing queue of a listed session  *)
(* of the destination.                                                     *)
LEMMA SigningGrows ==
  ASSUME Queues, Lives, NEW m, sendLocalMessage(m)
  PROVE  /\ Family(signing')
         /\ \/ signing' = signing
            \/ \E c \in Listed :
                /\ c \in Conn /\ NodeOf(c) = m.to
                /\ \A d \in Conn : signing'[d] = IF d = c THEN Append(signing[d], m) ELSE signing[d]
  <1>1. Family(signing)
    BY Zenon DEF Queues
  <1>2. CASE signing' = signing
    BY Zenon, <1>1, <1>2
  <1>3. ASSUME NEW c \in Listed, c \in Conn, NodeOf(c) = m.to,
               signing' = [signing EXCEPT ![c] = Append(@, m)]
        PROVE  /\ Family(signing')
               /\ \A d \in Conn : signing'[d] = IF d = c THEN Append(signing[d], m) ELSE signing[d]
    <2>1. IsQueue(Append(signing[c], m))
      BY Zenon, <1>1, <1>3, QueueAppend DEF Family
    <2>2. QED
      BY Zenon, <1>1, <1>3, <2>1 DEF Family
  <1>4. QED
    BY ZenonT(30), <1>2, <1>3, SendLocalFacts

(* routeAndSend changes at most the outgoing queue of a listed session of  *)
(* the destination.                                                        *)
LEMMA OutgoingGrows ==
  ASSUME Queues, Lives, NEW m, routeAndSend(m)
  PROVE  /\ Family(outgoing')
         /\ \/ outgoing' = outgoing /\ unrouted' = m.to
            \/ \E c \in Listed :
                /\ c \in Conn /\ NodeOf(c) = m.to /\ unrouted' = unrouted
                /\ \A d \in Conn :
                    outgoing'[d] = IF d = c THEN Append(outgoing[d], m) ELSE outgoing[d]
  <1>1. Family(outgoing)
    BY Zenon DEF Queues
  <1>2. CASE outgoing' = outgoing /\ unrouted' = m.to
    BY Zenon, <1>1, <1>2
  <1>3. ASSUME NEW c \in Listed, c \in Conn, NodeOf(c) = m.to, unrouted' = unrouted,
               outgoing' = [outgoing EXCEPT ![c] = Append(@, m)]
        PROVE  /\ Family(outgoing')
               /\ \A d \in Conn : outgoing'[d] = IF d = c THEN Append(outgoing[d], m) ELSE outgoing[d]
    <2>1. IsQueue(Append(outgoing[c], m))
      BY Zenon, <1>1, <1>3, QueueAppend DEF Family
    <2>2. QED
      BY Zenon, <1>1, <1>3, <2>1 DEF Family
  <1>4. QED
    BY ZenonT(30), <1>2, <1>3, RouteFacts

(* What publishLogRecord starts to deliver.                                *)
LEMMA PublishFacts ==
  ASSUME Queues, NEW c \in Conn, NEW type, publishLogRecord(c, type)
  PROVE  /\ \E copies \in Envelopes(type, NodeOf(c)) :
              /\ IsQueue(copies)
              /\ \A d \in Conn : publishing'[d] = IF d = c THEN copies ELSE publishing[d]
         /\ Family(publishing')
         /\ lastId' \in Nat /\ DOMAIN subscriptions' \subseteq 1..lastId'
  <1>1. PICK copies \in Envelopes(type, NodeOf(c)) : publishing' = [publishing EXCEPT ![c] = copies]
    BY Zenon DEF publishLogRecord
  <1>2. IsQueue(copies)
    BY Zenon, EnvelopeFacts DEF Queues
  <1>3. DOMAIN subscriptions' \subseteq 1..lastId' /\ lastId' \in Nat
    BY Zenon DEF publishLogRecord, CopySubscriptions, Restrict, LiveIds, Queues
  <1>4. /\ Family(publishing')
        /\ \A d \in Conn : publishing'[d] = IF d = c THEN copies ELSE publishing[d]
    <2>1. Family(publishing)
      BY Zenon DEF Queues
    <2>2. QED
      BY Zenon, <1>1, <1>2, <2>1 DEF Family
  <1>5. QED
    BY Zenon, <1>2, <1>3, <1>4

(* A reply goes to the end of the output queue.                            *)
LEMMA OutputFacts ==
  ASSUME Queues, NEW r, Output(r)
  PROVE  IsQueue(outputQueue') /\ outputQueue' = Append(outputQueue, r)
  BY Zenon, QueueAppend DEF Queues, Output

(* The worker of the input queue answers, or enters an advertisement.      *)
AnswerKinds == {"schema reply", "query reply", "error", "subscribe reply", "unsubscribe reply",
                "ping reply"}

(* A handler answers at most once, and only an advertisement changes the   *)
(* registry.                                                               *)
LEMMA AnswerFacts ==
  ASSUME Queues, NEW m, HandleMessage(m)
  PROVE  /\ \/ outputQueue' = outputQueue
            \/ \E r : Output(r) /\ r.kind \in AnswerKinds
         /\ lastId' \in Nat /\ DOMAIN subscriptions' \subseteq 1..lastId'
         /\ UNCHANGED <<registry, adverts>> \/ (m.kind = "advertisement" /\ Advertise(m))
  <1>r. \A kind, body : Reply(m, kind, body).kind = kind
    BY Zenon DEF Reply
  <1>1. CASE /\ subscribe(NodeOf(m.from), m.request)
             /\ Output(Reply(m, "subscribe reply", m.request.valid))
             /\ UNCHANGED <<registry, adverts>>
    <2>1. lastId' \in Nat /\ DOMAIN subscriptions' \subseteq 1..lastId'
      <3> DEFINE entry == [node |-> NodeOf(m.from), type |-> m.request.type,
                           filter |-> m.request.filter, expired |-> FALSE]
      <3>1. \/ lastId' = lastId + 1 /\ subscriptions' = Put(subscriptions, lastId', entry)
            \/ UNCHANGED <<subscriptions, lastId>>
        BY Zenon, <1>1 DEF subscribe, logVars
      <3> HIDE DEF entry
      <3>2. QED
        BY <3>1 DEF Put, Queues
    <2>2. Reply(m, "subscribe reply", m.request.valid).kind \in AnswerKinds
      BY Zenon, <1>r DEF AnswerKinds
    <2>3. QED
      BY Zenon, <1>1, <2>1, <2>2
  <1>2. CASE /\ unsubscribe(NodeOf(m.from), m.id)
             /\ Output(Reply(m, "unsubscribe reply", <<>>))
             /\ UNCHANGED <<registry, adverts>>
    <2>1. lastId' \in Nat /\ DOMAIN subscriptions' \subseteq 1..lastId'
      <3>1. unsubscribe(NodeOf(m.from), m.id)
        BY Zenon, <1>2
      <3>2. QED
        BY Zenon, <3>1 DEF unsubscribe, Restrict, Queues
    <2>2. Reply(m, "unsubscribe reply", <<>>).kind \in AnswerKinds
      BY Zenon, <1>r DEF AnswerKinds
    <2>3. QED
      BY Zenon, <1>2, <2>1, <2>2
  <1>3. CASE handleNodeSpecificMessage(m)
    <2>1. UNCHANGED logVars
      BY Zenon, <1>3 DEF handleNodeSpecificMessage, Advertise
    <2>2. lastId' \in Nat /\ DOMAIN subscriptions' \subseteq 1..lastId'
      BY Zenon, <2>1 DEF logVars, Queues
    <2>3. \/ outputQueue' = outputQueue
          \/ \E r : Output(r) /\ r.kind \in AnswerKinds
      <3> DEFINE parsed == ParsedQuery(m.query)
                 answer == IF parsed.ok
                           THEN Reply(m, "query reply", MatchingServices(adverts, parsed.expr, m.max))
                           ELSE Reply(m, "error", <<>>)
      <3>1. answer.kind \in AnswerKinds
        BY ZenonT(30), <1>r DEF AnswerKinds
      <3>2. \/ UNCHANGED outputQueue
            \/ Output(Reply(m, "schema reply", RequestedSchemas(m)))
            \/ Output(answer)
        BY Zenon, <1>3 DEF handleNodeSpecificMessage, Advertise, Output
      <3> HIDE DEF answer
      <3>3. Reply(m, "schema reply", RequestedSchemas(m)).kind \in AnswerKinds
        BY Zenon, <1>r DEF AnswerKinds
      <3>4. QED
        BY Zenon, <3>1, <3>2, <3>3
    <2>4. UNCHANGED <<registry, adverts>> \/ (m.kind = "advertisement" /\ Advertise(m))
      BY Zenon, <1>3 DEF handleNodeSpecificMessage
    <2>5. QED
      BY Zenon, <2>2, <2>3, <2>4
  <1>4. CASE /\ Output(Reply(m, "ping reply", <<>>))
             /\ UNCHANGED <<registry, adverts, logVars>>
    <2>1. lastId' \in Nat /\ DOMAIN subscriptions' \subseteq 1..lastId'
      <3>1. UNCHANGED logVars
        BY Zenon, <1>4
      <3>2. QED
        BY Zenon, <3>1 DEF logVars, Queues
    <2>2. Reply(m, "ping reply", <<>>).kind \in AnswerKinds
      BY Zenon, <1>r DEF AnswerKinds
    <2>3. QED
      BY Zenon, <1>4, <2>1, <2>2
  <1>5. QED
    BY Zenon, <1>1, <1>2, <1>3, <1>4 DEF HandleMessage

-----------------------------------------------------------------------------
(* Every step keeps the queues and the counters in their types.            *)
LEMMA QueuesNext ==
  ASSUME Queues, Lives, Next
  PROVE  Queues'
  <1>q. /\ Family(wire) /\ Family(publishing) /\ Family(signing) /\ Family(outgoing) /\ Family(got)
        /\ IsQueue(verified) /\ IsQueue(inputQueue) /\ IsQueue(outputQueue)
    BY Zenon DEF Queues
  <1>1. ASSUME NEW c \in Conn, Session(c), enqueueAcceptedConnection(c) PROVE Queues'
    <2>1. IsQueue(plan.opening[c])
      BY Zenon, <1>1, PlansAssumption DEF IsQueue, enqueueAcceptedConnection, Queues
    <2>2. Family(wire')
      BY Zenon, <1>1, <1>q, <2>1, SetAt DEF enqueueAcceptedConnection
    <2>3. QED
      BY Zenon, <1>1, <2>2 DEF Queues, Session, enqueueAcceptedConnection, peerVars, logVars
  <1>2. ASSUME NEW c \in Conn, Session(c), WorkerTakes(c) \/ Start(c) \/ Register(c) PROVE Queues'
    BY Zenon, <1>2 DEF Queues, Session, WorkerTakes, Start, Register, peerVars, logVars
  <1>3. ASSUME NEW c \in Conn, Readable(c), Read(c) PROVE Family(wire')
    BY Zenon, <1>3, <1>q, TailAt DEF Readable, Read
  <1>4. ASSUME NEW c \in Conn, Session(c), Handshake(c) PROVE Queues'
    <2>1. Family(wire')
      BY Zenon, <1>4, <1>3, <1>q DEF Handshake
    <2>2. QED
      BY Zenon, <1>4, <2>1 DEF Queues, Session, Handshake, peerVars, logVars
  <1>5. ASSUME NEW c \in Conn, Session(c), Exchange(c) PROVE Queues'
    <2>1. /\ Family(publishing')
          /\ lastId' \in Nat /\ DOMAIN subscriptions' \subseteq 1..lastId'
      <3>1. publishLogRecord(c, "connected") \/ UNCHANGED <<publishing, logVars>>
        BY Zenon, <1>5 DEF Exchange
      <3>2. CASE publishLogRecord(c, "connected")
        BY Zenon, <3>2, PublishFacts
      <3>3. CASE UNCHANGED <<publishing, logVars>>
        BY Zenon, <3>3 DEF Queues, logVars
      <3>4. QED
        BY Zenon, <3>1, <3>2, <3>3
    <2>2. Family(wire')
      BY Zenon, <1>5, <1>3, <1>q DEF Exchange
    <2>3. QED
      BY Zenon, <1>5, <2>1, <2>2 DEF Queues, Session, Exchange, peerVars
  <1>6. ASSUME NEW c \in Conn, Session(c), readLoop(c) PROVE Queues'
    <2>1. Family(wire')
      BY Zenon, <1>6, <1>3, <1>q DEF readLoop
    <2>2. IsQueue(verified')
      <3>1. UNCHANGED verified \/ verified' = Append(verified, Head(wire[c]))
        BY Zenon, <1>6 DEF readLoop, handleVerifiedMessage
      <3>2. QED
        <4>1. CASE verified' = Append(verified, Head(wire[c]))
          BY Zenon, <1>q, <4>1, QueueAppend
        <4>2. QED
          BY Zenon, <1>q, <3>1, <4>1
    <2>3. QED
      BY Zenon, <1>6, <2>1, <2>2 DEF Queues, Session, readLoop, peerVars, logVars
  <1>7. ASSUME NEW c \in Conn, handleEncodingDisconnect(c) PROVE Queues'
    <2>1. /\ Family(publishing')
          /\ lastId' \in Nat /\ DOMAIN subscriptions' \subseteq 1..lastId'
      BY Zenon, <1>7, PublishFacts DEF handleEncodingDisconnect
    <2>2. Family(signing')
      BY Zenon, <1>7, <1>q, SetAt, EmptyQueue DEF handleEncodingDisconnect
    <2>3. QED
      BY Zenon, <1>7, <2>1, <2>2 DEF Queues, handleEncodingDisconnect, peerVars
  <1>8. ASSUME NEW c \in Conn, Publish(c) PROVE Queues'
    <2>1. Family(publishing')
      <3>1. \/ UNCHANGED publishing
            \/ publishing[c] # <<>> /\ publishing' = [publishing EXCEPT ![c] = Tail(@)]
        BY Zenon, <1>8 DEF Publish
      <3>2. QED
        <4>1. CASE publishing[c] # <<>> /\ publishing' = [publishing EXCEPT ![c] = Tail(@)]
          BY Zenon, <1>q, <4>1, TailAt
        <4>2. QED
          BY Zenon, <1>q, <3>1, <4>1
    <2>2. IsQueue(outputQueue')
      <3>1. UNCHANGED outputQueue \/ outputQueue' = Append(outputQueue, Head(publishing[c]))
        BY Zenon, <1>8 DEF Publish
      <3>2. QED
        <4>1. CASE outputQueue' = Append(outputQueue, Head(publishing[c]))
          BY Zenon, <1>q, <4>1, QueueAppend
        <4>2. QED
          BY Zenon, <1>q, <3>1, <4>1
    <2>3. QED
      BY Zenon, <1>8, <2>1, <2>2 DEF Queues, Publish, peerVars, logVars
  <1>9. ASSUME NEW c \in Conn, Sign(c) PROVE Queues'
    <2>1. Family(signing')
      BY Zenon, <1>9, <1>q, TailAt DEF Sign
    <2>2. Family(outgoing')
      BY Zenon, <1>9, <1>q, AppendAt DEF Sign
    <2>3. QED
      BY Zenon, <1>9, <2>1, <2>2 DEF Queues, Sign, peerVars, logVars, sessionVars
  <1>10. ASSUME NEW c \in Conn, dispatchSend(c) PROVE Queues'
    <2>1. Family(outgoing')
      BY Zenon, <1>10, <1>q, TailAt DEF dispatchSend
    <2>2. Family(got')
      BY Zenon, <1>10, <1>q, AppendAt DEF dispatchSend, writeMessage
    <2>3. QED
      BY Zenon, <1>10, <2>1, <2>2 DEF Queues, dispatchSend, logVars, sessionVars
  <1>11. ASSUME NEW c \in Conn, PeerSends(c) PROVE Queues'
    <2>1. Family(wire')
      BY Zenon, <1>11, <1>q, AppendAt DEF PeerSends
    <2>2. Len(plan.sends[c]) \in Nat
      BY Zenon, PlansAssumption DEF Queues
    <2>3. sent' \in [Conn -> Nat] /\ \A d \in Conn : sent'[d] <= Len(plan.sends[d])
      BY <1>11, <2>2 DEF PeerSends, Queues
    <2>4. QED
      BY Zenon, <1>11, <2>1, <2>3 DEF Queues, PeerSends, queueVars, logVars
  <1>12. ASSUME NEW c \in Conn, Break(c) PROVE Queues'
    <2>1. Family(wire')
      <3>1. UNCHANGED wire \/ wire' = [wire EXCEPT ![c] = <<>>]
        BY Zenon, <1>12 DEF Break
      <3>2. QED
        <4>1. CASE wire' = [wire EXCEPT ![c] = <<>>]
          BY Zenon, <1>q, <4>1, SetAt, EmptyQueue
        <4>2. QED
          BY Zenon, <1>q, <3>1, <4>1
    <2>2. QED
      BY Zenon, <1>12, <2>1 DEF Queues, Break, queueVars, logVars
  <1>13. CASE handleAuthorizedMessage
    <2> DEFINE m == Head(verified)
    <2>1. verified # <<>> /\ verified' = Tail(verified) /\ Authorize(m)
      BY Zenon, <1>13 DEF handleAuthorizedMessage
    <2> HIDE DEF m
    <2>2. IsQueue(verified')
      BY Zenon, <1>q, <2>1, QueueTail
    <2>3. Family(signing')
      <3>1. UNCHANGED signing
            \/ sendLocalMessage([to |-> NodeOf(m.from), kind |-> "endorsement needed"])
        BY Zenon, <2>1 DEF Authorize, sendEndorsementNeeded
      <3>2. QED
        BY Zenon, <1>q, <3>1, SigningGrows
    <2>4. Family(outgoing')
      <3>1. UNCHANGED outgoing \/ routeAndSend(m)
        BY Zenon, <2>1 DEF Authorize
      <3>2. QED
        BY Zenon, <1>q, <3>1, OutgoingGrows
    <2>5. IsQueue(inputQueue')
      <3>1. UNCHANGED inputQueue \/ inputQueue' = Append(inputQueue, m)
        BY Zenon, <2>1 DEF Authorize
      <3>2. QED
        <4>1. CASE inputQueue' = Append(inputQueue, m)
          BY Zenon, <1>q, <4>1, QueueAppend
        <4>2. QED
          BY Zenon, <1>q, <3>1, <4>1
    <2>6. UNCHANGED <<plan, sessionVars, logVars, outputQueue, peerVars>>
      BY Zenon, <2>1 DEF Authorize
    <2>7. QED
      BY Zenon, <2>2, <2>3, <2>4, <2>5, <2>6 DEF Queues, peerVars, logVars, sessionVars
  <1>14. CASE eraseResourceAdvertisement
    BY Zenon, <1>14 DEF Queues, eraseResourceAdvertisement, peerVars, logVars, sessionVars
  <1>15. CASE HandleInput
    <2>1. IsQueue(inputQueue')
      BY Zenon, <1>15, <1>q, QueueTail DEF HandleInput
    <2>2. IsQueue(outputQueue') /\ lastId' \in Nat /\ DOMAIN subscriptions' \subseteq 1..lastId'
      BY Zenon, <1>15, <1>q, AnswerFacts, OutputFacts DEF HandleInput
    <2>3. UNCHANGED <<plan, sessionVars, verified, unrouted, signing, outgoing, peerVars>>
      BY Zenon, <1>15 DEF HandleInput
    <2>4. QED
      BY Zenon, <2>1, <2>2, <2>3 DEF Queues, peerVars, sessionVars
  <1>16. CASE handleOutputMessage
    <2>1. IsQueue(outputQueue')
      BY Zenon, <1>16, <1>q, QueueTail DEF handleOutputMessage
    <2>2. Family(signing')
      BY Zenon, <1>16, SigningGrows DEF handleOutputMessage
    <2>3. UNCHANGED <<plan, sessionVars, logVars, verified, inputQueue, outgoing, peerVars>>
      BY Zenon, <1>16 DEF handleOutputMessage
    <2>4. QED
      BY Zenon, <2>1, <2>2, <2>3 DEF Queues, peerVars, logVars, sessionVars
  <1>17. CASE TimePasses
    BY Zenon, <1>17 DEF Queues, TimePasses, DurationPasses, peerVars, queueVars, sessionVars
  <1>18. QED
    BY Zenon, NextSplit, <1>1, <1>2, <1>4, <1>5, <1>6, <1>7, <1>8, <1>9, <1>10, <1>11, <1>12,
       <1>13, <1>14, <1>15, <1>16, <1>17

-----------------------------------------------------------------------------
(* Setting one flag of alive keeps its type.                               *)
LEMMA AliveTyped ==
  ASSUME Lives, NEW c \in Conn
  PROVE  /\ alive \in [Conn -> BOOLEAN]
         /\ \A b \in BOOLEAN : [alive EXCEPT ![c] = b] \in [Conn -> BOOLEAN]
  BY Zenon DEF Lives

(* A session that changes its stage without being listed or taken out      *)
(* keeps Lives.                                                            *)
LEMMA MoveKeeps ==
  ASSUME Queues, Lives, NEW c \in Conn, NEW s \in Stages, MoveTo(c, s),
         s \in Running <=> stage[c] \in Running,
         s \notin {"authenticating", "announcing"} => publishing[c] = <<>>,
         alive' \in [Conn -> BOOLEAN],
         UNCHANGED <<exchange, activeEncodings, publishing, unrouted, adverts, signing, plan>>
  PROVE  Lives'
  <1>1. stage' \in [Conn -> Stages] /\ \A d \in Conn : stage'[d] = IF d = c THEN s ELSE stage[d]
    BY Zenon DEF MoveTo, Lives
  <1>2. \A d \in Conn : stage'[d] \in Running <=> d \in Listed'
    BY Zenon, <1>1 DEF Lives, Listed
  <1>3. \A d \in Conn : publishing'[d] # <<>> => stage'[d] \in {"authenticating", "announcing"}
    BY Zenon, <1>1 DEF Lives
  <1>4. QED
    BY Zenon, <1>1, <1>2, <1>3 DEF Lives, Listed

(* Every step keeps the listed sessions those that run.                    *)
LEMMA LivesNext ==
  ASSUME Queues, Lives, InFlight, Next
  PROVE  Lives'
  <1>p. Family(publishing) /\ Family(signing)
    BY Zenon DEF Queues
  <1>1. ASSUME NEW c \in Conn, Session(c),
               enqueueAcceptedConnection(c) \/ WorkerTakes(c) \/ Start(c) \/ readLoop(c)
        PROVE  Lives'
    <2>1. PICK s \in Stages :
            /\ MoveTo(c, s) \/ UNCHANGED stage
            /\ s \notin {"authenticating", "announcing"} => publishing[c] = <<>>
            /\ s \in Running <=> stage[c] \in Running
      BY Zenon, <1>1 DEF enqueueAcceptedConnection, WorkerTakes, Start, readLoop, Stages, Running, Lives
    <2>2. alive' \in [Conn -> BOOLEAN]
      <3>1. alive' = alive \/ alive' = [alive EXCEPT ![c] = TRUE]
        BY Zenon, <1>1 DEF enqueueAcceptedConnection, WorkerTakes, Start, readLoop
      <3>2. QED
        BY Zenon, <3>1, AliveTyped
    <2>3. UNCHANGED <<exchange, activeEncodings, publishing, unrouted, adverts, signing, plan>>
      BY Zenon, <1>1 DEF enqueueAcceptedConnection, WorkerTakes, Start, readLoop, Session
    <2>4. CASE UNCHANGED stage
      BY Zenon, <2>2, <2>3, <2>4 DEF Lives, Listed
    <2>5. CASE MoveTo(c, s)
      BY Zenon, <2>1, <2>2, <2>3, <2>5, MoveKeeps
    <2>6. QED
      BY Zenon, <2>1, <2>4, <2>5
  <1>2. ASSUME NEW c \in Conn, Session(c), Handshake(c) PROVE Lives'
    <2>1. PICK s \in Stages : MoveTo(c, s) /\ s \notin Running
      BY Zenon, <1>2 DEF Handshake, Refuse, Stages, Running
    <2>2. alive' \in [Conn -> BOOLEAN]
      <3>1. alive' = alive \/ alive' = [alive EXCEPT ![c] = FALSE]
        BY Zenon, <1>2 DEF Handshake, Refuse
      <3>2. QED
        BY Zenon, <3>1, AliveTyped
    <2>5. publishing[c] = <<>> /\ stage[c] \notin Running
      BY Zenon, <1>2 DEF Handshake, Lives, Running
    <2>3. UNCHANGED <<exchange, activeEncodings, publishing, unrouted, adverts, signing, plan>>
      BY Zenon, <1>2 DEF Handshake, Session
    <2>4. QED
      BY Zenon, <2>1, <2>2, <2>3, <2>5, MoveKeeps
  <1>3. ASSUME NEW c \in Conn, Session(c), Exchange(c) PROVE Lives'
    <2>1. stage[c] = "authenticating" /\ publishing[c] = <<>>
      BY Zenon, <1>3 DEF Exchange
    <2>2. UNCHANGED <<activeEncodings, unrouted, adverts, signing, plan>>
      BY Zenon, <1>3 DEF Exchange, Session
    <2>3. \/ /\ UNCHANGED <<stage, alive>>
             /\ publishLogRecord(c, "connected") \/ UNCHANGED publishing
             /\ Head(wire[c]) \in {"challenge", "identity"}
             /\ exchange' = [exchange EXCEPT ![c] = @ \cup {Head(wire[c])}]
          \/ Refuse(c) /\ UNCHANGED <<exchange, publishing>>
      BY Zenon, <1>3 DEF Exchange, validateReceivedIdentity
    <2>4. exchange' \in [Conn -> SUBSET {"challenge", "identity"}]
      BY <2>3 DEF Lives
    <2>5. CASE Refuse(c) /\ UNCHANGED publishing
      BY Zenon, <2>1, <2>2, <2>4, <2>5 DEF Lives, Refuse, MoveTo, Listed, Stages, Running
    <2>6. CASE UNCHANGED <<stage, alive>>
      <3>1. \A d \in Conn : d # c => publishing'[d] = publishing[d]
        BY Zenon, <2>1, <2>3, <2>6, PublishFacts DEF Refuse, MoveTo, Lives
      <3>2. QED
        BY Zenon, <2>1, <2>2, <2>4, <2>6, <3>1 DEF Lives, Listed
    <2>7. QED
      BY Zenon, <2>3, <2>5, <2>6
  <1>4. ASSUME NEW c \in Conn, Session(c), Register(c) PROVE Lives'
    <2>1. /\ stage[c] = "authenticating" /\ publishing[c] = <<>> /\ MoveTo(c, "registered")
          /\ activeEncodings' = Append(activeEncodings, c)
          /\ UNCHANGED <<alive, exchange, publishing, unrouted, adverts, signing, plan>>
      BY Zenon, <1>4 DEF Register, Authenticated, Session
    <2>2. c \notin Listed
      BY Zenon, <2>1 DEF Lives, Running
    <2>3. activeEncodings' \in Seq(Conn) /\ Listed' = Listed \cup {c}
      <3>1. IsQueue(activeEncodings)
        BY Zenon DEF Lives, IsQueue
      <3>2. Range(Append(activeEncodings, c)) = Range(activeEncodings) \cup {c}
        BY Zenon, <3>1, QueueAppend
      <3>3. QED
        BY <2>1, <3>2 DEF Listed, Lives
    <2>4. IsInjective(activeEncodings')
      <3>1. \A i \in DOMAIN activeEncodings : activeEncodings[i] # c
        BY Zenon, <2>2 DEF Listed, Range
      <3>2. QED
        BY <2>1, <3>1 DEF IsInjective, Lives
    <2>5. QED
      BY Zenon, <2>1, <2>2, <2>3, <2>4 DEF Lives, MoveTo, Stages, Running
  <1>5. ASSUME NEW c \in Conn, handleEncodingDisconnect(c) PROVE Lives'
    <2>1. /\ stage[c] = "lost" /\ MoveTo(c, "announcing") /\ activeEncodings' = Without(c)
          /\ signing' = [signing EXCEPT ![c] = <<>>]
          /\ UNCHANGED <<alive, exchange, unrouted, adverts, plan>>
      BY Zenon, <1>5 DEF handleEncodingDisconnect
    <2>2. c \in Listed
      BY Zenon, <2>1 DEF Lives, Running
    <2>3. /\ activeEncodings' \in Seq(Conn) /\ IsInjective(activeEncodings')
          /\ Listed' = Listed \ {c}
      BY Zenon, <2>1, <2>2, WithoutFacts DEF Lives, Listed
    <2>4. \A d \in Conn : d # c => publishing'[d] = publishing[d]
      <3>1. publishLogRecord(c, "disconnected")
        BY Zenon, <1>5 DEF handleEncodingDisconnect
      <3>2. QED
        BY Zenon, <3>1, PublishFacts
    <2>5. \A d \in Conn : d \notin Listed' => signing'[d] = <<>>
      BY Zenon, <1>p, <2>1, <2>3 DEF Lives, Family
    <2>6. QED
      BY Zenon, <2>1, <2>3, <2>4, <2>5 DEF Lives, MoveTo, Stages, Running
  <1>6. ASSUME NEW c \in Conn, Publish(c) PROVE Lives'
    <2>1. UNCHANGED <<alive, exchange, activeEncodings, unrouted, adverts, signing, plan>>
      BY Zenon, <1>6 DEF Publish
    <2>2. \/ /\ publishing[c] = <<>> /\ stage[c] = "announcing" /\ MoveTo(c, "ended")
             /\ UNCHANGED publishing
          \/ /\ publishing[c] # <<>> /\ publishing' = [publishing EXCEPT ![c] = Tail(@)]
             /\ UNCHANGED stage
      BY Zenon, <1>6 DEF Publish
    <2>3. \A d \in Conn : publishing'[d] # <<>> => publishing[d] # <<>>
      BY Zenon, <1>p, <2>2 DEF Family
    <2>4. QED
      BY Zenon, <2>1, <2>2, <2>3 DEF Lives, MoveTo, Stages, Running, Listed
  <1>7. ASSUME NEW c \in Conn, Sign(c) PROVE Lives'
    BY Zenon, <1>7, <1>p DEF Sign, Lives, sessionVars, Listed, Family
  <1>8. ASSUME NEW c \in Conn, dispatchSend(c) \/ PeerSends(c) PROVE Lives'
    BY Zenon, <1>8 DEF dispatchSend, PeerSends, Lives, sessionVars, queueVars, Listed
  <1>9. ASSUME NEW c \in Conn, Break(c) PROVE Lives'
    BY Zenon, <1>9 DEF Break, Lives, queueVars, Listed
  <1>s. ASSUME NEW m, sendLocalMessage(m), UNCHANGED activeEncodings
        PROVE  \A d \in Conn : d \notin Listed' => signing'[d] = <<>>
    BY Zenon, <1>s, SigningGrows DEF Lives, Listed
  <1>10. CASE handleAuthorizedMessage
    <2> DEFINE m == Head(verified)
    <2>1. Sent(m) /\ Authorize(m)
      BY Zenon, <1>10, QueueTail DEF handleAuthorizedMessage, Queues, InFlight
    <2> HIDE DEF m
    <2>2. UNCHANGED <<plan, sessionVars, adverts>>
      BY Zenon, <2>1 DEF Authorize
    <2>3. \A d \in Conn : d \notin Listed' => signing'[d] = <<>>
      <3>1. UNCHANGED signing
            \/ sendLocalMessage([to |-> NodeOf(m.from), kind |-> "endorsement needed"])
        BY Zenon, <2>1 DEF Authorize, sendEndorsementNeeded
      <3>2. CASE UNCHANGED signing
        BY Zenon, <2>2, <3>2 DEF Lives, sessionVars, Listed
      <3>3. UNCHANGED activeEncodings
        BY Zenon, <2>2 DEF sessionVars
      <3>4. QED
        BY Zenon, <1>s, <3>1, <3>2, <3>3
    <2>4. unrouted' \in Node \cup {None}
      <3>1. \/ UNCHANGED unrouted
            \/ m.to # RM /\ routeAndSend(m)
        BY Zenon, <2>1 DEF Authorize, isForThisNode
      <3>2. m.to \in Node \cup {RM}
        BY Zenon, <2>1, SentFacts DEF Queues
      <3>3. CASE m.to # RM /\ routeAndSend(m)
        <4>1. unrouted' = m.to \/ unrouted' = unrouted
          BY Zenon, <3>3 DEF routeAndSend
        <4>2. QED
          BY Zenon, <3>2, <3>3, <4>1 DEF Lives
      <3>4. QED
        BY Zenon, <3>1, <3>3 DEF Lives
    <2>5. QED
      BY Zenon, <2>2, <2>3, <2>4 DEF Lives, sessionVars, Listed
  <1>11. CASE eraseResourceAdvertisement
    BY Zenon, <1>11 DEF eraseResourceAdvertisement, Lives, sessionVars, Listed, Restrict
  <1>12. CASE HandleInput
    <2> DEFINE m == Head(inputQueue)
    <2>1. Sent(m) /\ HandleMessage(m)
      BY Zenon, <1>12, QueueTail DEF HandleInput, Queues, InFlight
    <2>2. UNCHANGED <<plan, sessionVars, unrouted, signing>>
      BY Zenon, <1>12 DEF HandleInput
    <2> HIDE DEF m
    <2>3. UNCHANGED adverts \/ Advertise(m)
      BY Zenon, <2>1, AnswerFacts
    <2>4. NodeOf(m.from) \in Node
      BY Zenon, <2>1, SentFacts DEF Queues
    <2>5. DOMAIN adverts' \subseteq Node
      BY <2>3, <2>4 DEF Advertise, Restrict, Put, Lives
    <2>6. QED
      BY Zenon, <2>2, <2>5 DEF Lives, sessionVars, Listed
  <1>13. CASE handleOutputMessage
    <2>1. UNCHANGED <<plan, sessionVars, adverts, unrouted>>
      BY Zenon, <1>13 DEF handleOutputMessage
    <2>2. UNCHANGED activeEncodings
      BY Zenon, <2>1 DEF sessionVars
    <2>3. \A d \in Conn : d \notin Listed' => signing'[d] = <<>>
      BY Zenon, <1>13, <1>s, <2>2 DEF handleOutputMessage
    <2>4. QED
      BY Zenon, <2>1, <2>3 DEF Lives, sessionVars, Listed
  <1>14. CASE TimePasses
    BY Zenon, <1>14 DEF TimePasses, Lives, sessionVars, queueVars, Listed
  <1>15. QED
    BY Zenon, NextSplit, <1>1, <1>2, <1>3, <1>4, <1>5, <1>6, <1>7, <1>8, <1>9, <1>10, <1>11, <1>12,
       <1>13, <1>14

-----------------------------------------------------------------------------
(* Every step keeps the order of opening, exchange and registration.       *)
LEMMA OpenedNext ==
  ASSUME Queues, Lives, Opened, Next
  PROVE  Opened'
  <1>q. Family(wire) /\ stage \in [Conn -> Stages] /\ DOMAIN exchange = Conn
    BY Zenon DEF Queues, Lives
  <1>l. \A c \in Conn : Len(wire[c]) \in Nat /\ (wire[c] = <<>> <=> Len(wire[c]) = 0)
    BY <1>q, QueueTyped DEF Family
  <1>t. ASSUME NEW c \in Conn, Readable(c), Read(c)
        PROVE  /\ Len(wire'[c]) = Len(wire[c]) - 1 /\ (wire'[c] = <<>> <=> Len(wire'[c]) = 0)
               /\ \A d \in Conn : d # c => wire'[d] = wire[d]
    <2>1. wire'[c] = Tail(wire[c]) /\ \A d \in Conn : d # c => wire'[d] = wire[d]
      BY Zenon, <1>q, <1>t DEF Read, Family
    <2>2. IsQueue(Tail(wire[c])) /\ Len(Tail(wire[c])) = Len(wire[c]) - 1
      BY Zenon, <1>q, <1>t, QueueTail DEF Family, Readable
    <2>3. (Tail(wire[c]) = <<>> <=> Len(Tail(wire[c])) = 0) /\ Len(Tail(wire[c])) \in Nat
      <3> DEFINE rest == Tail(wire[c])
      <3>1. IsQueue(rest)
        BY Zenon, <2>2
      <3> HIDE DEF rest
      <3>2. (rest = <<>> <=> Len(rest) = 0) /\ Len(rest) \in Nat
        BY <3>1, QueueTyped
      <3>3. QED
        BY Zenon, <3>2 DEF rest
    <2>4. QED
      BY Zenon, <2>1, <2>2, <2>3
  <1>1. ASSUME NEW c \in Conn, enqueueAcceptedConnection(c) PROVE Opened'
    <2>1. Len(plan.opening[c]) <= 3
      BY Zenon, <1>1, PlansAssumption DEF enqueueAcceptedConnection, Queues
    <2>2. QED
      BY Zenon, <1>1, <1>q, <2>1 DEF enqueueAcceptedConnection, Opened, MoveTo, Family
  <1>2. ASSUME NEW c \in Conn, WorkerTakes(c) \/ Start(c) \/ Register(c) PROVE Opened'
    BY <1>2, <1>q DEF WorkerTakes, Start, Register, Authenticated, Opened, MoveTo
  <1>3. ASSUME NEW c \in Conn, Handshake(c) PROVE Opened'
    <2>1. CASE Refuse(c)
      <3>1. \A d \in Conn : d # c => wire'[d] = wire[d]
        BY Zenon, <1>3, <1>q DEF Handshake, Read, Family
      <3>2. stage' = [stage EXCEPT ![c] = "refused"] /\ UNCHANGED exchange
        BY Zenon, <1>3, <2>1 DEF Refuse, MoveTo, Handshake
      <3>3. QED
        BY ZenonT(30), <1>q, <3>1, <3>2 DEF Opened
    <2>2. CASE Readable(c) /\ Read(c) /\ MoveTo(c, "greeted")
      <3>1. stage[c] = "handshaking" /\ UNCHANGED exchange
        BY Zenon, <1>3 DEF Handshake
      <3>2. QED
        BY <1>q, <1>l, <1>t, <2>2, <3>1 DEF Opened, MoveTo
    <2>3. QED
      BY Zenon, <1>3, <2>1, <2>2 DEF Handshake
  <1>4. ASSUME NEW c \in Conn, Exchange(c) PROVE Opened'
    <2>1. CASE Refuse(c)
      <3>1. \A d \in Conn : d # c => wire'[d] = wire[d]
        BY Zenon, <1>4, <1>q DEF Exchange, Read, Family
      <3>2. stage' = [stage EXCEPT ![c] = "refused"]
        BY Zenon, <2>1 DEF Refuse, MoveTo
      <3>3. \A d \in Conn : d # c => exchange'[d] = exchange[d]
        BY Zenon, <1>4, <1>q DEF Exchange
      <3>4. QED
        BY <1>q, <3>1, <3>2, <3>3 DEF Opened
    <2>2. CASE /\ Readable(c) /\ Read(c) /\ validateReceivedIdentity(c) /\ UNCHANGED stage
               /\ exchange' = [exchange EXCEPT ![c] = @ \cup {Head(wire[c])}]
      <3>1. stage[c] = "authenticating"
        BY Zenon, <1>4 DEF Exchange
      <3>2. Head(wire[c]) \in {"challenge", "identity"} /\ Head(wire[c]) \notin exchange[c]
        BY Zenon, <2>2 DEF validateReceivedIdentity
      <3>3. /\ exchange'[c] = exchange[c] \cup {Head(wire[c])}
            /\ \A d \in Conn : d # c => exchange'[d] = exchange[d]
        BY Zenon, <1>q, <2>2
      <3>4. exchange[c] = {} => exchange'[c] # {"challenge", "identity"}
        BY Zenon, <3>2, <3>3
      <3>5. exchange[c] # {} => Len(wire[c]) <= 1
        BY Zenon, <3>1 DEF Opened
      <3>6. Len(wire[c]) <= 2
        BY Zenon, <3>1 DEF Opened
      <3>7. Len(wire[c]) > 0
        BY <1>l, <2>2 DEF Readable
      <3>8. /\ Len(wire'[c]) <= 1
            /\ exchange'[c] = {"challenge", "identity"} => wire'[c] = <<>>
        BY <1>l, <1>t, <2>2, <3>4, <3>5, <3>6, <3>7
      <3>9. \A d \in Conn : d # c => wire'[d] = wire[d]
        BY Zenon, <1>t, <2>2
      <3>10. QED
        BY <2>2, <3>1, <3>3, <3>8, <3>9 DEF Opened
    <2>3. QED
      BY Zenon, <1>4, <2>1, <2>2 DEF Exchange
  <1>5. ASSUME NEW c \in Conn, readLoop(c) PROVE Opened'
    <2>1. \A d \in Conn : d # c => wire'[d] = wire[d]
      BY Zenon, <1>5, <1>q DEF readLoop, Read, Family
    <2>2. /\ stage[c] = "reading" /\ stage'[c] \in {"reading", "lost"}
          /\ \A d \in Conn : d # c => stage'[d] = stage[d]
          /\ UNCHANGED exchange
      BY Zenon, <1>5, <1>q DEF readLoop, MoveTo
    <2>3. QED
      BY <2>1, <2>2, <1>q DEF Opened
  <1>6. ASSUME NEW c \in Conn, handleEncodingDisconnect(c) \/ Publish(c) PROVE Opened'
    <2>1. UNCHANGED <<wire, exchange>>
      BY Zenon, <1>6 DEF handleEncodingDisconnect, Publish
    <2>2. \/ UNCHANGED stage
          \/ stage[c] = "lost" /\ MoveTo(c, "announcing")
          \/ stage[c] = "announcing" /\ MoveTo(c, "ended")
      BY Zenon, <1>6 DEF handleEncodingDisconnect, Publish
    <2>3. QED
      BY ZenonT(30), <1>q, <2>1, <2>2 DEF Opened, MoveTo
  <1>7. ASSUME NEW c \in Conn, PeerSends(c) PROVE Opened'
    BY Zenon, <1>7, <1>q DEF PeerSends, Opened, Family
  <1>8. ASSUME NEW c \in Conn, Break(c) PROVE Opened'
    <2>1. \A d \in Conn : wire'[d] = wire[d] \/ wire'[d] = <<>>
      BY Zenon, <1>8, <1>q DEF Break, Family
    <2>2. UNCHANGED <<stage, exchange>>
      BY Zenon, <1>8 DEF Break
    <2>3. \A d \in Conn : wire'[d] = wire[d] \/ (wire'[d] = <<>> /\ Len(wire'[d]) = 0)
      BY Zenon, <2>1, EmptyQueue
    <2>4. QED
      BY <2>2, <2>3 DEF Opened
  <1>9. ASSUME \/ \E c \in Conn : Sign(c) \/ dispatchSend(c)
               \/ handleAuthorizedMessage \/ eraseResourceAdvertisement \/ HandleInput
               \/ handleOutputMessage \/ TimePasses
        PROVE  Opened'
    <2>1. UNCHANGED sessionVars
      BY Zenon, <1>9 DEF Sign, dispatchSend, handleAuthorizedMessage, Authorize,
         eraseResourceAdvertisement, HandleInput, handleOutputMessage, TimePasses
    <2>2. QED
      BY Zenon, <2>1 DEF sessionVars, Opened
  <1>10. QED
    BY Zenon, NextSplit, <1>1, <1>2, <1>3, <1>4, <1>5, <1>6, <1>7, <1>8, <1>9

-----------------------------------------------------------------------------
(* What has been sent or told stays so.                                    *)
LEMMA Progress ==
  ASSUME Queues, Lives, Next
  PROVE  /\ plan' = plan
         /\ \A c \in Conn : sent'[c] \in Nat /\ sent[c] <= sent'[c]
         /\ \A c \in Conn : exchange[c] \subseteq exchange'[c]
         /\ \A c \in Conn : stage[c] \in Over => stage'[c] \in Over
         /\ \A c \in Conn : stage'[c] \in Running \cup Over =>
              stage[c] \in Running \cup Over \/ Register(c)
  <1>q. sent \in [Conn -> Nat] /\ stage \in [Conn -> Stages] /\ DOMAIN exchange = Conn
    BY Zenon DEF Queues, Lives
  <1>1. plan' = plan
    BY Zenon, NextSplit DEF Session, handleEncodingDisconnect, Publish, Sign, dispatchSend, PeerSends,
         Break, handleAuthorizedMessage, Authorize, eraseResourceAdvertisement, HandleInput,
         handleOutputMessage, TimePasses
  <1>2. sent' = sent \/ \E c \in Conn : sent' = [sent EXCEPT ![c] = @ + 1]
    BY Zenon, NextSplit DEF Session, handleEncodingDisconnect, Publish, Sign, dispatchSend, PeerSends,
         Break, handleAuthorizedMessage, Authorize, eraseResourceAdvertisement, HandleInput,
         handleOutputMessage, TimePasses, peerVars
  <1>3. \A c \in Conn : sent'[c] \in Nat /\ sent[c] <= sent'[c]
    BY <1>q, <1>2
  <1>4. exchange' = exchange
        \/ \E c \in Conn : exchange' = [exchange EXCEPT ![c] = @ \cup {Head(wire[c])}]
    BY Zenon, NextSplit DEF enqueueAcceptedConnection, WorkerTakes, Handshake, Exchange,
         Register, Start, readLoop, handleEncodingDisconnect, Publish, Sign, dispatchSend, PeerSends,
         Break, handleAuthorizedMessage, Authorize, eraseResourceAdvertisement, HandleInput,
         handleOutputMessage, TimePasses, sessionVars
  <1>5. \A c \in Conn : exchange[c] \subseteq exchange'[c]
    BY Zenon, <1>q, <1>4
  <1>6. stage' = stage
        \/ \E c \in Conn, s \in Stages :
             /\ stage' = [stage EXCEPT ![c] = s]
             /\ stage[c] \in Over => s \in Over
             /\ s \in Running \cup Over => stage[c] \in Running \cup Over \/ Register(c)
    <2>1. ASSUME NEW c \in Conn, \/ enqueueAcceptedConnection(c) \/ WorkerTakes(c) \/ Handshake(c)
                                 \/ Exchange(c) \/ Register(c) \/ Start(c) \/ readLoop(c)
          PROVE  stage' = stage
                 \/ \E s \in Stages :
                      /\ stage' = [stage EXCEPT ![c] = s]
                      /\ stage[c] \in Over => s \in Over
                      /\ s \in Running \cup Over => stage[c] \in Running \cup Over \/ Register(c)
      BY Zenon, <2>1 DEF enqueueAcceptedConnection, WorkerTakes, Handshake, Exchange, Refuse, MoveTo,
         Register, Authenticated, Start, readLoop, Stages, Running, Over
    <2>2. ASSUME NEW c \in Conn, handleEncodingDisconnect(c) \/ Publish(c)
          PROVE  stage' = stage
                 \/ \E s \in Stages :
                      /\ stage' = [stage EXCEPT ![c] = s]
                      /\ stage[c] \in Over => s \in Over
                      /\ s \in Running \cup Over => stage[c] \in Running \cup Over \/ Register(c)
      BY Zenon, <2>2 DEF handleEncodingDisconnect, Publish, MoveTo, Stages, Running, Over
    <2>3. ASSUME \/ \E c \in Conn : Sign(c) \/ dispatchSend(c) \/ PeerSends(c) \/ Break(c)
                 \/ handleAuthorizedMessage \/ eraseResourceAdvertisement \/ HandleInput
                 \/ handleOutputMessage \/ TimePasses
          PROVE  stage' = stage
      BY Zenon, <2>3 DEF Sign, dispatchSend, PeerSends, Break, handleAuthorizedMessage, Authorize,
         eraseResourceAdvertisement, HandleInput, handleOutputMessage, TimePasses, sessionVars
    <2>4. QED
      BY Zenon, NextSplit, <2>1, <2>2, <2>3
  <1>7. \A c \in Conn : /\ stage[c] \in Over => stage'[c] \in Over
                        /\ stage'[c] \in Running \cup Over =>
                             stage[c] \in Running \cup Over \/ Register(c)
    BY Zenon, <1>q, <1>6
  <1>8. QED
    BY Zenon, <1>1, <1>3, <1>5, <1>7

(* What was sent stays sent.                                               *)
LEMMA SentStays ==
  ASSUME Queues, Lives, Next, NEW m, Sent(m)
  PROVE  Sent(m)'
  <1>1. PICK c \in Conn : \E k \in 1..sent[c] : m = plan.sends[c][k]
    BY Zenon DEF Sent
  <1>2. PICK k \in 1..sent[c] : m = plan.sends[c][k]
    BY Zenon, <1>1
  <1>3. plan' = plan /\ k \in 1..sent'[c]
    BY <1>2, Progress DEF Queues
  <1>4. QED
    BY Zenon, <1>2, <1>3 DEF Sent

(* What the resource manager said of a node stays true of it.              *)
LEMMA OwnStays ==
  ASSUME Queues, Lives, Next, NEW m, Own(m)
  PROVE  Own(m)'
  BY Zenon, Progress DEF Own, Told, OnlyConnection, NodeOf

-----------------------------------------------------------------------------
(* What a step does to the queues.  In each of these steps the queues that *)
(* are not mentioned stay.                                                 *)
Grown(f, g, c, m) == \A d \in Conn : g[d] = IF d = c THEN Append(f[d], m) ELSE f[d]
Shrunk(f, g, c) == f[c] # <<>> /\ \A d \in Conn : g[d] = IF d = c THEN Tail(f[d]) ELSE f[d]
Replaced(f, g, c, q) == \A d \in Conn : g[d] = IF d = c THEN q ELSE f[d]

Quiet == UNCHANGED <<Mail, verified, inputQueue, outputQueue, publishing, signing, outgoing, got>>

Arrives(c) ==
  /\ sent[c] < Len(plan.sends[c]) /\ sent'[c] = sent[c] + 1
  /\ Grown(Mail, Mail', c, plan.sends[c][sent[c] + 1])
  /\ UNCHANGED <<verified, inputQueue, outputQueue, publishing, signing, outgoing, got>>

Cleared(c) ==
  /\ Replaced(Mail, Mail', c, <<>>)
  /\ UNCHANGED <<verified, inputQueue, outputQueue, publishing, signing, outgoing, got>>

Taken(c) ==
  /\ Shrunk(Mail, Mail', c) /\ verified' = Append(verified, Head(Mail[c]))
  /\ UNCHANGED <<inputQueue, outputQueue, publishing, signing, outgoing, got>>

Settled ==
  /\ verified # <<>> /\ verified' = Tail(verified)
  /\ LET m == Head(verified) IN
     \/ inputQueue' = Append(inputQueue, m) /\ UNCHANGED <<signing, outgoing>>
     \/ UNCHANGED <<inputQueue, signing, outgoing>>
     \/ /\ \E c \in Conn : NodeOf(c) = m.to /\ Grown(outgoing, outgoing', c, m)
        /\ UNCHANGED <<inputQueue, signing>>
     \/ /\ \E c \in Conn : \E r : /\ r.to = NodeOf(c) /\ r.kind = "endorsement needed"
                                  /\ Grown(signing, signing', c, r)
        /\ UNCHANGED <<inputQueue, outgoing>>
  /\ UNCHANGED <<Mail, outputQueue, publishing, got>>

Answered ==
  /\ inputQueue # <<>> /\ inputQueue' = Tail(inputQueue)
  /\ \/ UNCHANGED outputQueue
     \/ \E r : r.kind \in AnswerKinds /\ outputQueue' = Append(outputQueue, r)
  /\ UNCHANGED <<Mail, verified, publishing, signing, outgoing, got>>

Announced(c) ==
  /\ publishing[c] = <<>>
  /\ \E type \in Events :
      /\ \/ type = "connected" /\ "identity" \notin exchange[c] /\ "identity" \in exchange'[c]
         \/ /\ type = "disconnected" /\ "identity" \in exchange[c]
            /\ stage[c] \notin Over /\ stage'[c] \in Over
      /\ \E copies \in Envelopes(type, NodeOf(c)) : Replaced(publishing, publishing', c, copies)
  /\ UNCHANGED signing \/ Replaced(signing, signing', c, <<>>)
  /\ UNCHANGED <<Mail, verified, inputQueue, outputQueue, outgoing, got>>

Published(c) ==
  /\ Shrunk(publishing, publishing', c) /\ outputQueue' = Append(outputQueue, Head(publishing[c]))
  /\ UNCHANGED <<Mail, verified, inputQueue, signing, outgoing, got>>

Handed ==
  /\ outputQueue # <<>> /\ outputQueue' = Tail(outputQueue)
  /\ LET m == Head(outputQueue) IN
     UNCHANGED signing \/ \E c \in Conn : NodeOf(c) = m.to /\ Grown(signing, signing', c, m)
  /\ UNCHANGED <<Mail, verified, inputQueue, publishing, outgoing, got>>

Signed(c) ==
  /\ Shrunk(signing, signing', c) /\ Grown(outgoing, outgoing', c, Head(signing[c]))
  /\ UNCHANGED <<Mail, verified, inputQueue, outputQueue, publishing, got>>

Written(c) ==
  /\ Shrunk(outgoing, outgoing', c)
  /\ UNCHANGED got \/ Grown(got, got', c, Head(outgoing[c]))
  /\ UNCHANGED <<Mail, verified, inputQueue, outputQueue, publishing, signing>>

(* The unread mail depends on the stages and on what is on the wire.       *)
LEMMA MailStays ==
  ASSUME stage' = stage, wire' = wire
  PROVE  Mail' = Mail
  BY Zenon DEF Mail

(* Seen from the queues there are eleven kinds of step.                    *)
LEMMA Flows ==
  ASSUME Queues, Lives, Opened, Next
  PROVE  \/ Quiet \/ Settled \/ Answered \/ Handed
         \/ \E c \in Conn : \/ Arrives(c) \/ Cleared(c) \/ Taken(c) \/ Announced(c)
                            \/ Published(c) \/ Signed(c) \/ Written(c)
  <1>q. /\ Family(wire) /\ Family(publishing) /\ Family(signing) /\ Family(outgoing) /\ Family(got)
        /\ stage \in [Conn -> Stages] /\ DOMAIN exchange = Conn /\ sent \in [Conn -> Nat]
    BY Zenon DEF Queues, Lives
  <1>m. ASSUME NEW c \in Conn, NEW s \in Stages, \A d \in Conn : d # c => wire'[d] = wire[d],
               \A d \in Conn : d # c => stage'[d] = stage[d],
               stage[c] \in Running \cup Over => wire'[c] = wire[c],
               stage[c] \in Running \cup Over <=> stage'[c] \in Running \cup Over
        PROVE  Mail' = Mail
    BY Zenon, <1>m DEF Mail
  <1>1. ASSUME NEW c \in Conn, Session(c), enqueueAcceptedConnection(c) PROVE Quiet
    <2>1. Mail' = Mail
      BY Zenon, <1>1, <1>q, <1>m DEF enqueueAcceptedConnection, MoveTo, Running, Over, Family, Stages
    <2>2. QED
      BY Zenon, <1>1, <2>1 DEF enqueueAcceptedConnection, Session, Quiet, peerVars
  <1>2. ASSUME NEW c \in Conn, Session(c), WorkerTakes(c) \/ Start(c) PROVE Quiet
    <2>1. Mail' = Mail
      BY Zenon, <1>2, <1>q, <1>m DEF WorkerTakes, Start, MoveTo, Running, Over, Family, Stages
    <2>2. QED
      BY Zenon, <1>2, <2>1 DEF WorkerTakes, Start, Session, Quiet, peerVars
  <1>3. ASSUME NEW c \in Conn, Session(c), Handshake(c) PROVE Quiet
    <2>1. \A d \in Conn : d # c => wire'[d] = wire[d]
      BY Zenon, <1>3, <1>q DEF Handshake, Read, Family
    <2>2. /\ \A d \in Conn : d # c => stage'[d] = stage[d]
          /\ stage[c] = "handshaking" /\ stage'[c] \in {"greeted", "refused"}
      BY Zenon, <1>3, <1>q DEF Handshake, MoveTo, Refuse
    <2>3. Mail' = Mail
      BY Zenon, <2>1, <2>2 DEF Running, Over, Mail
    <2>4. QED
      BY Zenon, <1>3, <2>3 DEF Handshake, Session, Quiet, peerVars
  <1>4. ASSUME NEW c \in Conn, Session(c), Exchange(c) PROVE Quiet \/ Announced(c)
    <2>1. \A d \in Conn : d # c => wire'[d] = wire[d]
      BY Zenon, <1>4, <1>q DEF Exchange, Read, Family
    <2>2. /\ \A d \in Conn : d # c => stage'[d] = stage[d]
          /\ stage[c] = "authenticating" /\ stage'[c] \in {"authenticating", "refused"}
      BY Zenon, <1>4, <1>q DEF Exchange, MoveTo, Refuse
    <2>3. Mail' = Mail
      BY Zenon, <2>1, <2>2 DEF Running, Over, Mail
    <2>4. UNCHANGED <<Mail, verified, inputQueue, outputQueue, signing, outgoing, got>>
      BY Zenon, <1>4, <2>3 DEF Exchange, Session, peerVars
    <2>5. \/ UNCHANGED publishing
          \/ /\ Head(wire[c]) = "identity" /\ validateReceivedIdentity(c)
             /\ publishLogRecord(c, "connected")
             /\ exchange' = [exchange EXCEPT ![c] = @ \cup {Head(wire[c])}]
      BY Zenon, <1>4 DEF Exchange
    <2>6. CASE UNCHANGED publishing
      BY Zenon, <2>4, <2>6 DEF Quiet
    <2>7. CASE /\ Head(wire[c]) = "identity" /\ validateReceivedIdentity(c)
               /\ publishLogRecord(c, "connected")
               /\ exchange' = [exchange EXCEPT ![c] = @ \cup {Head(wire[c])}]
      <3>1. "identity" \notin exchange[c] /\ "identity" \in exchange'[c]
        BY Zenon, <1>q, <2>7 DEF validateReceivedIdentity
      <3>2. \E copies \in Envelopes("connected", NodeOf(c)) :
              Replaced(publishing, publishing', c, copies)
        BY Zenon, <2>7, PublishFacts DEF Replaced
      <3>3. publishing[c] = <<>>
        BY Zenon, <1>4 DEF Exchange
      <3>4. "connected" \in Events
        BY Zenon DEF Events
      <3>5. Announced(c)
        BY Zenon, <2>4, <3>1, <3>2, <3>3, <3>4 DEF Announced
      <3>6. QED
        BY Zenon, <3>5
    <2>8. QED
      BY Zenon, <2>5, <2>6, <2>7
  <1>5. ASSUME NEW c \in Conn, Session(c), Register(c) PROVE Quiet
    <2>1. wire[c] = <<>> /\ wire' = wire
      BY Zenon, <1>5 DEF Register, Authenticated, Opened
    <2>2. /\ \A d \in Conn : d # c => stage'[d] = stage[d]
          /\ stage[c] = "authenticating" /\ stage'[c] = "registered"
      BY Zenon, <1>5, <1>q DEF Register, Authenticated, MoveTo
    <2>3. Mail' = Mail
      BY Zenon, <2>1, <2>2 DEF Running, Over, Mail
    <2>4. QED
      BY Zenon, <1>5, <2>3 DEF Register, Session, Quiet, peerVars
  <1>6. ASSUME NEW c \in Conn, Session(c), readLoop(c) PROVE Quiet \/ Taken(c)
    <2>1. UNCHANGED <<inputQueue, outputQueue, publishing, signing, outgoing, got>>
      BY Zenon, <1>6 DEF readLoop, Session, peerVars
    <2>2. stage[c] = "reading"
      BY Zenon, <1>6 DEF readLoop
    <2>3. CASE MoveTo(c, "lost") /\ UNCHANGED <<wire, verified>>
      <3>1. Mail' = Mail
        BY Zenon, <1>q, <2>2, <2>3 DEF MoveTo, Mail, Running, Over
      <3>2. QED
        BY Zenon, <2>1, <2>3, <3>1 DEF Quiet
    <2>4. CASE Readable(c) /\ Read(c) /\ handleVerifiedMessage(Head(wire[c])) /\ UNCHANGED stage
      <3>1. Mail[c] = wire[c] /\ wire[c] # <<>>
        BY Zenon, <2>2, <2>4 DEF Mail, Running, Readable
      <3>2. \A d \in Conn : Mail'[d] = IF d = c THEN Tail(Mail[d]) ELSE Mail[d]
        BY Zenon, <1>q, <2>2, <2>4 DEF Mail, Running, Read, Family
      <3>3. Taken(c)
        BY Zenon, <2>1, <2>4, <3>1, <3>2 DEF Taken, Shrunk, handleVerifiedMessage
      <3>4. QED
        BY Zenon, <3>3
    <2>5. QED
      BY Zenon, <1>6, <2>3, <2>4 DEF readLoop
  <1>7. ASSUME NEW c \in Conn, handleEncodingDisconnect(c) PROVE Announced(c)
    <2>1. /\ stage[c] = "lost" /\ MoveTo(c, "announcing") /\ wire' = wire
          /\ signing' = [signing EXCEPT ![c] = <<>>] /\ publishLogRecord(c, "disconnected")
          /\ UNCHANGED <<verified, inputQueue, outputQueue, outgoing, got>>
      BY Zenon, <1>7 DEF handleEncodingDisconnect, peerVars
    <2>2. stage[c] \notin Over /\ stage'[c] \in Over
      BY Zenon, <1>q, <2>1 DEF MoveTo, Over
    <2>3. Mail' = Mail
      BY Zenon, <1>q, <2>1 DEF MoveTo, Mail, Running, Over
    <2>4. \E copies \in Envelopes("disconnected", NodeOf(c)) :
            Replaced(publishing, publishing', c, copies)
      BY Zenon, <2>1, PublishFacts DEF Replaced
    <2>5. Replaced(signing, signing', c, <<>>)
      BY Zenon, <1>q, <2>1 DEF Replaced, Family
    <2>6. publishing[c] = <<>> /\ "identity" \in exchange[c]
      BY Zenon, <2>1 DEF Lives, Opened
    <2>7. "disconnected" \in Events
      BY Zenon DEF Events
    <2>8. UNCHANGED <<Mail, verified, inputQueue, outputQueue, outgoing, got>>
      BY Zenon, <2>1, <2>3
    <2>9. QED
      BY Zenon, <2>2, <2>4, <2>5, <2>6, <2>7, <2>8 DEF Announced
  <1>8. ASSUME NEW c \in Conn, Publish(c) PROVE Quiet \/ Published(c)
    <2>1. UNCHANGED <<verified, inputQueue, signing, outgoing, got, wire>>
      BY Zenon, <1>8 DEF Publish, peerVars
    <2>2. Mail' = Mail
      BY Zenon, <1>8, <1>q, <2>1 DEF Publish, MoveTo, Mail, Running, Over
    <2>3. CASE UNCHANGED <<outputQueue, publishing>>
      BY Zenon, <2>1, <2>2, <2>3 DEF Quiet
    <2>4. CASE /\ publishing[c] # <<>> /\ outputQueue' = Append(outputQueue, Head(publishing[c]))
               /\ publishing' = [publishing EXCEPT ![c] = Tail(@)]
      <3>1. Shrunk(publishing, publishing', c)
        BY Zenon, <1>q, <2>4 DEF Shrunk, Family
      <3>2. QED
        BY Zenon, <2>1, <2>2, <2>4, <3>1 DEF Published
    <2>5. QED
      BY Zenon, <1>8, <2>3, <2>4 DEF Publish
  <1>9. ASSUME NEW c \in Conn, Sign(c) PROVE Signed(c)
    <2>1. Shrunk(signing, signing', c) /\ Grown(outgoing, outgoing', c, Head(signing[c]))
      BY Zenon, <1>9, <1>q DEF Sign, Shrunk, Grown, Family
    <2>2. QED
      BY Zenon, <1>9, <2>1, MailStays DEF Sign, Signed, sessionVars, peerVars
  <1>10. ASSUME NEW c \in Conn, dispatchSend(c) PROVE Written(c)
    <2>1. Shrunk(outgoing, outgoing', c)
      BY Zenon, <1>10, <1>q DEF dispatchSend, Shrunk, Family
    <2>2. UNCHANGED got \/ got' = [got EXCEPT ![c] = Append(@, Head(outgoing[c]))]
      BY Zenon, <1>10 DEF dispatchSend, writeMessage
    <2>3. UNCHANGED got \/ Grown(got, got', c, Head(outgoing[c]))
      <3>1. CASE got' = [got EXCEPT ![c] = Append(@, Head(outgoing[c]))]
        <4>1. DOMAIN got = Conn
          BY Zenon, <1>q DEF Family
        <4>2. \A d \in Conn : got'[d] = IF d = c THEN Append(got[d], Head(outgoing[c])) ELSE got[d]
          BY Zenon, <3>1, <4>1
        <4>3. QED
          BY Zenon, <4>2 DEF Grown
      <3>2. QED
        BY Zenon, <2>2, <3>1
    <2>4. QED
      BY Zenon, <1>10, <2>1, <2>3, MailStays DEF dispatchSend, Written, sessionVars
  <1>11. ASSUME NEW c \in Conn, PeerSends(c) PROVE Arrives(c)
    <2>1. sent[c] < Len(plan.sends[c]) /\ sent'[c] = sent[c] + 1
      BY Zenon, <1>11, <1>q DEF PeerSends
    <2>2. Grown(Mail, Mail', c, plan.sends[c][sent[c] + 1])
      BY Zenon, <1>11, <1>q, <2>1 DEF PeerSends, Grown, Mail, Running, Family
    <2>3. QED
      BY Zenon, <1>11, <2>1, <2>2 DEF PeerSends, Arrives, queueVars
  <1>12. ASSUME NEW c \in Conn, Break(c) PROVE Quiet \/ Cleared(c)
    <2>1. UNCHANGED <<stage, verified, inputQueue, outputQueue, publishing, signing, outgoing, got>>
      BY Zenon, <1>12 DEF Break, queueVars
    <2>2. CASE UNCHANGED wire
      BY Zenon, <2>1, <2>2, MailStays DEF Quiet
    <2>3. CASE wire' = [wire EXCEPT ![c] = <<>>]
      <3>1. Replaced(Mail, Mail', c, <<>>)
        BY Zenon, <1>q, <2>1, <2>3 DEF Replaced, Mail, Family
      <3>2. Cleared(c)
        BY Zenon, <2>1, <3>1 DEF Cleared
      <3>3. QED
        BY Zenon, <3>2
    <2>4. QED
      BY Zenon, <1>12, <2>2, <2>3 DEF Break
  <1>13. CASE handleAuthorizedMessage
    <2> DEFINE m == Head(verified)
               e == [to |-> NodeOf(m.from), kind |-> "endorsement needed"]
    <2>1. verified # <<>> /\ verified' = Tail(verified) /\ Authorize(m)
      BY Zenon, <1>13 DEF handleAuthorizedMessage
    <2>2. UNCHANGED <<sessionVars, outputQueue, peerVars>>
      BY Zenon, <2>1 DEF Authorize
    <2>3. UNCHANGED <<Mail, outputQueue, publishing, got>>
      BY Zenon, <2>2, MailStays DEF sessionVars, peerVars
    <2>4. \/ sendLocalMessage(e) /\ UNCHANGED <<inputQueue, outgoing>>
          \/ inputQueue' = Append(inputQueue, m) /\ UNCHANGED <<signing, outgoing>>
          \/ routeAndSend(m) /\ UNCHANGED <<inputQueue, signing>>
      BY Zenon, <2>1 DEF Authorize, sendEndorsementNeeded
    <2>5. e.kind = "endorsement needed"
      BY Zenon
    <2> HIDE DEF m, e
    <2>6. CASE sendLocalMessage(e) /\ UNCHANGED <<inputQueue, outgoing>>
      <3>1. \/ UNCHANGED signing
            \/ \E c \in Conn : NodeOf(c) = e.to /\ Grown(signing, signing', c, e)
        BY Zenon, <2>6, SigningGrows DEF Grown
      <3>2. QED
        BY Zenon, <2>1, <2>3, <2>5, <2>6, <3>1 DEF Settled, m
    <2>7. CASE inputQueue' = Append(inputQueue, m) /\ UNCHANGED <<signing, outgoing>>
      BY Zenon, <2>1, <2>3, <2>7 DEF Settled, m
    <2>8. CASE routeAndSend(m) /\ UNCHANGED <<inputQueue, signing>>
      <3>1. \/ UNCHANGED outgoing
            \/ \E c \in Conn : NodeOf(c) = m.to /\ Grown(outgoing, outgoing', c, m)
        BY Zenon, <2>8, OutgoingGrows DEF Grown
      <3>2. QED
        BY Zenon, <2>1, <2>3, <2>8, <3>1 DEF Settled, m
    <2>9. QED
      BY Zenon, <2>4, <2>6, <2>7, <2>8
  <1>14. CASE eraseResourceAdvertisement \/ TimePasses
    BY Zenon, <1>14, MailStays DEF eraseResourceAdvertisement, TimePasses, Quiet, sessionVars, queueVars,
       peerVars
  <1>15. CASE HandleInput
    <2>1. /\ inputQueue # <<>> /\ inputQueue' = Tail(inputQueue)
          /\ HandleMessage(Head(inputQueue))
          /\ UNCHANGED <<plan, sessionVars, verified, unrouted, signing, outgoing, peerVars>>
      BY Zenon, <1>15 DEF HandleInput
    <2>2. UNCHANGED outputQueue
          \/ \E r : r.kind \in AnswerKinds /\ outputQueue' = Append(outputQueue, r)
      BY Zenon, <2>1, AnswerFacts DEF Output
    <2>3. UNCHANGED <<Mail, verified, publishing, signing, outgoing, got>>
      BY Zenon, <2>1, MailStays DEF sessionVars, peerVars
    <2>4. QED
      BY Zenon, <2>1, <2>2, <2>3 DEF Answered
  <1>16. CASE handleOutputMessage
    <2> DEFINE m == Head(outputQueue)
    <2>1. /\ outputQueue # <<>> /\ outputQueue' = Tail(outputQueue) /\ sendLocalMessage(m)
          /\ UNCHANGED <<plan, sessionVars, verified, inputQueue, outgoing, peerVars>>
      BY Zenon, <1>16 DEF handleOutputMessage
    <2>2. UNCHANGED <<Mail, verified, inputQueue, publishing, outgoing, got>>
      BY Zenon, <2>1, MailStays DEF sessionVars, peerVars
    <2> HIDE DEF m
    <2>3. UNCHANGED signing \/ \E c \in Conn : NodeOf(c) = m.to /\ Grown(signing, signing', c, m)
      BY Zenon, <2>1, SigningGrows DEF Grown
    <2>4. QED
      BY Zenon, <2>1, <2>2, <2>3 DEF Handed, m
  <1>17. QED
    BY ZenonT(30), NextSplit, <1>1, <1>2, <1>3, <1>4, <1>5, <1>6, <1>7, <1>8, <1>9, <1>10, <1>11, <1>12,
       <1>13, <1>14, <1>15, <1>16

-----------------------------------------------------------------------------
(* What a push adds to a family of queues.                                 *)
LEMMA GrownRange ==
  ASSUME NEW f, NEW g, Family(f), NEW c \in Conn, NEW m, Grown(f, g, c, m)
  PROVE  /\ Range(g[c]) = Range(f[c]) \cup {m}
         /\ \A d \in Conn : d # c => g[d] = f[d]
  <1>1. Range(Append(f[c], m)) = Range(f[c]) \cup {m}
    BY Zenon, QueueAppend DEF Family
  <1>2. QED
    BY Zenon, <1>1 DEF Grown

(* What a pop takes from a family of queues.                               *)
LEMMA ShrunkRange ==
  ASSUME NEW f, NEW g, Family(f), NEW c \in Conn, Shrunk(f, g, c)
  PROVE  /\ Head(f[c]) \in Range(f[c])
         /\ \A d \in Conn : Range(g[d]) \subseteq Range(f[d])
  <1>1. Head(f[c]) \in Range(f[c]) /\ Range(Tail(f[c])) \subseteq Range(f[c])
    BY Zenon, QueueTail DEF Family, Shrunk
  <1>2. QED
    BY Zenon, <1>1 DEF Shrunk

(* The unread mail of every session is a queue.                            *)
LEMMA MailFamily ==
  ASSUME Queues
  PROVE  Family(Mail)
  BY Zenon, EmptyQueue DEF Queues, Family, Mail

(* InFlight is kept if whatever is new in a queue may be there.            *)
LEMMA InFlightFrom ==
  ASSUME Queues, Lives, InFlight, Next,
         \A m \in Range(verified') \cup Range(inputQueue') :
           m \in Range(verified) \cup Range(inputQueue) \/ Sent(m)',
         \A m \in Range(outputQueue') : m \in Range(outputQueue) \/ Own(m)',
         \A c \in Conn : \A m \in Range(Mail'[c]) :
           m \in Range(Mail[c]) \/ (Sent(m)' /\ m.from = c),
         \A c \in Conn : \A m \in Range(publishing'[c]) :
           m \in Range(publishing[c]) \/ (Own(m)' /\ m.kind \in Events /\ m.about = NodeOf(c)),
         \A c \in Conn : \A m \in Range(signing'[c]) :
           m \in Range(signing[c]) \/ (Own(m)' /\ m.to = NodeOf(c)),
         \A c \in Conn : \A m \in Range(outgoing'[c]) \cup Range(got'[c]) :
           m \in Range(outgoing[c]) \cup Range(got[c])
           \/ ((Sent(m)' \/ Own(m)') /\ m.to = NodeOf(c))
  PROVE  InFlight'
  <1>s. ASSUME NEW m, Sent(m) PROVE Sent(m)'
    BY Zenon, <1>s, SentStays
  <1>o. ASSUME NEW m, Own(m) PROVE Own(m)'
    BY Zenon, <1>o, OwnStays
  <1>n. \A c \in Conn : NodeOf(c)' = NodeOf(c)
    BY Zenon, Progress DEF NodeOf
  <1>e. Events' = Events
    BY Zenon DEF Events
  <1>1. \A m \in Range(verified') \cup Range(inputQueue') : Sent(m)'
    BY Zenon, <1>s DEF InFlight
  <1>2. \A m \in Range(outputQueue') : Own(m)'
    BY Zenon, <1>o DEF InFlight
  <1>3. \A c \in Conn : \A m \in Range(Mail'[c]) : Sent(m)' /\ m.from = c
    BY Zenon, <1>s DEF InFlight
  <1>4. ASSUME NEW c \in Conn, NEW m \in Range(publishing'[c])
        PROVE  Own(m)' /\ m.kind \in Events /\ m.about = NodeOf(c)'
    <2>1. CASE Own(m)' /\ m.kind \in Events /\ m.about = NodeOf(c)
      BY Zenon, <1>n, <2>1
    <2>2. CASE m \in Range(publishing[c])
      <3>1. Own(m) /\ m.kind \in Events /\ m.about = NodeOf(c)
        BY Zenon, <2>2 DEF InFlight
      <3>2. QED
        BY Zenon, <1>n, <1>o, <3>1
    <2>3. QED
      BY Zenon, <1>4, <2>1, <2>2
  <1>5. ASSUME NEW c \in Conn, NEW m \in Range(signing'[c])
        PROVE  Own(m)' /\ m.to = NodeOf(c)'
    <2>1. CASE Own(m)' /\ m.to = NodeOf(c)
      BY Zenon, <1>n, <2>1
    <2>2. CASE m \in Range(signing[c])
      <3>1. Own(m) /\ m.to = NodeOf(c)
        BY Zenon, <2>2 DEF InFlight
      <3>2. QED
        BY Zenon, <1>n, <1>o, <3>1
    <2>3. QED
      BY Zenon, <1>5, <2>1, <2>2
  <1>6. ASSUME NEW c \in Conn, NEW m \in Range(outgoing'[c]) \cup Range(got'[c])
        PROVE  (Sent(m)' \/ Own(m)') /\ m.to = NodeOf(c)'
    <2>1. CASE (Sent(m)' \/ Own(m)') /\ m.to = NodeOf(c)
      BY Zenon, <1>n, <2>1
    <2>2. CASE m \in Range(outgoing[c]) \cup Range(got[c])
      <3>1. (Sent(m) \/ Own(m)) /\ m.to = NodeOf(c)
        BY Zenon, <2>2 DEF InFlight
      <3>2. QED
        BY Zenon, <1>n, <1>s, <1>o, <3>1
    <2>3. QED
      BY Zenon, <1>6, <2>1, <2>2
  <1>7. QED
    BY Zenon, <1>1, <1>2, <1>3, <1>4, <1>5, <1>6 DEF InFlight

(* A new record is told of.                                                *)
LEMMA AnnouncedTold ==
  ASSUME Queues, Lives, Next, NEW c \in Conn, Announced(c), NEW m \in Range(publishing'[c])
  PROVE  Own(m)' /\ m.kind \in Events /\ m.about = NodeOf(c)
  <1>1. PICK type \in Events :
          /\ \/ type = "connected" /\ "identity" \in exchange'[c]
             \/ type = "disconnected" /\ "identity" \in exchange[c] /\ stage'[c] \in Over
          /\ \E copies \in Envelopes(type, NodeOf(c)) : Replaced(publishing, publishing', c, copies)
    BY Zenon DEF Announced
  <1>2. PICK copies \in Envelopes(type, NodeOf(c)) : Replaced(publishing, publishing', c, copies)
    BY Zenon, <1>1
  <1>3. m \in Range(copies)
    BY Zenon, <1>2 DEF Replaced
  <1>4. m.kind = type /\ m.about = NodeOf(c)
    <2>1. lastId \in Nat /\ DOMAIN subscriptions \subseteq 1..lastId
      BY Zenon DEF Queues
    <2>2. \A n \in Range(copies) : n.kind = type /\ n.about = NodeOf(c)
      BY <2>1, EnvelopeFacts
    <2>3. QED
      BY Zenon, <1>3, <2>2
  <1>5. plan' = plan /\ exchange[c] \subseteq exchange'[c]
    BY Zenon, Progress
  <1>6. "identity" \in exchange'[c] /\ (m.kind = "disconnected" => stage'[c] \in Over)
    BY Zenon, <1>1, <1>4, <1>5
  <1>7. ASSUME NEW d \in Conn, OnlyConnection(d)', m.about = NodeOf(d)'
        PROVE  d = c
    <2>1. \A e \in Conn : e # d => plan.node[e] # plan.node[d]
      BY Zenon, <1>5, <1>7 DEF OnlyConnection, NodeOf
    <2>2. plan.node[c] = plan.node[d]
      BY Zenon, <1>4, <1>5, <1>7 DEF NodeOf
    <2>3. QED
      BY Zenon, <2>1, <2>2
  <1>8. m.kind # "data"
    BY Zenon, <1>1, <1>4 DEF Events
  <1>9. QED
    BY Zenon, <1>1, <1>4, <1>6, <1>7, <1>8 DEF Own, Told

(* Replies to requests are no data and no log records.                     *)
LEMMA NeutralOwn ==
  ASSUME NEW m, m.kind \in AnswerKinds \/ m.kind = "endorsement needed"
  PROVE  Own(m)'
  <1>1. m.kind # "data" /\ m.kind # "connected" /\ m.kind # "disconnected"
    BY Zenon DEF AnswerKinds
  <1>2. QED
    BY Zenon, <1>1 DEF Own, Told, Events

(* Every step keeps the contents of the queues as they should be.          *)
LEMMA InFlightNext ==
  ASSUME Queues, Lives, Opened, InFlight, Next
  PROVE  InFlight'
  <1>q. /\ Family(Mail) /\ Family(publishing) /\ Family(signing) /\ Family(outgoing) /\ Family(got)
        /\ IsQueue(verified) /\ IsQueue(inputQueue) /\ IsQueue(outputQueue)
    BY Zenon, MailFamily DEF Queues
  <1>s. ASSUME NEW m, Sent(m) PROVE Sent(m)'
    BY Zenon, <1>s, SentStays
  <1>o. ASSUME NEW m, Own(m) PROVE Own(m)'
    BY Zenon, <1>o, OwnStays
  <1>1. CASE Quiet
    BY Zenon, <1>1, InFlightFrom DEF Quiet
  <1>2. ASSUME NEW c \in Conn, Arrives(c) PROVE InFlight'
    <2>0. PICK m : m = plan.sends[c][sent[c] + 1]
      BY Zenon
    <2>1. Grown(Mail, Mail', c, m)
          /\ UNCHANGED <<verified, inputQueue, outputQueue, publishing, signing, outgoing, got>>
      BY Zenon, <2>0, <1>2 DEF Arrives
    <2>2. Sent(m)' /\ m.from = c
      <3>1. plan' = plan
        BY Zenon, Progress
      <3>2. sent[c] + 1 \in 1..sent'[c]
        BY <1>2 DEF Arrives, Queues
      <3>3. Sent(m)'
        BY ZenonT(30), <2>0, <3>1, <3>2 DEF Sent
      <3>4. plan \in Plans /\ sent[c] + 1 \in DOMAIN plan.sends[c]
        BY <1>2, PlansAssumption DEF Arrives, Queues
      <3>5. QED
        BY Zenon, <2>0, <3>3, <3>4, PlansAssumption
    <2>3. /\ Range(Mail'[c]) = Range(Mail[c]) \cup {m}
          /\ \A d \in Conn : d # c => Mail'[d] = Mail[d]
      BY Zenon, <1>q, <2>1, GrownRange
    <2>4. \A d \in Conn : \A x \in Range(Mail'[d]) :
            x \in Range(Mail[d]) \/ (Sent(x)' /\ x.from = d)
      BY Zenon, <2>2, <2>3
    <2>5. QED
      BY Zenon, <2>1, <2>4, InFlightFrom
  <1>3. ASSUME NEW c \in Conn, Cleared(c) PROVE InFlight'
    <2>1. \A d \in Conn : \A x \in Range(Mail'[d]) : x \in Range(Mail[d])
      BY Zenon, <1>3, EmptyQueue DEF Cleared, Replaced
    <2>2. QED
      BY Zenon, <1>3, <2>1, InFlightFrom DEF Cleared
  <1>4. ASSUME NEW c \in Conn, Taken(c) PROVE InFlight'
    <2>0. PICK m : m = Head(Mail[c])
      BY Zenon
    <2>1. /\ Shrunk(Mail, Mail', c) /\ verified' = Append(verified, m)
          /\ UNCHANGED <<inputQueue, outputQueue, publishing, signing, outgoing, got>>
      BY Zenon, <2>0, <1>4 DEF Taken
    <2>2. m \in Range(Mail[c]) /\ \A d \in Conn : Range(Mail'[d]) \subseteq Range(Mail[d])
      BY Zenon, <1>q, <2>0, <2>1, ShrunkRange
    <2>3. Sent(m)'
      BY Zenon, <1>s, <2>2 DEF InFlight
    <2>4. Range(verified') = Range(verified) \cup {m}
      BY Zenon, <1>q, <2>1, QueueAppend
    <2>5. QED
      BY Zenon, <2>1, <2>2, <2>3, <2>4, InFlightFrom
  <1>5. CASE Settled
    <2>0. PICK m : m = Head(verified)
      BY Zenon
    <2>1. /\ verified # <<>> /\ verified' = Tail(verified)
          /\ UNCHANGED <<Mail, outputQueue, publishing, got>>
      BY Zenon, <2>0, <1>5 DEF Settled
    <2>2. m \in Range(verified) /\ Range(verified') \subseteq Range(verified)
      BY Zenon, <1>q, <2>0, <2>1, QueueTail
    <2>3. \/ inputQueue' = Append(inputQueue, m) /\ UNCHANGED <<signing, outgoing>>
          \/ UNCHANGED <<inputQueue, signing, outgoing>>
          \/ /\ \E c \in Conn : NodeOf(c) = m.to /\ Grown(outgoing, outgoing', c, m)
             /\ UNCHANGED <<inputQueue, signing>>
          \/ /\ \E c \in Conn : \E r : /\ r.to = NodeOf(c) /\ r.kind = "endorsement needed"
                                       /\ Grown(signing, signing', c, r)
             /\ UNCHANGED <<inputQueue, outgoing>>
      BY Zenon, <2>0, <1>5 DEF Settled
    <2>4. Sent(m)'
      BY Zenon, <1>s, <2>2 DEF InFlight
    <2>5. CASE inputQueue' = Append(inputQueue, m) /\ UNCHANGED <<signing, outgoing>>
      <3>1. Range(inputQueue') = Range(inputQueue) \cup {m}
        BY Zenon, <1>q, <2>5, QueueAppend
      <3>2. QED
        BY Zenon, <2>1, <2>2, <2>4, <2>5, <3>1, InFlightFrom
    <2>6. CASE UNCHANGED <<inputQueue, signing, outgoing>>
      BY Zenon, <2>1, <2>2, <2>6, InFlightFrom
    <2>7. ASSUME NEW c \in Conn, NodeOf(c) = m.to, Grown(outgoing, outgoing', c, m),
                 UNCHANGED <<inputQueue, signing>>
          PROVE  InFlight'
      <3>0. Family(outgoing) /\ Grown(outgoing, outgoing', c, m)
        BY Zenon, <1>q, <2>7
      <3>1. /\ Range(outgoing'[c]) = Range(outgoing[c]) \cup {m}
            /\ \A d \in Conn : d # c => outgoing'[d] = outgoing[d]
        BY Zenon, <3>0, GrownRange
      <3>2. \A d \in Conn : \A x \in Range(outgoing'[d]) :
              x \in Range(outgoing[d]) \/ (Sent(x)' /\ x.to = NodeOf(d))
        BY Zenon, <2>4, <2>7, <3>1
      <3>3. QED
        BY Zenon, <2>1, <2>2, <2>7, <3>2, InFlightFrom
    <2>8. ASSUME NEW c \in Conn, NEW r, r.to = NodeOf(c), r.kind = "endorsement needed",
                 Grown(signing, signing', c, r), UNCHANGED <<inputQueue, outgoing>>
          PROVE  InFlight'
      <3>0. Family(signing) /\ Grown(signing, signing', c, r)
        BY Zenon, <1>q, <2>8
      <3>1. /\ Range(signing'[c]) = Range(signing[c]) \cup {r}
            /\ \A d \in Conn : d # c => signing'[d] = signing[d]
        BY Zenon, <3>0, GrownRange
      <3>2. Own(r)'
        BY Zenon, <2>8, NeutralOwn
      <3>3. \A d \in Conn : \A x \in Range(signing'[d]) :
              x \in Range(signing[d]) \/ (Own(x)' /\ x.to = NodeOf(d))
        BY Zenon, <2>8, <3>1, <3>2
      <3>4. QED
        BY Zenon, <2>1, <2>2, <2>8, <3>3, InFlightFrom
    <2>9. QED
      BY Zenon, <2>3, <2>5, <2>6, <2>7, <2>8
  <1>6. CASE Answered
    <2>1. /\ inputQueue # <<>> /\ inputQueue' = Tail(inputQueue)
          /\ UNCHANGED <<Mail, verified, publishing, signing, outgoing, got>>
      BY Zenon, <1>6 DEF Answered
    <2>2. Range(inputQueue') \subseteq Range(inputQueue)
      BY Zenon, <1>q, <2>1, QueueTail
    <2>3. CASE UNCHANGED outputQueue
      BY Zenon, <2>1, <2>2, <2>3, InFlightFrom
    <2>4. ASSUME NEW r, r.kind \in AnswerKinds, outputQueue' = Append(outputQueue, r)
          PROVE  InFlight'
      <3>1. Range(outputQueue') = Range(outputQueue) \cup {r}
        BY Zenon, <1>q, <2>4, QueueAppend
      <3>2. Own(r)'
        BY Zenon, <2>4, NeutralOwn
      <3>3. QED
        BY Zenon, <2>1, <2>2, <3>1, <3>2, InFlightFrom
    <2>5. QED
      BY Zenon, <1>6, <2>3, <2>4 DEF Answered
  <1>7. ASSUME NEW c \in Conn, Announced(c) PROVE InFlight'
    <2>1. \A m \in Range(publishing'[c]) : Own(m)' /\ m.kind \in Events /\ m.about = NodeOf(c)
      BY Zenon, <1>7, AnnouncedTold
    <2>2. \A d \in Conn : d # c => publishing'[d] = publishing[d]
      BY Zenon, <1>7 DEF Announced, Replaced
    <2>3. \A d \in Conn : Range(signing'[d]) \subseteq Range(signing[d])
      <3>1. UNCHANGED signing \/ Replaced(signing, signing', c, <<>>)
        BY Zenon, <1>7 DEF Announced
      <3>2. QED
        BY Zenon, <3>1, EmptyQueue DEF Replaced
    <2>4. \A d \in Conn : \A m \in Range(publishing'[d]) :
            m \in Range(publishing[d]) \/ (Own(m)' /\ m.kind \in Events /\ m.about = NodeOf(d))
      BY Zenon, <2>1, <2>2
    <2>5. UNCHANGED <<Mail, verified, inputQueue, outputQueue, outgoing, got>>
      BY Zenon, <1>7 DEF Announced
    <2>6. QED
      BY Zenon, <2>3, <2>4, <2>5, InFlightFrom
  <1>8. ASSUME NEW c \in Conn, Published(c) PROVE InFlight'
    <2>0. PICK m : m = Head(publishing[c])
      BY Zenon
    <2>1. /\ Shrunk(publishing, publishing', c) /\ outputQueue' = Append(outputQueue, m)
          /\ UNCHANGED <<Mail, verified, inputQueue, signing, outgoing, got>>
      BY Zenon, <2>0, <1>8 DEF Published
    <2>2. /\ m \in Range(publishing[c])
          /\ \A d \in Conn : Range(publishing'[d]) \subseteq Range(publishing[d])
      BY Zenon, <1>q, <2>0, <2>1, ShrunkRange
    <2>3. Own(m)'
      BY Zenon, <1>o, <2>2 DEF InFlight
    <2>4. Range(outputQueue') = Range(outputQueue) \cup {m}
      BY Zenon, <1>q, <2>1, QueueAppend
    <2>5. QED
      BY Zenon, <2>1, <2>2, <2>3, <2>4, InFlightFrom
  <1>9. CASE Handed
    <2>0. PICK m : m = Head(outputQueue)
      BY Zenon
    <2>1. /\ outputQueue # <<>> /\ outputQueue' = Tail(outputQueue)
          /\ UNCHANGED signing \/ \E c \in Conn : NodeOf(c) = m.to /\ Grown(signing, signing', c, m)
          /\ UNCHANGED <<Mail, verified, inputQueue, publishing, outgoing, got>>
      BY Zenon, <2>0, <1>9 DEF Handed
    <2>2. m \in Range(outputQueue) /\ Range(outputQueue') \subseteq Range(outputQueue)
      BY Zenon, <1>q, <2>0, <2>1, QueueTail
    <2>3. Own(m)'
      BY Zenon, <1>o, <2>2 DEF InFlight
    <2>4. CASE UNCHANGED signing
      BY Zenon, <2>1, <2>2, <2>4, InFlightFrom
    <2>5. ASSUME NEW c \in Conn, NodeOf(c) = m.to, Grown(signing, signing', c, m) PROVE InFlight'
      <3>1. /\ Range(signing'[c]) = Range(signing[c]) \cup {m}
            /\ \A d \in Conn : d # c => signing'[d] = signing[d]
        BY <1>q, <2>5, GrownRange
      <3>2. \A d \in Conn : \A x \in Range(signing'[d]) :
              x \in Range(signing[d]) \/ (Own(x)' /\ x.to = NodeOf(d))
        BY Zenon, <2>3, <2>5, <3>1
      <3>3. QED
        BY Zenon, <2>1, <2>2, <3>2, InFlightFrom
    <2>6. QED
      BY Zenon, <2>1, <2>4, <2>5
  <1>10. ASSUME NEW c \in Conn, Signed(c) PROVE InFlight'
    <2>0. PICK m : m = Head(signing[c])
      BY Zenon
    <2>1. /\ Shrunk(signing, signing', c) /\ Grown(outgoing, outgoing', c, m)
          /\ UNCHANGED <<Mail, verified, inputQueue, outputQueue, publishing, got>>
      BY Zenon, <2>0, <1>10 DEF Signed
    <2>2. m \in Range(signing[c]) /\ \A d \in Conn : Range(signing'[d]) \subseteq Range(signing[d])
      BY Zenon, <1>q, <2>0, <2>1, ShrunkRange
    <2>3. Own(m)' /\ m.to = NodeOf(c)
      BY Zenon, <1>o, <2>2 DEF InFlight
    <2>4. /\ Range(outgoing'[c]) = Range(outgoing[c]) \cup {m}
          /\ \A d \in Conn : d # c => outgoing'[d] = outgoing[d]
      BY Zenon, <1>q, <2>1, GrownRange
    <2>5. \A d \in Conn : \A x \in Range(outgoing'[d]) :
            x \in Range(outgoing[d]) \/ (Own(x)' /\ x.to = NodeOf(d))
      BY Zenon, <2>3, <2>4
    <2>6. QED
      BY Zenon, <2>1, <2>2, <2>5, InFlightFrom
  <1>11. ASSUME NEW c \in Conn, Written(c) PROVE InFlight'
    <2>0. PICK m : m = Head(outgoing[c])
      BY Zenon
    <2>1. /\ Shrunk(outgoing, outgoing', c)
          /\ UNCHANGED got \/ Grown(got, got', c, m)
          /\ UNCHANGED <<Mail, verified, inputQueue, outputQueue, publishing, signing>>
      BY Zenon, <2>0, <1>11 DEF Written
    <2>2. m \in Range(outgoing[c]) /\ \A d \in Conn : Range(outgoing'[d]) \subseteq Range(outgoing[d])
      BY Zenon, <1>q, <2>0, <2>1, ShrunkRange
    <2>3. \A d \in Conn : Range(got'[d]) \subseteq Range(got[d]) \cup Range(outgoing[d])
      <3>1. CASE UNCHANGED got
        BY Zenon, <3>1
      <3>2. CASE Grown(got, got', c, m)
        <4>1. /\ Range(got'[c]) = Range(got[c]) \cup {m}
              /\ \A d \in Conn : d # c => got'[d] = got[d]
          BY Zenon, <1>q, <3>2, GrownRange
        <4>2. QED
          BY Zenon, <2>2, <4>1
      <3>3. QED
        BY Zenon, <2>1, <3>1, <3>2
    <2>4. QED
      BY Zenon, <2>1, <2>2, <2>3, InFlightFrom
  <1>12. QED
    BY Zenon, Flows, <1>1, <1>2, <1>3, <1>4, <1>5, <1>6, <1>7, <1>8, <1>9, <1>10, <1>11

-----------------------------------------------------------------------------
(* What fits after what.                                                   *)
LEMMA FitsNeutral ==
  ASSUME NEW m, m.kind \notin Events, m.kind # "data", NEW x
  PROVE  Fits(x, m) /\ Fits(m, x)
  BY Zenon DEF Fits

(* No peer sends log records.                                              *)
LEMMA SentKind ==
  ASSUME Queues, NEW m, Sent(m)
  PROVE  m.kind \notin Events
  <1>1. m.kind \in PeerKinds
    BY Zenon, SentFacts DEF Queues
  <1>2. QED
    BY Zenon, <1>1 DEF PeerKinds, Events

(* Nothing orders a message that is no log record and one that is no data. *)
LEMMA FitsOther ==
  ASSUME NEW x, NEW y, x.kind \notin Events, y.kind # "data"
  PROVE  Fits(x, y) /\ Fits(y, x)
  BY Zenon DEF Fits

(* Log records about the nodes of two connections are in any order: either *)
(* the nodes differ, or neither is the only connection of its node.        *)
LEMMA FitsApart ==
  ASSUME NEW c \in Conn, NEW d \in Conn, c # d, NEW x, NEW y, x.kind \in Events,
         x.about = NodeOf(c), y.about = NodeOf(d)
  PROVE  Fits(x, y)
  <1>1. x.kind # "data"
    BY Zenon DEF Events
  <1>2. ASSUME NEW e \in Conn, OnlyConnection(e), x.about = NodeOf(e), y.about = NodeOf(e)
        PROVE  FALSE
    <2>1. \A b \in Conn : b # e => NodeOf(b) # NodeOf(e)
      BY Zenon, <1>2 DEF OnlyConnection
    <2>2. QED
      BY Zenon, <1>2, <2>1
  <1>3. QED
    BY Zenon, <1>1, <1>2 DEF Fits

(* The next message of a peer fits after all that is in flight.            *)
LEMMA FitsNext ==
  ASSUME Queues, NEW c \in Conn, sent[c] < Len(plan.sends[c]), NEW x, Sent(x) \/ Own(x)
  PROVE  Fits(x, plan.sends[c][sent[c] + 1])
  <1> DEFINE k == sent[c] + 1
             m == plan.sends[c][k]
  <1>1. /\ Len(plan.sends[c]) \in Nat /\ DOMAIN plan.sends[c] = 1..Len(plan.sends[c])
        /\ plan \in Plans /\ sent[c] \in Nat
    BY PlansAssumption DEF Queues
  <1>2. k \in DOMAIN plan.sends[c]
    BY <1>1
  <1>3. /\ m.from = c /\ m.kind \in PeerKinds
        /\ m.kind = "data" => \A j \in 1..sent[c] : plan.sends[c][j].kind = "data" =>
             plan.sends[c][j].number < m.number
    <2>1. \A j \in 1..sent[c] : j \in 1..(k - 1)
      BY <1>1
    <2>2. QED
      BY Zenon, <1>1, <1>2, <2>1, PlansAssumption
  <1>4. m.kind \notin Events
    BY Zenon, <1>3 DEF PeerKinds, Events
  <1> HIDE DEF m
  <1>5. CASE Own(x)
    BY Zenon, <1>4, <1>5, FitsOther DEF Own, m
  <1>6. CASE Sent(x)
    <2>1. \E j \in 1..sent[x.from] : x = plan.sends[x.from][j]
      BY Zenon, <1>6, SentFacts DEF Queues
    <2>2. ASSUME x.kind = "data", m.kind = "data", x.from = m.from
          PROVE  x.number < m.number
      <3>1. PICK j \in 1..sent[c] : x = plan.sends[c][j]
        BY Zenon, <1>3, <2>1, <2>2
      <3>2. QED
        BY Zenon, <1>3, <2>2, <3>1
    <2>3. QED
      BY Zenon, <1>4, <2>2 DEF Fits, m
  <1>7. QED
    BY Zenon, <1>5, <1>6

(* The records of an event fit after all that is in flight, and after each *)
(* other.                                                                  *)
LEMMA FitsAnnounced ==
  ASSUME Queues, Lives, NEW c \in Conn, Announced(c)
  PROVE  /\ Sorted(publishing'[c])
         /\ \A x : Sent(x) \/ Own(x) => \A m \in Range(publishing'[c]) : Fits(x, m)
  <1>1. PICK type \in Events :
          /\ \/ type = "connected" /\ "identity" \notin exchange[c]
             \/ type = "disconnected" /\ stage[c] \notin Over
          /\ \E copies \in Envelopes(type, NodeOf(c)) : Replaced(publishing, publishing', c, copies)
    BY Zenon DEF Announced
  <1>2. PICK copies \in Envelopes(type, NodeOf(c)) : Replaced(publishing, publishing', c, copies)
    BY Zenon, <1>1
  <1>3. publishing'[c] = copies
    BY Zenon, <1>2 DEF Replaced
  <1>4. lastId \in Nat /\ DOMAIN subscriptions \subseteq 1..lastId
    BY Zenon DEF Queues
  <1>5. /\ IsQueue(copies)
        /\ \A m \in Range(copies) : m.kind = type /\ m.about = NodeOf(c)
        /\ \A i, j \in DOMAIN copies : i # j => copies[i].id # copies[j].id
    BY <1>4, EnvelopeFacts
  <1>6. type # "data"
    BY Zenon DEF Events
  <1>7. ASSUME NEW i \in DOMAIN copies, NEW j \in DOMAIN copies, i < j
        PROVE  Fits(copies[i], copies[j])
    <2>1. copies[i] \in Range(copies) /\ copies[i].id # copies[j].id
      <3>1. i # j
        BY <1>5, <1>7, QueueTyped
      <3>2. QED
        BY Zenon, <1>5, <3>1 DEF Range
    <2>2. copies[i].kind # "data"
      BY Zenon, <1>5, <1>6, <2>1
    <2>3. QED
      BY Zenon, <2>1, <2>2 DEF Fits
  <1>8. ASSUME NEW x, Sent(x) \/ Own(x), NEW m \in Range(copies)
        PROVE  Fits(x, m)
    <2>1. m.kind = type /\ m.about = NodeOf(c)
      BY Zenon, <1>5, <1>8
    <2>2. CASE Sent(x)
      BY Zenon, <1>6, <2>1, <2>2, SentKind, FitsOther
    <2>3. CASE Own(x)
      <3>1. ASSUME NEW d \in Conn, OnlyConnection(d), m.about = NodeOf(d)
            PROVE  d = c
        <4>1. \A b \in Conn : b # d => NodeOf(b) # NodeOf(d)
          BY Zenon, <3>1 DEF OnlyConnection
        <4>2. QED
          BY Zenon, <2>1, <3>1, <4>1
      <3>2. ASSUME OnlyConnection(c), x.about = NodeOf(c), x.kind \in Events
            PROVE  x.kind = "connected" /\ type = "disconnected"
        <4>1. "identity" \in exchange[c] /\ (x.kind = "disconnected" => stage[c] \in Over)
          BY Zenon, <2>3, <3>2 DEF Own, Told
        <4>2. QED
          BY Zenon, <1>1, <3>2, <4>1 DEF Events
      <3>3. QED
        BY Zenon, <1>6, <2>1, <3>1, <3>2 DEF Fits
    <2>4. QED
      BY Zenon, <1>8, <2>2, <2>3
  <1>9. Sorted(copies)
    BY Zenon, <1>7 DEF Sorted
  <1>10. QED
    BY Zenon, <1>3, <1>8, <1>9

-----------------------------------------------------------------------------
(* A step keeps the order along both ways.                                 *)
LEMMA GrownSorted ==
  ASSUME NEW f, NEW g, Family(f), NEW c \in Conn, NEW m, Grown(f, g, c, m),
         Sorted(f[c]), \A x \in Range(f[c]) : Fits(x, m)
  PROVE  Sorted(g[c])
  <1>1. g[c] = Append(f[c], m) /\ IsQueue(f[c])
    BY Zenon DEF Grown, Family
  <1>2. QED
    BY Zenon, <1>1, SortedAppend

(* A pop keeps a family of queues in order.                                *)
LEMMA ShrunkSorted ==
  ASSUME NEW f, NEW g, Family(f), NEW c \in Conn, Shrunk(f, g, c), Sorted(f[c])
  PROVE  /\ Sorted(g[c]) /\ \A x \in Range(g[c]) : Fits(Head(f[c]), x)
         /\ \A d \in Conn : d # c => g[d] = f[d]
  <1>1. g[c] = Tail(f[c]) /\ IsQueue(f[c]) /\ f[c] # <<>>
    BY Zenon DEF Shrunk, Family
  <1>2. Sorted(g[c]) /\ \A x \in Range(g[c]) : Fits(Head(f[c]), x)
    BY Zenon, <1>1, SortedTail
  <1>3. \A d \in Conn : d # c => g[d] = f[d]
    BY Zenon DEF Shrunk
  <1>4. QED
    BY Zenon, <1>2, <1>3

(* The signing worker keeps the log records in order.                      *)
LEMMA LogSigned ==
  ASSUME Queues, LogOrder, NEW c \in Conn, Signed(c)
  PROVE  LogChain(got', outgoing', signing', outputQueue', publishing')
  <1>0. PICK m : m = Head(signing[c])
    BY Zenon
  <1>1. /\ Family(signing) /\ Family(outgoing) /\ Shrunk(signing, signing', c)
        /\ Grown(outgoing, outgoing', c, m) /\ UNCHANGED <<outputQueue, publishing, got>>
    BY Zenon, <1>0 DEF Queues, Signed
  <1>2. m \in Range(signing[c]) /\ \A d \in Conn : Range(signing'[d]) \subseteq Range(signing[d])
    BY Zenon, <1>0, <1>1, ShrunkRange
  <1>3. Sorted(signing[c])
    BY Zenon DEF LogOrder, LogChain
  <1>4. /\ Sorted(signing'[c]) /\ \A x \in Range(signing'[c]) : Fits(m, x)
        /\ \A d \in Conn : d # c => signing'[d] = signing[d]
    BY Zenon, <1>0, <1>1, <1>3, ShrunkSorted
  <1>5. /\ Range(outgoing'[c]) = Range(outgoing[c]) \cup {m}
        /\ \A d \in Conn : d # c => outgoing'[d] = outgoing[d]
    BY Zenon, <1>1, GrownRange
  <1>6. QED
    BY <1>1, <1>2, <1>4, <1>5 DEF LogOrder, LogChain, InOrder

(* The writer keeps the log records in order.                              *)
LEMMA LogWritten ==
  ASSUME Queues, LogOrder, NEW c \in Conn, Written(c)
  PROVE  LogChain(got', outgoing', signing', outputQueue', publishing')
  <1>0. PICK m : m = Head(outgoing[c])
    BY Zenon
  <1>1. /\ Family(outgoing) /\ Family(got) /\ Shrunk(outgoing, outgoing', c)
        /\ UNCHANGED got \/ Grown(got, got', c, m)
        /\ UNCHANGED <<outputQueue, publishing, signing>>
    BY Zenon, <1>0 DEF Queues, Written
  <1>2. m \in Range(outgoing[c]) /\ \A d \in Conn : Range(outgoing'[d]) \subseteq Range(outgoing[d])
    BY Zenon, <1>0, <1>1, ShrunkRange
  <1>3. /\ Range(got'[c]) \subseteq Range(got[c]) \cup {m}
        /\ \A d \in Conn : d # c => got'[d] = got[d]
    <2>1. CASE UNCHANGED got
      BY Zenon, <2>1
    <2>2. CASE Grown(got, got', c, m)
      <3>1. /\ Range(got'[c]) = Range(got[c]) \cup {m}
            /\ \A d \in Conn : d # c => got'[d] = got[d]
        BY Zenon, <1>1, <2>2, GrownRange
      <3>2. QED
        BY Zenon, <3>1
    <2>3. QED
      BY Zenon, <1>1, <2>1, <2>2
  <1>4. QED
    BY <1>1, <1>2, <1>3 DEF LogOrder, LogChain, InOrder

(* A thread that hands over an envelope keeps the log records in order.    *)
LEMMA LogPublished ==
  ASSUME Queues, InFlight, LogOrder, NEW c \in Conn, Published(c)
  PROVE  LogChain(got', outgoing', signing', outputQueue', publishing')
  <1>0. PICK m : m = Head(publishing[c])
    BY Zenon
  <1>1. /\ Family(publishing) /\ IsQueue(outputQueue) /\ Shrunk(publishing, publishing', c)
        /\ outputQueue' = Append(outputQueue, m) /\ UNCHANGED <<signing, outgoing, got>>
    BY Zenon, <1>0 DEF Queues, Published
  <1>2. /\ m \in Range(publishing[c])
        /\ \A d \in Conn : Range(publishing'[d]) \subseteq Range(publishing[d])
    BY Zenon, <1>0, <1>1, ShrunkRange
  <1>3. Sorted(publishing[c])
    BY Zenon DEF LogOrder, LogChain
  <1>4. /\ Sorted(publishing'[c]) /\ \A x \in Range(publishing'[c]) : Fits(m, x)
        /\ \A d \in Conn : d # c => publishing'[d] = publishing[d]
    BY Zenon, <1>0, <1>1, <1>3, ShrunkSorted
  <1>5. Range(outputQueue') = Range(outputQueue) \cup {m}
    BY Zenon, <1>1, QueueAppend
  <1>6. Sorted(outputQueue')
    <2>1. Sorted(outputQueue) /\ \A x \in Range(outputQueue) : Fits(x, m)
      BY Zenon, <1>2 DEF LogOrder, LogChain, InOrder
    <2>2. QED
      BY Zenon, <1>1, <2>1, SortedAppend
  <1>7. ASSUME NEW d \in Conn, d # c, NEW x \in Range(publishing[d])
        PROVE  Fits(m, x)
    <2>1. m.kind \in Events /\ m.about = NodeOf(c) /\ x.about = NodeOf(d)
      BY Zenon, <1>2, <1>7 DEF InFlight
    <2>2. QED
      BY Zenon, <1>7, <2>1, FitsApart
  <1>8. \A d \in Conn : InOrder(outputQueue', publishing'[d])
    <2>1. \A d \in Conn : \A x \in Range(publishing'[d]) : Fits(m, x)
      BY Zenon, <1>4, <1>7
    <2>2. \A d \in Conn : InOrder(outputQueue, publishing'[d])
      BY Zenon, <1>2 DEF LogOrder, LogChain, InOrder
    <2>3. QED
      BY Zenon, <1>5, <2>1, <2>2 DEF InOrder
  <1>9. \A d \in Conn : Sorted(publishing'[d])
    BY Zenon, <1>4 DEF LogOrder, LogChain
  <1>10. UNCHANGED <<signing, outgoing, got>>
    BY Zenon, <1>1
  <1>11. QED
    BY <1>2, <1>5, <1>6, <1>8, <1>9, <1>10 DEF LogOrder, LogChain, InOrder

(* The output worker keeps the log records in order.                       *)
LEMMA LogHanded ==
  ASSUME Queues, LogOrder, Handed
  PROVE  LogChain(got', outgoing', signing', outputQueue', publishing')
  <1>0. PICK m : m = Head(outputQueue)
    BY Zenon
  <1>1. /\ IsQueue(outputQueue) /\ Family(signing)
        /\ outputQueue # <<>> /\ outputQueue' = Tail(outputQueue)
        /\ UNCHANGED signing \/ \E c \in Conn : Grown(signing, signing', c, m)
        /\ UNCHANGED <<publishing, outgoing, got>>
    BY Zenon, <1>0 DEF Queues, Handed
  <1>2. m \in Range(outputQueue) /\ Range(outputQueue') \subseteq Range(outputQueue)
    BY Zenon, <1>0, <1>1, QueueTail
  <1>3. Sorted(outputQueue') /\ \A x \in Range(outputQueue') : Fits(m, x)
    <2>1. Sorted(outputQueue)
      BY Zenon DEF LogOrder, LogChain
    <2>2. QED
      BY Zenon, <1>0, <1>1, <2>1, SortedTail
  <1>4. CASE UNCHANGED signing
    BY ZenonT(30), <1>1, <1>2, <1>3, <1>4 DEF LogOrder, LogChain, InOrder
  <1>5. ASSUME NEW c \in Conn, Grown(signing, signing', c, m)
        PROVE  LogChain(got', outgoing', signing', outputQueue', publishing')
    <2>1. /\ Range(signing'[c]) = Range(signing[c]) \cup {m}
          /\ \A d \in Conn : d # c => signing'[d] = signing[d]
      BY Zenon, <1>1, <1>5, GrownRange
    <2>2. Sorted(signing'[c])
      <3>1. Sorted(signing[c]) /\ \A x \in Range(signing[c]) : Fits(x, m)
        BY Zenon, <1>2 DEF LogOrder, LogChain, InOrder
      <3>2. QED
        BY Zenon, <1>1, <1>5, <3>1, GrownSorted
    <2>3. QED
      BY <1>1, <1>2, <1>3, <2>1, <2>2 DEF LogOrder, LogChain, InOrder
  <1>6. QED
    BY Zenon, <1>1, <1>4, <1>5

(* A thread that copies a record for the subscribers puts it behind all    *)
(* earlier records about the node.                                         *)
LEMMA LogAnnounced ==
  ASSUME Queues, Lives, InFlight, LogOrder, NEW c \in Conn, Announced(c)
  PROVE  LogChain(got', outgoing', signing', outputQueue', publishing')
  <1>1. \A d \in Conn : d # c => publishing'[d] = publishing[d]
    BY Zenon DEF Announced, Replaced
  <1>2. /\ Sorted(publishing'[c])
        /\ \A x : Sent(x) \/ Own(x) => \A m \in Range(publishing'[c]) : Fits(x, m)
    BY Zenon, FitsAnnounced
  <1>3. UNCHANGED <<outputQueue, outgoing, got>>
    BY Zenon DEF Announced
  <1>4. \A d \in Conn : Range(signing'[d]) \subseteq Range(signing[d]) /\ Sorted(signing'[d])
    <2>1. UNCHANGED signing \/ Replaced(signing, signing', c, <<>>)
      BY Zenon DEF Announced
    <2>2. \A d \in Conn : Sorted(signing[d])
      BY Zenon DEF LogOrder, LogChain
    <2>3. QED
      BY Zenon, <2>1, <2>2, EmptyQueue, SortedEmpty DEF Replaced
  <1>5. /\ InOrder(outputQueue, publishing'[c])
        /\ \A d \in Conn : /\ InOrder(signing[d], publishing'[c])
                           /\ InOrder(outgoing[d], publishing'[c]) /\ InOrder(got[d], publishing'[c])
    BY Zenon, <1>2 DEF InFlight, InOrder
  <1>6. QED
    BY Zenon, <1>1, <1>2, <1>3, <1>4, <1>5 DEF LogOrder, LogChain, InOrder

(* A message that is neither data nor an event fits everywhere.            *)
LEMMA LogAnswered ==
  ASSUME Queues, LogOrder, Answered
  PROVE  LogChain(got', outgoing', signing', outputQueue', publishing')
  <1>1. IsQueue(outputQueue) /\ UNCHANGED <<publishing, signing, outgoing, got>>
    BY Zenon DEF Queues, Answered
  <1>2. CASE UNCHANGED outputQueue
    BY Zenon, <1>1, <1>2 DEF LogOrder
  <1>3. ASSUME NEW r, r.kind \in AnswerKinds, outputQueue' = Append(outputQueue, r)
        PROVE  LogChain(got', outgoing', signing', outputQueue', publishing')
    <2>1. r.kind \notin Events /\ r.kind # "data"
      BY Zenon, <1>3 DEF Events, AnswerKinds
    <2>2. \A x : Fits(x, r) /\ Fits(r, x)
      BY Zenon, <2>1, FitsNeutral
    <2>3. Range(outputQueue') = Range(outputQueue) \cup {r}
      BY Zenon, <1>1, <1>3, QueueAppend
    <2>4. Sorted(outputQueue')
      <3>1. Sorted(outputQueue)
        BY Zenon DEF LogOrder, LogChain
      <3>2. QED
        BY Zenon, <1>1, <1>3, <2>2, <3>1, SortedAppend
    <2>5. QED
      BY Zenon, <1>1, <2>2, <2>3, <2>4 DEF LogOrder, LogChain, InOrder
  <1>4. QED
    BY Zenon, <1>2, <1>3 DEF Answered

(* The authorization worker keeps the log records in order.                *)
LEMMA LogSettled ==
  ASSUME Queues, InFlight, LogOrder, Settled
  PROVE  LogChain(got', outgoing', signing', outputQueue', publishing')
  <1>0. PICK m : m = Head(verified)
    BY Zenon
  <1>1. /\ Family(signing) /\ Family(outgoing) /\ UNCHANGED <<outputQueue, publishing, got>>
        /\ \/ UNCHANGED <<signing, outgoing>>
           \/ UNCHANGED signing /\ \E c \in Conn : Grown(outgoing, outgoing', c, m)
           \/ UNCHANGED outgoing /\ \E c \in Conn : \E r : /\ r.kind = "endorsement needed"
                                                           /\ Grown(signing, signing', c, r)
    BY Zenon, <1>0 DEF Settled, Queues
  <1>2. Sent(m)
    <2>1. verified # <<>> /\ IsQueue(verified)
      BY Zenon DEF Settled, Queues
    <2>2. QED
      BY Zenon, <1>0, <2>1, QueueTail DEF InFlight
  <1>3. CASE UNCHANGED <<signing, outgoing>>
    BY Zenon, <1>1, <1>3 DEF LogOrder
  <1>4. ASSUME NEW c \in Conn, Grown(outgoing, outgoing', c, m), UNCHANGED signing
        PROVE  LogChain(got', outgoing', signing', outputQueue', publishing')
    <2>1. /\ Range(outgoing'[c]) = Range(outgoing[c]) \cup {m}
          /\ \A d \in Conn : d # c => outgoing'[d] = outgoing[d]
      <3>1. Family(outgoing) /\ Grown(outgoing, outgoing', c, m)
        BY Zenon, <1>1, <1>4
      <3>2. QED
        BY Zenon, <3>1, GrownRange
    <2>2. \A x : Own(x) => Fits(m, x)
      <3>1. m.kind \notin Events
        BY Zenon, <1>2, SentKind
      <3>2. \A x : Own(x) => x.kind # "data"
        BY Zenon DEF Own
      <3>3. QED
        BY Zenon, <3>1, <3>2, FitsOther
    <2>3. /\ \A x \in Range(outputQueue) : Fits(m, x)
          /\ \A d \in Conn : /\ \A x \in Range(signing[d]) : Fits(m, x)
                             /\ \A x \in Range(publishing[d]) : Fits(m, x)
      <3>1. \A x \in Range(outputQueue) : Own(x)
        BY Zenon DEF InFlight
      <3>2. \A d \in Conn : /\ \A x \in Range(signing[d]) : Own(x)
                            /\ \A x \in Range(publishing[d]) : Own(x)
        BY Zenon DEF InFlight
      <3>3. QED
        BY Zenon, <2>2, <3>1, <3>2
    <2>4. UNCHANGED <<signing, outputQueue, publishing, got>>
      BY Zenon, <1>1, <1>4
    <2>5. QED
      BY <2>1, <2>3, <2>4 DEF LogOrder, LogChain, InOrder
  <1>5. ASSUME NEW c \in Conn, NEW r, r.kind = "endorsement needed", Grown(signing, signing', c, r),
               UNCHANGED outgoing
        PROVE  LogChain(got', outgoing', signing', outputQueue', publishing')
    <2>1. Family(signing) /\ Grown(signing, signing', c, r)
      BY Zenon, <1>1, <1>5
    <2>2. /\ Range(signing'[c]) = Range(signing[c]) \cup {r}
          /\ \A d \in Conn : d # c => signing'[d] = signing[d]
      BY Zenon, <2>1, GrownRange
    <2>3. r.kind \notin Events /\ r.kind # "data"
      BY Zenon, <1>5 DEF Events
    <2>4. \A x : Fits(x, r) /\ Fits(r, x)
      BY Zenon, <2>3, FitsNeutral
    <2>5. Sorted(signing'[c])
      <3>1. Sorted(signing[c])
        BY Zenon DEF LogOrder, LogChain
      <3>2. QED
        BY Zenon, <2>1, <2>4, <3>1, GrownSorted
    <2>6. UNCHANGED <<outgoing, outputQueue, publishing, got>>
      BY Zenon, <1>1, <1>5
    <2>7. QED
      BY <2>2, <2>4, <2>5, <2>6 DEF LogOrder, LogChain, InOrder
  <1>6. QED
    BY Zenon, <1>1, <1>3, <1>4, <1>5

(* Every step keeps the log records in order.                              *)
LEMMA LogNext ==
  ASSUME Queues, Lives, Opened, InFlight, LogOrder, Next
  PROVE  LogChain(got', outgoing', signing', outputQueue', publishing')
  <1>1. CASE UNCHANGED <<got, outgoing, signing, outputQueue, publishing>>
    BY Zenon, <1>1 DEF LogOrder
  <1>2. ASSUME NEW c \in Conn, Arrives(c) \/ Cleared(c) \/ Taken(c)
        PROVE  UNCHANGED <<got, outgoing, signing, outputQueue, publishing>>
    BY Zenon, <1>2 DEF Arrives, Cleared, Taken
  <1>3. Quiet => UNCHANGED <<got, outgoing, signing, outputQueue, publishing>>
    BY Zenon DEF Quiet
  <1>4. QED
    BY Zenon, <1>1, <1>2, <1>3, Flows, LogSettled, LogAnswered, LogHanded, LogAnnounced,
       LogPublished, LogSigned, LogWritten

(* A message that its peer sends comes behind all it has sent before.      *)
LEMMA MailArrives ==
  ASSUME Queues, InFlight, MailOrder, NEW c \in Conn, Arrives(c)
  PROVE  MailChain(got', outgoing', verified', Mail')
  <1>0. PICK m : m = plan.sends[c][sent[c] + 1]
    BY Zenon
  <1>1. Family(Mail) /\ Grown(Mail, Mail', c, m) /\ UNCHANGED <<verified, outgoing, got>>
    BY Zenon, <1>0, MailFamily DEF Arrives
  <1>2. \A x : Sent(x) \/ Own(x) => Fits(x, m)
    <2>1. sent[c] < Len(plan.sends[c])
      BY Zenon DEF Arrives
    <2>2. QED
      BY Zenon, <1>0, <2>1, FitsNext
  <1>3. /\ Range(Mail'[c]) = Range(Mail[c]) \cup {m}
        /\ \A d \in Conn : d # c => Mail'[d] = Mail[d]
    BY Zenon, <1>1, GrownRange
  <1>4. /\ \A x \in Range(verified) : Fits(x, m)
        /\ \A d \in Conn : /\ \A x \in Range(Mail[d]) : Fits(x, m)
                           /\ \A x \in Range(outgoing[d]) : Fits(x, m)
                           /\ \A x \in Range(got[d]) : Fits(x, m)
    BY Zenon, <1>2 DEF InFlight
  <1>5. Sorted(Mail'[c])
    <2>1. Sorted(Mail[c])
      BY Zenon DEF MailOrder, MailChain
    <2>2. QED
      BY Zenon, <1>1, <1>4, <2>1, GrownSorted
  <1>6. QED
    BY <1>1, <1>3, <1>4, <1>5 DEF MailOrder, MailChain, InOrder

(* Dropping the unread mail of a session leaves the rest in order.         *)
LEMMA MailCleared ==
  ASSUME Queues, MailOrder, NEW c \in Conn, Cleared(c)
  PROVE  MailChain(got', outgoing', verified', Mail')
  <1>1. Replaced(Mail, Mail', c, <<>>) /\ UNCHANGED <<verified, outgoing, got>>
    BY Zenon DEF Cleared
  <1>2. \A d \in Conn : Range(Mail'[d]) \subseteq Range(Mail[d]) /\ Sorted(Mail'[d])
    <2>1. \A d \in Conn : Sorted(Mail[d])
      BY Zenon DEF MailOrder, MailChain
    <2>2. QED
      BY Zenon, <1>1, <2>1, EmptyQueue, SortedEmpty DEF Replaced
  <1>3. \A d \in Conn : /\ InOrder(verified, Mail'[d])
                        /\ \A b \in Conn : /\ InOrder(outgoing[b], Mail'[d])
                                            /\ InOrder(got[b], Mail'[d])
    BY Zenon, <1>2 DEF MailOrder, MailChain, InOrder
  <1>4. QED
    BY Zenon, <1>1, <1>2, <1>3 DEF MailOrder, MailChain

(* The read loop keeps the mail in order.                                  *)
LEMMA MailTaken ==
  ASSUME Queues, InFlight, MailOrder, NEW c \in Conn, Taken(c)
  PROVE  MailChain(got', outgoing', verified', Mail')
  <1>0. PICK m : m = Head(Mail[c])
    BY Zenon
  <1>1. /\ Family(Mail) /\ IsQueue(verified) /\ Shrunk(Mail, Mail', c)
        /\ verified' = Append(verified, m) /\ UNCHANGED <<outgoing, got>>
    BY Zenon, <1>0, MailFamily DEF Taken, Queues
  <1>2. m \in Range(Mail[c]) /\ \A d \in Conn : Range(Mail'[d]) \subseteq Range(Mail[d])
    BY Zenon, <1>0, <1>1, ShrunkRange
  <1>3. Sorted(Mail[c])
    BY Zenon DEF MailOrder, MailChain
  <1>4. /\ Sorted(Mail'[c]) /\ \A x \in Range(Mail'[c]) : Fits(m, x)
        /\ \A d \in Conn : d # c => Mail'[d] = Mail[d]
    BY Zenon, <1>0, <1>1, <1>3, ShrunkSorted
  <1>5. Range(verified') = Range(verified) \cup {m}
    BY Zenon, <1>1, QueueAppend
  <1>6. Sorted(verified')
    <2>1. Sorted(verified) /\ \A x \in Range(verified) : Fits(x, m)
      BY Zenon, <1>2 DEF MailOrder, MailChain, InOrder
    <2>2. QED
      BY Zenon, <1>1, <2>1, SortedAppend
  <1>7. ASSUME NEW d \in Conn, d # c, NEW x \in Range(Mail[d])
        PROVE  Fits(m, x)
    <2>1. Sent(m) /\ Sent(x)
      BY Zenon, <1>2, <1>7 DEF InFlight
    <2>2. m.from = c /\ x.from = d /\ m.kind \notin Events
      BY Zenon, <1>2, <1>7, <2>1, SentKind DEF InFlight
    <2>3. QED
      BY Zenon, <1>7, <2>2 DEF Fits
  <1>8. \A d \in Conn : InOrder(verified', Mail'[d])
    <2>1. \A d \in Conn : \A x \in Range(Mail'[d]) : Fits(m, x)
      BY Zenon, <1>4, <1>7
    <2>2. \A d \in Conn : InOrder(verified, Mail'[d])
      BY Zenon, <1>2 DEF MailOrder, MailChain, InOrder
    <2>3. QED
      BY Zenon, <1>5, <2>1, <2>2 DEF InOrder
  <1>9. \A d \in Conn : Sorted(Mail'[d])
    BY Zenon, <1>4 DEF MailOrder, MailChain
  <1>10. \A b \in Conn : /\ InOrder(outgoing[b], verified') /\ InOrder(got[b], verified')
                         /\ \A d \in Conn : /\ InOrder(outgoing[b], Mail'[d])
                                             /\ InOrder(got[b], Mail'[d])
    BY Zenon, <1>2, <1>5 DEF MailOrder, MailChain, InOrder
  <1>11. UNCHANGED <<outgoing, got>>
    BY Zenon, <1>1
  <1>12. QED
    BY Zenon, <1>6, <1>8, <1>9, <1>10, <1>11 DEF MailOrder, MailChain

(* The authorization worker, which routes one message after the other,     *)
(* keeps the mail in order.                                                *)
LEMMA MailSettled ==
  ASSUME Queues, InFlight, MailOrder, Settled
  PROVE  MailChain(got', outgoing', verified', Mail')
  <1>0. PICK m : m = Head(verified)
    BY Zenon
  <1>1. /\ Family(outgoing) /\ IsQueue(verified) /\ verified # <<>> /\ verified' = Tail(verified)
        /\ UNCHANGED outgoing \/ \E c \in Conn : Grown(outgoing, outgoing', c, m)
        /\ UNCHANGED <<Mail, got>>
    BY Zenon, <1>0 DEF Settled, Queues
  <1>2. m \in Range(verified) /\ Range(verified') \subseteq Range(verified)
    BY Zenon, <1>0, <1>1, QueueTail
  <1>3. Sorted(verified') /\ \A x \in Range(verified') : Fits(m, x)
    <2>1. Sorted(verified)
      BY Zenon DEF MailOrder, MailChain
    <2>2. QED
      BY Zenon, <1>0, <1>1, <2>1, SortedTail
  <1>4. \A d \in Conn : InOrder(verified', Mail[d]) /\ InOrder(got[d], verified')
    BY Zenon, <1>2 DEF MailOrder, MailChain, InOrder
  <1>5. CASE UNCHANGED outgoing
    <2>1. \A d \in Conn : InOrder(outgoing[d], verified')
      BY Zenon, <1>2 DEF MailOrder, MailChain, InOrder
    <2>2. QED
      BY Zenon, <1>1, <1>3, <1>4, <1>5, <2>1 DEF MailOrder, MailChain
  <1>6. ASSUME NEW c \in Conn, Grown(outgoing, outgoing', c, m)
        PROVE  MailChain(got', outgoing', verified', Mail')
    <2>1. /\ Range(outgoing'[c]) = Range(outgoing[c]) \cup {m}
          /\ \A d \in Conn : d # c => outgoing'[d] = outgoing[d]
      BY Zenon, <1>1, <1>6, GrownRange
    <2>2. Sorted(outgoing'[c])
      <3>1. Sorted(outgoing[c]) /\ \A x \in Range(outgoing[c]) : Fits(x, m)
        BY Zenon, <1>2 DEF MailOrder, MailChain, InOrder
      <3>2. QED
        BY Zenon, <1>1, <1>6, <3>1, GrownSorted
    <2>3. InOrder(got[c], outgoing'[c])
      <3>1. InOrder(got[c], outgoing[c]) /\ \A x \in Range(got[c]) : Fits(x, m)
        BY Zenon, <1>2 DEF MailOrder, MailChain, InOrder
      <3>2. QED
        BY Zenon, <2>1, <3>1 DEF InOrder
    <2>4. InOrder(outgoing'[c], verified')
      <3>1. InOrder(outgoing[c], verified')
        BY Zenon, <1>2 DEF MailOrder, MailChain, InOrder
      <3>2. QED
        BY Zenon, <1>3, <2>1, <3>1 DEF InOrder
    <2>5. \A d \in Conn : InOrder(outgoing'[c], Mail[d])
      <3>1. \A d \in Conn : InOrder(outgoing[c], Mail[d]) /\ \A x \in Range(Mail[d]) : Fits(m, x)
        BY Zenon, <1>2 DEF MailOrder, MailChain, InOrder
      <3>2. QED
        BY Zenon, <2>1, <3>1 DEF InOrder
    <2>6. \A d \in Conn : d # c => /\ Sorted(outgoing'[d]) /\ InOrder(got[d], outgoing'[d])
                                   /\ InOrder(outgoing'[d], verified')
                                   /\ \A b \in Conn : InOrder(outgoing'[d], Mail[b])
      BY Zenon, <1>2, <2>1 DEF MailOrder, MailChain, InOrder
    <2>7. UNCHANGED <<Mail, got>>
      BY Zenon, <1>1
    <2>8. QED
      BY Zenon, <1>3, <1>4, <2>2, <2>3, <2>4, <2>5, <2>6, <2>7 DEF MailOrder, MailChain
  <1>7. QED
    BY Zenon, <1>1, <1>5, <1>6

(* What the signing worker adds to an outgoing queue is no data.           *)
LEMMA MailSigned ==
  ASSUME Queues, InFlight, LogOrder, MailOrder, NEW c \in Conn, Signed(c)
  PROVE  MailChain(got', outgoing', verified', Mail')
  <1>0. PICK m : m = Head(signing[c])
    BY Zenon
  <1>1. /\ Family(signing) /\ Family(outgoing) /\ Shrunk(signing, signing', c)
        /\ Grown(outgoing, outgoing', c, m) /\ UNCHANGED <<Mail, verified, got>>
    BY Zenon, <1>0 DEF Queues, Signed
  <1>2. m \in Range(signing[c])
    BY Zenon, <1>0, <1>1, ShrunkRange
  <1>3. /\ Range(outgoing'[c]) = Range(outgoing[c]) \cup {m}
        /\ \A d \in Conn : d # c => outgoing'[d] = outgoing[d]
    BY Zenon, <1>1, GrownRange
  <1>4. /\ \A x \in Range(outgoing[c]) : Fits(x, m)
        /\ \A x \in Range(got[c]) : Fits(x, m)
    BY Zenon, <1>2 DEF LogOrder, LogChain, InOrder
  <1>5. \A x : Sent(x) => Fits(m, x)
    <2>1. m.kind # "data"
      BY Zenon, <1>2 DEF InFlight, Own
    <2>2. \A x : Sent(x) => x.kind \notin Events
      BY Zenon, SentKind
    <2>3. QED
      BY Zenon, <2>1, <2>2, FitsOther
  <1>6. /\ \A x \in Range(verified) : Fits(m, x)
        /\ \A d \in Conn : \A x \in Range(Mail[d]) : Fits(m, x)
    BY Zenon, <1>5 DEF InFlight
  <1>7. Sorted(outgoing'[c])
    <2>1. Sorted(outgoing[c])
      BY Zenon DEF MailOrder, MailChain
    <2>2. QED
      BY Zenon, <1>1, <1>4, <2>1, GrownSorted
  <1>8. QED
    BY Zenon, <1>1, <1>3, <1>4, <1>6, <1>7 DEF MailOrder, MailChain, InOrder

(* The writer keeps the mail in order.                                     *)
LEMMA MailWritten ==
  ASSUME Queues, MailOrder, NEW c \in Conn, Written(c)
  PROVE  MailChain(got', outgoing', verified', Mail')
  <1>0. PICK m : m = Head(outgoing[c])
    BY Zenon
  <1>1. /\ Family(outgoing) /\ Family(got) /\ Shrunk(outgoing, outgoing', c)
        /\ UNCHANGED got \/ Grown(got, got', c, m)
        /\ UNCHANGED <<Mail, verified>>
    BY Zenon, <1>0 DEF Queues, Written
  <1>2. m \in Range(outgoing[c]) /\ \A d \in Conn : Range(outgoing'[d]) \subseteq Range(outgoing[d])
    BY Zenon, <1>0, <1>1, ShrunkRange
  <1>3. Sorted(outgoing[c]) /\ Sorted(got[c]) /\ \A x \in Range(got[c]) : Fits(x, m)
    BY Zenon, <1>2 DEF MailOrder, MailChain, InOrder
  <1>4. /\ Sorted(outgoing'[c]) /\ \A x \in Range(outgoing'[c]) : Fits(m, x)
        /\ \A d \in Conn : d # c => outgoing'[d] = outgoing[d]
    BY Zenon, <1>0, <1>1, <1>3, ShrunkSorted
  <1>5. /\ Range(got'[c]) \subseteq Range(got[c]) \cup {m} /\ Sorted(got'[c])
        /\ \A d \in Conn : d # c => got'[d] = got[d]
    <2>1. CASE UNCHANGED got
      BY Zenon, <1>3, <2>1
    <2>2. CASE Grown(got, got', c, m)
      <3>1. /\ Range(got'[c]) = Range(got[c]) \cup {m}
            /\ \A d \in Conn : d # c => got'[d] = got[d]
        BY Zenon, <1>1, <2>2, GrownRange
      <3>2. Sorted(got'[c])
        BY Zenon, <1>1, <1>3, <2>2, GrownSorted
      <3>3. QED
        BY Zenon, <3>1, <3>2
    <2>3. QED
      BY Zenon, <1>1, <2>1, <2>2
  <1>6. InOrder(got'[c], outgoing'[c])
    <2>1. InOrder(got[c], outgoing'[c])
      BY Zenon, <1>2 DEF MailOrder, MailChain, InOrder
    <2>2. QED
      BY Zenon, <1>4, <1>5, <2>1 DEF InOrder
  <1>7. /\ InOrder(outgoing'[c], verified) /\ InOrder(got'[c], verified)
        /\ \A d \in Conn : InOrder(outgoing'[c], Mail[d]) /\ InOrder(got'[c], Mail[d])
    BY Zenon, <1>2, <1>5 DEF MailOrder, MailChain, InOrder
  <1>8. UNCHANGED <<Mail, verified>>
    BY Zenon, <1>1
  <1>9. QED
    BY Zenon, <1>4, <1>5, <1>6, <1>7, <1>8 DEF MailOrder, MailChain

(* Every step keeps the mail in order.                                     *)
LEMMA MailNext ==
  ASSUME Queues, Lives, Opened, InFlight, LogOrder, MailOrder, Next
  PROVE  MailChain(got', outgoing', verified', Mail')
  <1>1. CASE UNCHANGED <<got, outgoing, verified, Mail>>
    BY Zenon, <1>1 DEF MailOrder
  <1>2. ASSUME NEW c \in Conn, Announced(c) \/ Published(c)
        PROVE  UNCHANGED <<got, outgoing, verified, Mail>>
    BY Zenon, <1>2 DEF Announced, Published
  <1>3. Quiet \/ Answered \/ Handed => UNCHANGED <<got, outgoing, verified, Mail>>
    BY Zenon DEF Quiet, Answered, Handed
  <1>4. QED
    BY Zenon, <1>1, <1>2, <1>3, Flows, MailSettled, MailArrives, MailCleared, MailTaken,
       MailSigned, MailWritten

(* Every step keeps both orders.                                           *)
LEMMA OrderNext ==
  ASSUME Queues, Lives, Opened, InFlight, LogOrder, MailOrder, Next
  PROVE  LogOrder' /\ MailOrder'
  <1>1. plan' = plan
    BY Zenon, Progress
  <1>2. \A x, y : Fits(x, y)' <=> Fits(x, y)
    BY ZenonT(30), <1>1 DEF Fits, OnlyConnection, NodeOf, Events
  <1>3. LogOrder'
    BY Zenon, <1>2, LogNext DEF LogOrder, LogChain, Sorted, InOrder
  <1>4. MailOrder'
    BY Zenon, <1>2, MailNext DEF MailOrder, MailChain, Sorted, InOrder
  <1>5. QED
    BY Zenon, <1>3, <1>4

-----------------------------------------------------------------------------
(* What an advertisement in flight names is an advertised schema.          *)
LEMMA AdvertisementFacts ==
  ASSUME Queues, NEW m, Sent(m), m.kind = "advertisement"
  PROVE  /\ Len(m.schemas) \in Nat /\ DOMAIN m.schemas = 1..Len(m.schemas)
         /\ \A i \in DOMAIN m.schemas : m.schemas[i] \in Advertised(plan)
  <1>1. PICK c \in Conn : \E k \in 1..sent[c] : m = plan.sends[c][k]
    BY Zenon DEF Sent
  <1>2. PICK k \in 1..sent[c] : m = plan.sends[c][k]
    BY Zenon, <1>1
  <1>3. plan \in Plans /\ k \in DOMAIN plan.sends[c]
    BY <1>2, PlansAssumption DEF Queues
  <1>4. Len(m.schemas) \in Nat /\ DOMAIN m.schemas = 1..Len(m.schemas)
    BY <1>2, <1>3, PlansAssumption
  <1>5. m \in {n \in Range(plan.sends[c]) : n.kind = "advertisement"}
    BY Zenon, <1>2, <1>3 DEF Range
  <1>6. \A i \in DOMAIN m.schemas : m.schemas[i] \in Range(m.schemas)
    BY Zenon DEF Range
  <1>7. \A i \in DOMAIN m.schemas : m.schemas[i] \in Advertised(plan)
    <2> DEFINE ads == {n \in Range(plan.sends[c]) : n.kind = "advertisement"}
               ofc == UNION {Range(n.schemas) : n \in ads}
    <2>1. \A i \in DOMAIN m.schemas : m.schemas[i] \in ofc
      BY Zenon, <1>5, <1>6
    <2>2. ofc \subseteq Advertised(plan)
      BY Zenon DEF Advertised
    <2>3. QED
      BY Zenon, <2>1, <2>2
  <1>8. QED
    BY Zenon, <1>4, <1>7

INSTANCE FiniteSetTheorems

(* What the registry itself keeps.                                         *)
Stored(r) ==
  /\ \A hash \in DOMAIN r.byHash :
      /\ r.byHash[hash].hash = hash /\ hash # NoHash /\ r.byHash[hash] \in Advertised(plan)
      /\ r.byHash[hash].file \in DOMAIN r.byProtoFile
  /\ \A file \in DOMAIN r.byProtoFile :
      /\ r.byProtoFile[file] \in DOMAIN r.byHash
      /\ r.byHash[r.byProtoFile[file]].file = file

(* A set of naturals that is not empty has a least element, and a bounded  *)
(* one a greatest.                                                         *)
LEMMA LeastNat ==
  ASSUME NEW S, S \subseteq Nat, S # {}
  PROVE  Min(S) \in S /\ \A y \in S : Min(S) <= y
  <1> DEFINE R == {ss \in Nat \X Nat : ss[1] < ss[2]}
  <1>1. IsWellFoundedOn(R, Nat)
    BY Zenon, NatLessThanWellFounded DEF OpToRel
  <1>2. \A x, y \in Nat : x < y => <<x, y>> \in R
    BY Zenon
  <1> HIDE DEF R
  <1>3. \E x \in S : \A y \in S : ~(<<y, x>> \in R)
    BY Zenon, <1>1, WFMin
  <1>4. PICK x \in S : \A y \in S : ~(<<y, x>> \in R)
    BY Zenon, <1>3
  <1>5. ASSUME NEW y \in S PROVE x <= y
    <2>1. x \in Nat /\ y \in Nat
      BY Zenon
    <2>2. ~(y < x)
      BY Zenon, <1>2, <1>4, <2>1
    <2>3. QED
      BY <2>1, <2>2
  <1>6. QED
    BY Zenon, <1>5 DEF Min

(* A nonempty set of numbers up to n has a greatest one.                   *)
LEMMA GreatestNat ==
  ASSUME NEW n \in Nat, NEW S, S \subseteq 1..n, S # {}
  PROVE  Max(S) \in S /\ \A y \in S : Max(S) >= y
  <1> DEFINE T == {n - x : x \in S}
             t == Min(T)
  <1>1. T \subseteq Nat /\ T # {}
    <2>1. \A x \in S : n - x \in Nat
      OBVIOUS
    <2>2. PICK x : x \in S
      BY Zenon
    <2>3. QED
      BY Zenon, <2>1, <2>2
  <1> HIDE DEF T
  <1>2. t \in T /\ \A y \in T : t <= y
    BY Zenon, <1>1, LeastNat
  <1> HIDE DEF t
  <1>3. PICK x \in S : t = n - x
    BY Zenon, <1>2 DEF T
  <1>4. \A y \in S : n - y \in T
    BY Zenon DEF T
  <1>5. ASSUME NEW y \in S PROVE x >= y
    <2>1. n - x <= n - y
      BY Zenon, <1>2, <1>3, <1>4
    <2>2. QED
      BY <2>1
  <1>6. QED
    BY Zenon, <1>3, <1>5 DEF Max

(* Ingesting a list of schemas keeps what the registry keeps, forgets no hash, *)
(* and knows every hash of the list.                                          *)
LEMMA IngestFacts ==
  ASSUME plan \in Plans, Stored(registry), NEW s, Len(s) \in Nat, DOMAIN s = 1..Len(s),
         \A i \in DOMAIN s : s[i] \in Advertised(plan), ingest(s)
  PROVE  /\ Stored(registry')
         /\ DOMAIN registry.byHash \subseteq DOMAIN registry'.byHash
         /\ \A i \in DOMAIN s : s[i].hash # NoHash => s[i].hash \in DOMAIN registry'.byHash
  <1> DEFINE F == Fresh(s)
             hashes == {s[i].hash : i \in F}
             files == {s[i].file : i \in F}
             At(hash) == CHOOSE i \in F : s[i].hash = hash
             LastOf(file) == Max({i \in F : s[i].file = file})
             byHash == registry'.byHash
             byFile == registry'.byProtoFile
  <1>1. /\ byHash = [hash \in DOMAIN registry.byHash \cup hashes |->
                       IF hash \in hashes THEN s[At(hash)] ELSE registry.byHash[hash]]
        /\ byFile = [file \in DOMAIN registry.byProtoFile \cup files |->
                       IF file \in files THEN s[LastOf(file)].hash ELSE registry.byProtoFile[file]]
    BY Zenon DEF ingest, Enter
  <1>2. F \subseteq 1..Len(s) /\ \A i \in F : s[i].hash # NoHash /\ s[i].hash \notin DOMAIN registry.byHash
    BY Zenon DEF Fresh
  <1>3. ASSUME NEW hash \in hashes PROVE At(hash) \in F /\ s[At(hash)].hash = hash
    BY Zenon, <1>3
  <1>4. ASSUME NEW file \in files PROVE LastOf(file) \in F /\ s[LastOf(file)].file = file
    <2> DEFINE T == {i \in F : s[i].file = file}
    <2>1. T \subseteq 1..Len(s) /\ T # {}
      BY Zenon, <1>2, <1>4
    <2> HIDE DEF T
    <2>2. Max(T) \in T
      BY Zenon, <2>1, GreatestNat
    <2>3. QED
      BY Zenon, <2>2 DEF T
  <1>5. \A i \in F : s[i].hash \in hashes /\ s[i].file \in files
    BY Zenon
  <1> HIDE DEF F, hashes, files, At, LastOf, byHash, byFile
  <1>6. hashes \cap DOMAIN registry.byHash = {}
    BY Zenon, <1>2 DEF hashes
  <1>7. ASSUME NEW hash \in DOMAIN byHash
        PROVE  /\ byHash[hash].hash = hash /\ hash # NoHash /\ byHash[hash] \in Advertised(plan)
               /\ byHash[hash].file \in DOMAIN byFile
    <2>1. CASE hash \in hashes
      <3>0. At(hash) \in F /\ s[At(hash)].hash = hash
        BY Zenon, <1>3, <2>1
      <3>1. byHash[hash] = s[At(hash)] /\ At(hash) \in F /\ s[At(hash)].hash = hash
        BY Zenon, <1>1, <1>7, <2>1, <3>0
      <3>2. s[At(hash)].file \in DOMAIN byFile
        BY Zenon, <1>1, <1>5, <3>1
      <3>3. s[At(hash)] \in Advertised(plan) /\ s[At(hash)].hash # NoHash
        BY Zenon, <1>2, <3>0
      <3>4. QED
        BY Zenon, <3>1, <3>2, <3>3
    <2>2. CASE hash \notin hashes
      <3>1. hash \in DOMAIN registry.byHash /\ byHash[hash] = registry.byHash[hash]
        BY Zenon, <1>1, <1>7, <2>2
      <3>2. QED
        BY Zenon, <1>1, <3>1 DEF Stored
    <2>3. QED
      BY Zenon, <2>1, <2>2
  <1>8. ASSUME NEW file \in DOMAIN byFile
        PROVE  byFile[file] \in DOMAIN byHash /\ byHash[byFile[file]].file = file
    <2>1. CASE file \in files
      <3> DEFINE i == LastOf(file)
                 j == At(s[i].hash)
      <3>1. byFile[file] = s[i].hash /\ i \in F /\ s[i].file = file
        BY Zenon, <1>1, <1>4, <1>8, <2>1
      <3>2. s[i].hash \in hashes
        BY Zenon, <1>5, <3>1
      <3>3. byHash[s[i].hash] = s[j] /\ j \in F /\ s[j].hash = s[i].hash
        BY Zenon, <1>1, <1>3, <3>2
      <3> HIDE DEF i, j
      <3>4. /\ s[i] \in Advertised(plan) /\ s[j] \in Advertised(plan) /\ s[j].hash # NoHash
        BY Zenon, <1>2, <3>1, <3>3
      <3>5. s[j] = s[i]
        BY Zenon, <3>3, <3>4, ContentAddressed
      <3>6. QED
        BY Zenon, <1>1, <3>1, <3>2, <3>3, <3>5
    <2>2. CASE file \notin files
      <3> DEFINE hash == registry.byProtoFile[file]
      <3>1. file \in DOMAIN registry.byProtoFile /\ byFile[file] = hash
        BY Zenon, <1>1, <1>8, <2>2
      <3>2. hash \in DOMAIN registry.byHash /\ registry.byHash[hash].file = file
        BY Zenon, <3>1 DEF Stored
      <3>3. hash \notin hashes
        BY Zenon, <1>6, <3>2
      <3>4. hash \in DOMAIN byHash /\ byHash[hash] = registry.byHash[hash]
        BY Zenon, <1>1, <3>2, <3>3
      <3>5. QED
        BY Zenon, <3>1, <3>2, <3>4
    <2>3. QED
      BY Zenon, <2>1, <2>2
  <1>9. ASSUME NEW i \in DOMAIN s, s[i].hash # NoHash
        PROVE  s[i].hash \in DOMAIN byHash
    <2>1. CASE s[i].hash \in DOMAIN registry.byHash
      BY Zenon, <1>1, <2>1
    <2>2. CASE s[i].hash \notin DOMAIN registry.byHash
      <3> DEFINE T == {j \in 1..Len(s) : s[j].hash = s[i].hash}
                 j == Min(T)
      <3>1. T \subseteq Nat /\ T # {}
        BY <1>9
      <3> HIDE DEF T
      <3>2. j \in T /\ \A k \in T : j <= k
        BY Zenon, <3>1, LeastNat
      <3> HIDE DEF j
      <3>3. j \in 1..Len(s) /\ s[j].hash = s[i].hash
        BY Zenon, <3>2 DEF T
      <3>4. \A k \in 1..(j - 1) : s[k].hash # s[j].hash
        BY <3>2, <3>3 DEF T
      <3>5. j \in F
        BY Zenon, <1>9, <2>2, <3>3, <3>4 DEF Fresh, F
      <3>6. QED
        BY Zenon, <1>1, <1>5, <3>3, <3>5
    <2>3. QED
      BY Zenon, <2>1, <2>2
  <1>10. DOMAIN registry.byHash \subseteq DOMAIN byHash
    BY Zenon, <1>1
  <1>11. QED
    BY Zenon, <1>7, <1>8, <1>9, <1>10 DEF Stored, byHash, byFile

(* Every step keeps the registry complete; only ingest and the erasure of  *)
(* an advertisement touch what it is about.                                *)
LEMMA RegistryNext ==
  ASSUME Queues, Lives, InFlight, RegistryInv, Next
  PROVE  RegistryInv'
  <1> DEFINE Known(a, r) == \A node \in DOMAIN a : \A i \in DOMAIN a[node] :
                              /\ a[node][i] \in Advertised(plan)
                              /\ a[node][i].hash # NoHash => a[node][i].hash \in DOMAIN r.byHash
  <1>0. Stored(registry) /\ Known(adverts, registry)
    BY Zenon DEF RegistryInv, Stored
  <1>1. plan \in Plans /\ plan' = plan
    BY ZenonT(30), Progress DEF Queues
  <1>2. SUFFICES Stored(registry') /\ Known(adverts', registry')
    BY <1>1 DEF RegistryInv, Stored, Advertised
  <1>3. CASE UNCHANGED <<registry, adverts>>
    BY Zenon, <1>0, <1>3
  <1>4. ASSUME NEW S, adverts' = Restrict(adverts, S \cap DOMAIN adverts), UNCHANGED registry
        PROVE  Stored(registry') /\ Known(adverts', registry')
    BY Zenon, <1>0, <1>4 DEF Restrict
  <1>5. CASE eraseResourceAdvertisement
    <2>1. /\ adverts' = Restrict(adverts, (DOMAIN adverts \ {unrouted}) \cap DOMAIN adverts)
          /\ UNCHANGED registry
      BY Zenon, <1>5 DEF eraseResourceAdvertisement, Restrict
    <2>2. QED
      BY Zenon, <1>4, <2>1
  <1>6. CASE HandleInput
    <2>0. PICK m : m = Head(inputQueue)
      BY Zenon
    <2>1. inputQueue # <<>> /\ IsQueue(inputQueue) /\ HandleMessage(m)
      BY Zenon, <1>6, <2>0 DEF HandleInput, Queues
    <2>2. Sent(m)
      BY Zenon, <2>0, <2>1, QueueTail DEF InFlight
    <2>3. UNCHANGED <<registry, adverts>> \/ (m.kind = "advertisement" /\ Advertise(m))
      BY Zenon, <2>1, AnswerFacts
    <2>4. CASE m.kind = "advertisement" /\ Advertise(m)
      <3>0. PICK node : node = NodeOf(m.from)
        BY Zenon
      <3>1. \/ adverts' = Restrict(adverts, DOMAIN adverts \ {node}) /\ UNCHANGED registry
            \/ ingest(m.schemas) /\ adverts' = Put(adverts, node, m.schemas)
        BY Zenon, <2>4, <3>0 DEF Advertise
      <3>2. CASE adverts' = Restrict(adverts, DOMAIN adverts \ {node}) /\ UNCHANGED registry
        <4>1. (DOMAIN adverts \ {node}) \cap DOMAIN adverts = DOMAIN adverts \ {node}
          BY Zenon
        <4>2. QED
          BY Zenon, <1>4, <3>2, <4>1
      <3>3. CASE ingest(m.schemas) /\ adverts' = Put(adverts, node, m.schemas)
        <4>0. PICK s : s = m.schemas
          BY Zenon
        <4>1. /\ Len(s) \in Nat /\ DOMAIN s = 1..Len(s)
              /\ \A i \in DOMAIN s : s[i] \in Advertised(plan)
          BY Zenon, <2>2, <2>4, <4>0, AdvertisementFacts
        <4>2. ingest(s) /\ adverts' = Put(adverts, node, s)
          BY Zenon, <3>3, <4>0
        <4>3. /\ Stored(registry')
              /\ DOMAIN registry.byHash \subseteq DOMAIN registry'.byHash
              /\ \A i \in DOMAIN s : s[i].hash # NoHash => s[i].hash \in DOMAIN registry'.byHash
          BY Zenon, <1>0, <1>1, <4>1, <4>2, IngestFacts
        <4>4. \A k \in DOMAIN adverts' : adverts'[k] = s \/ (k \in DOMAIN adverts /\ adverts'[k] = adverts[k])
          BY Zenon, <4>2 DEF Put
        <4>5. QED
          BY Zenon, <1>0, <4>1, <4>3, <4>4
      <3>4. QED
        BY Zenon, <3>1, <3>2, <3>3
    <2>5. QED
      BY Zenon, <1>3, <2>3, <2>4
  <1>7. \/ UNCHANGED <<registry, adverts>> \/ eraseResourceAdvertisement \/ HandleInput
    BY Zenon, NextSplit DEF Session, handleEncodingDisconnect, Publish, Sign, dispatchSend, PeerSends,
         Break, handleAuthorizedMessage, Authorize, handleOutputMessage, TimePasses
  <1>8. QED
    BY Zenon, <1>3, <1>5, <1>6, <1>7

-----------------------------------------------------------------------------
(* No more workers are busy than a queue has.                              *)
Crowded == Busy("handshaking") <= Workers /\ Busy("authenticating") <= Workers

(* The connections at one stage can be counted.                            *)
LEMMA BusyFacts ==
  ASSUME Lives, NEW s
  PROVE  IsFiniteSet({c \in Conn : stage[c] = s}) /\ Busy(s) \in Nat
  <1> DEFINE S == {c \in Conn : stage[c] = s}
  <1>1. S \in SUBSET Conn /\ IsFiniteSet(Conn)
    BY Zenon, ConnAssumption
  <1> HIDE DEF S
  <1>2. IsFiniteSet(S)
    BY Zenon, <1>1, FS_Subset
  <1>3. Cardinality(S) \in Nat
    BY Zenon, <1>2, FS_CardinalityType
  <1>4. QED
    BY Zenon, <1>2, <1>3 DEF Busy, S

(* No more connections are served than there are workers.                  *)
LEMMA CrowdedNext ==
  ASSUME Queues, Lives, Crowded, Next
  PROVE  Crowded'
  <1> DEFINE In(s) == {c \in Conn : stage[c] = s}
             After(s) == {c \in Conn : stage'[c] = s}
  <1>q. stage \in [Conn -> Stages] /\ Workers \in Nat
    BY Zenon, WorkersAssumption DEF Lives
  <1>1. ASSUME NEW s, After(s) \subseteq In(s)
        PROVE  Busy(s)' <= Busy(s) /\ Busy(s)' \in Nat
    <2>1. IsFiniteSet(In(s)) /\ Busy(s) \in Nat
      BY Zenon, BusyFacts
    <2> HIDE DEF In, After
    <2>2. IsFiniteSet(After(s)) /\ Cardinality(After(s)) <= Cardinality(In(s))
      BY Zenon, <1>1, <2>1, FS_Subset
    <2>3. Cardinality(After(s)) \in Nat
      BY Zenon, <2>2, FS_CardinalityType
    <2>4. QED
      BY Zenon, <2>2, <2>3 DEF Busy, In, After
  <1>2. ASSUME NEW s, NEW c \in Conn, After(s) \subseteq In(s) \cup {c}, Busy(s) < Workers
        PROVE  Busy(s)' <= Workers
    <2>1. IsFiniteSet(In(s)) /\ Busy(s) \in Nat /\ Busy(s) = Cardinality(In(s))
      BY Zenon, BusyFacts DEF Busy
    <2> HIDE DEF In, After
    <2>2. /\ IsFiniteSet(In(s) \cup {c})
          /\ Cardinality(In(s) \cup {c}) = IF c \in In(s) THEN Cardinality(In(s))
                                           ELSE Cardinality(In(s)) + 1
      BY Zenon, <2>1, FS_AddElement
    <2>3. /\ IsFiniteSet(After(s)) /\ Cardinality(After(s)) <= Cardinality(In(s) \cup {c})
      BY Zenon, <1>2, <2>2, FS_Subset
    <2>4. Cardinality(After(s)) \in Nat
      BY Zenon, <2>3, FS_CardinalityType
    <2>5. Cardinality(After(s)) <= Workers
      BY <1>q, <1>2, <2>1, <2>2, <2>3, <2>4
    <2>6. QED
      BY Zenon, <2>5 DEF Busy, After
  <1>3. ASSUME NEW s, After(s) \subseteq In(s), Busy(s) <= Workers
        PROVE  Busy(s)' <= Workers
    <2>1. Busy(s)' <= Busy(s) /\ Busy(s)' \in Nat
      BY Zenon, <1>1, <1>3
    <2>2. Busy(s) \in Nat
      BY Zenon, BusyFacts
    <2> HIDE DEF In, After
    <2>3. QED
      BY <1>q, <1>3, <2>1, <2>2
  <1>4. ASSUME NEW c \in Conn, WorkerTakes(c) PROVE Crowded'
    <2>1. CASE /\ stage[c] = "accepted" /\ Busy("handshaking") < Workers
               /\ MoveTo(c, "handshaking")
      <3>1. /\ After("handshaking") \subseteq In("handshaking") \cup {c}
            /\ After("authenticating") \subseteq In("authenticating")
        BY Zenon, <1>q, <2>1 DEF MoveTo
      <3>2. Busy("handshaking")' <= Workers
        BY Zenon, <1>2, <2>1, <3>1
      <3>3. Busy("authenticating")' <= Workers
        BY Zenon, <1>3, <3>1 DEF Crowded
      <3>4. QED
        BY Zenon, <3>2, <3>3 DEF Crowded
    <2>2. CASE /\ stage[c] = "greeted" /\ Busy("authenticating") < Workers
               /\ MoveTo(c, "authenticating")
      <3>1. /\ After("authenticating") \subseteq In("authenticating") \cup {c}
            /\ After("handshaking") \subseteq In("handshaking")
        BY Zenon, <1>q, <2>2 DEF MoveTo
      <3>2. Busy("authenticating")' <= Workers
        BY Zenon, <1>2, <2>2, <3>1
      <3>3. Busy("handshaking")' <= Workers
        BY Zenon, <1>3, <3>1 DEF Crowded
      <3>4. QED
        BY Zenon, <3>2, <3>3 DEF Crowded
    <2>3. QED
      BY Zenon, <1>4, <2>1, <2>2 DEF WorkerTakes
  <1>5. ASSUME NEW c \in Conn, NEW s, s \notin {"handshaking", "authenticating"},
               MoveTo(c, s) \/ UNCHANGED stage
        PROVE  Crowded'
    <2>1. /\ After("handshaking") \subseteq In("handshaking")
          /\ After("authenticating") \subseteq In("authenticating")
      BY Zenon, <1>q, <1>5 DEF MoveTo
    <2>2. QED
      BY Zenon, <1>3, <2>1 DEF Crowded
  <1>6. CASE UNCHANGED stage
    <2>1. /\ After("handshaking") \subseteq In("handshaking")
          /\ After("authenticating") \subseteq In("authenticating")
      BY Zenon, <1>6
    <2>2. QED
      BY Zenon, <1>3, <2>1 DEF Crowded
  <1>7. ASSUME NEW c \in Conn, \/ enqueueAcceptedConnection(c) \/ Handshake(c) \/ Exchange(c)
                               \/ Register(c) \/ Start(c) \/ readLoop(c)
                               \/ handleEncodingDisconnect(c) \/ Publish(c)
        PROVE  \E s : s \notin {"handshaking", "authenticating"} /\ (MoveTo(c, s) \/ UNCHANGED stage)
    <2>1. \/ \E s \in {"accepted", "greeted", "refused", "registered", "reading", "lost", "announcing",
                       "ended"} : MoveTo(c, s)
          \/ UNCHANGED stage
      BY Zenon, <1>7 DEF enqueueAcceptedConnection, Handshake, Exchange, Refuse, Register, Start,
         readLoop, handleEncodingDisconnect, Publish
    <2>2. \A s \in {"accepted", "greeted", "refused", "registered", "reading", "lost", "announcing",
                    "ended"} : s \notin {"handshaking", "authenticating"}
      BY Zenon
    <2>3. "ended" \notin {"handshaking", "authenticating"}
      BY Zenon
    <2>4. QED
      BY Zenon, <2>1, <2>2, <2>3
  <1>8. ASSUME \/ \E c \in Conn : Sign(c) \/ dispatchSend(c) \/ PeerSends(c) \/ Break(c)
               \/ handleAuthorizedMessage \/ eraseResourceAdvertisement \/ HandleInput
               \/ handleOutputMessage \/ TimePasses
        PROVE  UNCHANGED stage
    BY Zenon, <1>8 DEF Sign, dispatchSend, PeerSends, Break, handleAuthorizedMessage, Authorize,
       eraseResourceAdvertisement, HandleInput, handleOutputMessage, TimePasses, sessionVars
  <1>9. QED
    BY Zenon, NextSplit, <1>4, <1>5, <1>6, <1>7, <1>8

-----------------------------------------------------------------------------
(* The inductive invariant: it holds at first and every step keeps it.     *)
IInv ==
  /\ Queues /\ Lives /\ Opened /\ InFlight /\ LogOrder /\ MailOrder /\ RegistryInv /\ Crowded

(* The initial states satisfy the inductive invariant.                     *)
LEMMA InitIInv == Init => IInv
  <1> SUFFICES ASSUME Init PROVE IInv
    BY Zenon
  <1>e. IsQueue(<<>>) /\ Range(<<>>) = {} /\ Len(<<>>) = 0 /\ Sorted(<<>>) /\ DOMAIN <<>> = {}
    BY EmptyQueue, SortedEmpty
  <1>1. Queues
    <2>1. \A f : f = [c \in Conn |-> <<>>] => Family(f)
      BY Zenon, <1>e DEF Family
    <2>2. \A c \in Conn : 0 <= Len(plan.sends[c])
      BY PlansAssumption DEF Init
    <2>3. QED
      BY Zenon, <1>e, <2>1, <2>2 DEF Init, SessionsInit, LogInit, Queues
  <1>2. Lives
    <2>1. stage \in [Conn -> Stages] /\ \A c \in Conn : stage[c] = "idle"
      BY Zenon DEF Init, SessionsInit, Stages
    <2>2. alive \in [Conn -> BOOLEAN]
      BY Zenon DEF Init, SessionsInit
    <2>3. activeEncodings \in Seq(Conn) /\ IsInjective(activeEncodings) /\ Listed = {}
      BY <1>e DEF Init, SessionsInit, IsInjective, Listed
    <2>4. QED
      BY <2>1, <2>2, <2>3 DEF Init, SessionsInit, Lives, Running
  <1>3. Opened
    BY Zenon DEF Init, SessionsInit, Opened
  <1>m. \A c \in Conn : /\ Mail[c] = <<>> /\ publishing[c] = <<>> /\ signing[c] = <<>>
                        /\ outgoing[c] = <<>> /\ got[c] = <<>>
    BY Zenon DEF Init, SessionsInit, Mail
  <1>n. verified = <<>> /\ inputQueue = <<>> /\ outputQueue = <<>>
    BY Zenon DEF Init
  <1>4. InFlight
    BY Zenon, <1>e, <1>m, <1>n DEF InFlight
  <1>5. LogOrder
    BY Zenon, <1>e, <1>m, <1>n DEF LogOrder, LogChain, InOrder
  <1>6. MailOrder
    BY Zenon, <1>e, <1>m, <1>n DEF MailOrder, MailChain, InOrder
  <1>7. RegistryInv
    BY Zenon, <1>e DEF Init, RegistryInit, RegistryInv
  <1>8. Crowded
    <2>1. \A s \in {"handshaking", "authenticating"} : {c \in Conn : stage[c] = s} = {}
      BY Zenon DEF Init, SessionsInit
    <2>2. Cardinality({}) = 0
      BY Zenon, FS_EmptySet
    <2>3. QED
      BY <2>1, <2>2, WorkersAssumption DEF Crowded, Busy
  <1>9. QED
    BY Zenon, <1>1, <1>2, <1>3, <1>4, <1>5, <1>6, <1>7, <1>8 DEF IInv

(* Every step keeps the inductive invariant.                               *)
LEMMA NextIInv == IInv /\ [Next]_vars => IInv'
  <1> SUFFICES ASSUME IInv, [Next]_vars PROVE IInv'
    BY Zenon
  <1>1. CASE Next
    BY Zenon, <1>1, QueuesNext, LivesNext, OpenedNext, InFlightNext, OrderNext, RegistryNext,
       CrowdedNext DEF IInv
  <1>2. CASE UNCHANGED vars
    <2>0. /\ UNCHANGED <<plan, stage, alive, wire, exchange, activeEncodings, publishing, verified>>
          /\ UNCHANGED <<subscriptions, lastId, registry, adverts, unrouted, inputQueue, outputQueue>>
          /\ UNCHANGED <<signing, outgoing, sent, got, losses>>
      BY Zenon, <1>2 DEF vars, sessionVars, logVars, queueVars, peerVars
    <2>1. Queues'
      BY Zenon, <2>0 DEF IInv, Queues
    <2>2. Lives' /\ Opened'
      BY Zenon, <2>0 DEF IInv, Lives, Opened, Listed
    <2>3. Mail' = Mail
      BY Zenon, <2>0 DEF Mail
    <2>4. \A m : (Sent(m)' <=> Sent(m)) /\ (Own(m)' <=> Own(m))
      BY Zenon, <2>0 DEF Sent, Own, Told, Events, OnlyConnection, NodeOf
    <2>5. \A c \in Conn : NodeOf(c)' = NodeOf(c)
      BY Zenon, <2>0 DEF NodeOf
    <2>6. InFlight'
      BY Zenon, <2>0, <2>3, <2>4, <2>5 DEF IInv, InFlight, Events
    <2>7. \A x, y : Fits(x, y)' <=> Fits(x, y)
      BY ZenonT(30), <2>0 DEF Fits, OnlyConnection, NodeOf, Events
    <2>8. LogOrder'
      BY Zenon, <2>0, <2>7 DEF IInv, LogOrder, LogChain, Sorted, InOrder
    <2>9. MailOrder'
      BY ZenonT(30), <2>0, <2>3, <2>7 DEF IInv, MailOrder, MailChain, Sorted, InOrder
    <2>10. RegistryInv'
      BY <2>0 DEF IInv, RegistryInv, Advertised
    <2>11. Crowded'
      BY Zenon, <2>0 DEF IInv, Crowded, Busy
    <2>12. QED
      BY Zenon, <2>1, <2>2, <2>6, <2>8, <2>9, <2>10, <2>11 DEF IInv
  <1>3. QED
    BY Zenon, <1>1, <1>2

(* For any connections, plans and numbers of workers: the sessions that    *)
(* handleAuthNSuccess has listed and handleEncodingDisconnect has not      *)
(* taken out are the ones that run, and no message waits in the signing    *)
(* queue of an unlisted one (NoZombieSession).                             *)
THEOREM NoZombies == Spec => []NoZombieSession
  <1>1. IInv => NoZombieSession
    <2> SUFFICES ASSUME IInv PROVE NoZombieSession
      BY Zenon
    <2>1. TypeOK
      BY Zenon DEF IInv, Lives, Crowded, TypeOK
    <2>2. \A c \in Range(activeEncodings) : c \in Conn
      BY DEF IInv, Lives, Range
    <2>3. \A c \in Conn : stage[c] \in Running <=> c \in Range(activeEncodings)
      BY Zenon DEF IInv, Lives, Listed
    <2>4. \A c \in Conn : c \notin Range(activeEncodings) => signing[c] = <<>>
      BY Zenon DEF IInv, Lives, Listed
    <2>5. QED
      BY Zenon, <2>1, <2>2, <2>3, <2>4 DEF NoZombieSession, Running
  <1>2. QED
    BY <1>1, InitIInv, NextIInv, PTL DEF Spec

(* For any connections and plans: what sendLocalMessage, routeAndSend and  *)
(* the threads that publish deliver to a peer is addressed to its node and *)
(* in order (MailInOrder).                                                 *)
THEOREM MailOrdered == Spec => []MailInOrder
  <1>1. IInv => MailInOrder
    <2>1. SUFFICES ASSUME IInv, NEW c \in Conn, NEW i \in DOMAIN got[c]
                   PROVE  /\ got[c][i].to = NodeOf(c)
                          /\ \A j \in 1..(i - 1) : Fits(got[c][j], got[c][i])
      BY Zenon DEF MailInOrder
    <2>2. got[c][i] \in Range(got[c])
      BY Zenon DEF Range
    <2>3. got[c][i].to = NodeOf(c)
      BY Zenon, <2>1, <2>2 DEF IInv, InFlight
    <2>4. IsQueue(got[c]) /\ Sorted(got[c])
      BY Zenon, <2>1 DEF IInv, Queues, Family, MailOrder, MailChain
    <2>5. DOMAIN got[c] = 1..Len(got[c]) /\ Len(got[c]) \in Nat
      BY Zenon, <2>4, QueueTyped
    <2>6. \A j \in 1..(i - 1) : j \in DOMAIN got[c] /\ j < i
      BY <2>1, <2>5
    <2>7. \A j \in 1..(i - 1) : Fits(got[c][j], got[c][i])
      BY Zenon, <2>4, <2>6 DEF Sorted
    <2>8. QED
      BY Zenon, <2>3, <2>7
  <1>2. QED
    BY <1>1, InitIInv, NextIInv, PTL DEF Spec

(* For any advertisements whose schemas are addressed by their content:    *)
(* SchemaRegistry::ingest keeps what every listed advertisement names, and *)
(* the two lookups find it (AdvertisedIsServed).                           *)
THEOREM SchemasServed == Spec => []AdvertisedIsServed
  <1>1. IInv => AdvertisedIsServed
    <2>1. SUFFICES ASSUME IInv, NEW node \in DOMAIN adverts, NEW i \in DOMAIN adverts[node],
                          adverts[node][i].hash # NoHash
                   PROVE  /\ findByHash(adverts[node][i].hash) = {adverts[node][i]}
                          /\ \E known \in findByProtoFile(adverts[node][i].file) :
                               known.file = adverts[node][i].file
      BY Zenon DEF AdvertisedIsServed
    <2>2. PICK schema : schema = adverts[node][i]
      BY Zenon
    <2>3. PICK stored : stored = registry.byHash[schema.hash]
      BY Zenon
    <2>4. /\ schema \in Advertised(plan) /\ schema.hash # NoHash
          /\ schema.hash \in DOMAIN registry.byHash
      BY Zenon, <2>1, <2>2 DEF IInv, RegistryInv
    <2>5. /\ stored.hash = schema.hash /\ stored \in Advertised(plan)
          /\ stored.file \in DOMAIN registry.byProtoFile
      BY Zenon, <2>1, <2>3, <2>4 DEF IInv, RegistryInv
    <2>6. plan \in Plans
      BY Zenon, <2>1 DEF IInv, Queues
    <2>7. stored = schema
      BY Zenon, <2>4, <2>5, <2>6, ContentAddressed
    <2>8. findByHash(schema.hash) = {schema}
      BY Zenon, <2>3, <2>4, <2>7 DEF findByHash
    <2>9. PICK hash : hash = registry.byProtoFile[schema.file]
      BY Zenon
    <2>10. hash \in DOMAIN registry.byHash /\ registry.byHash[hash].file = schema.file
      BY Zenon, <2>1, <2>5, <2>7, <2>9 DEF IInv, RegistryInv
    <2>11. findByProtoFile(schema.file) = {registry.byHash[hash]}
      BY Zenon, <2>5, <2>7, <2>9, <2>10 DEF findByProtoFile, findByHash
    <2>12. QED
      BY Zenon, <2>2, <2>8, <2>10, <2>11
  <1>2. QED
    BY <1>1, InitIInv, NextIInv, PTL DEF Spec

=============================================================================
