---------------------- MODULE IdentityResolutionProofs ----------------------
(* Proofs about IdentityResolution for any signers, messages and limits.   *)
EXTENDS IdentityResolution, TLAPS

USE SMTT(30)

(* A list of distinct nodes that holds exactly the nodes of ents.          *)
Lists(order, ents) ==
  /\ order \in Seq(Signer)
  /\ \A i, j \in 1..Len(order) : order[i] = order[j] => i = j
  /\ \A s : s \in ents <=> \E i \in 1..Len(order) : order[i] = s

LEMMA ConsistentLists ==
  ASSUME usageOrder \in Seq(Signer)
  PROVE  CacheConsistent <=> Lists(usageOrder, entries) /\ Len(usageOrder) <= maximumEntries
  BY DEF CacheConsistent, Lists, Range, IsInjective

(* trimToLimitLocked keeps the map and the list in step.                   *)
LEMMA TrimLists ==
  ASSUME NEW order, NEW ents, Lists(order, ents), NEW max \in Nat,
         TrimToLimit(order, max, ents)
  PROVE  Lists(usageOrder', entries') /\ Len(usageOrder') <= max
  <1> DEFINE kept == IF Len(order) < max THEN Len(order) ELSE max
             short == SubSeq(order, 1, kept)
  <1>1. kept \in 0..Len(order) /\ kept <= max /\ order \in Seq(Signer)
    BY DEF Lists
  <1>2. /\ short \in Seq(Signer) /\ Len(short) = kept
        /\ \A i \in 1..kept : short[i] = order[i]
    BY <1>1
  <1>3. usageOrder' = short /\ entries' = ents \ {order[i] : i \in kept+1..Len(order)}
    BY Zenon DEF TrimToLimit
  <1> HIDE DEF kept, short
  <1>4. \A i, j \in 1..kept : short[i] = short[j] => i = j
    BY <1>1, <1>2 DEF Lists
  <1>5. ASSUME NEW s PROVE s \in entries' <=> \E i \in 1..kept : short[i] = s
    <2>1. ASSUME NEW i \in 1..kept, short[i] = s PROVE s \in entries'
      BY <1>1, <1>2, <1>3, <2>1 DEF Lists
    <2>2. ASSUME s \in entries' PROVE \E i \in 1..kept : short[i] = s
      <3>1. PICK i \in 1..Len(order) : order[i] = s
        BY Zenon, <1>3, <2>2 DEF Lists
      <3>2. i \notin kept+1..Len(order)
        BY Zenon, <1>3, <2>2, <3>1
      <3>3. QED
        BY <1>1, <1>2, <3>1, <3>2
    <2>3. QED
      BY Zenon, <2>1, <2>2
  <1>6. Lists(short, entries')
    BY Zenon, <1>2, <1>4, <1>5 DEF Lists
  <1>7. QED
    BY Zenon, <1>1, <1>2, <1>3, <1>6

LEMMA ConcatTyped ==
  ASSUME NEW a \in Seq(Signer), NEW b \in Seq(Signer)
  PROVE  a \o b \in Seq(Signer) /\ Len(a \o b) = Len(a) + Len(b)
  OBVIOUS

LEMMA WithoutFacts ==
  ASSUME NEW q \in Seq(Signer), NEW p \in 1..Len(q)
  PROVE  /\ Without(q, p) \in Seq(Signer)
         /\ Len(Without(q, p)) = Len(q) - 1
         /\ \A i \in 1..Len(q)-1 :
              Without(q, p)[i] = IF i < p THEN q[i] ELSE q[i + 1]
  <1> DEFINE a == SubSeq(q, 1, p - 1)
             b == SubSeq(q, p + 1, Len(q))
  <1>1. a \in Seq(Signer) /\ Len(a) = p - 1 /\ \A i \in 1..p-1 : a[i] = q[i]
    OBVIOUS
  <1>2. b \in Seq(Signer) /\ Len(b) = Len(q) - p
    OBVIOUS
  <1>3. \A i \in 1..Len(q)-p : b[i] = q[p + i]
    OBVIOUS
  <1>4. Without(q, p) = a \o b
    BY Zenon DEF Without
  <1>n. Len(q) \in Nat /\ p \in Nat /\ p >= 1 /\ p <= Len(q)
    OBVIOUS
  <1> HIDE DEF a, b
  <1>5. a \o b \in Seq(Signer) /\ Len(a \o b) = Len(q) - 1
    <2>1. a \o b \in Seq(Signer) /\ Len(a \o b) = Len(a) + Len(b)
      BY Zenon, <1>1, <1>2, ConcatTyped
    <2>2. QED
      BY <1>1, <1>2, <1>n, <2>1
  <1>6. ASSUME NEW i \in 1..Len(q)-1
        PROVE  (a \o b)[i] = IF i < p THEN q[i] ELSE q[i + 1]
    <2>1. CASE i < p
      BY <1>1, <1>2, <1>n, <2>1
    <2>2. CASE ~(i < p)
      <3>1. (a \o b)[i] = b[i - Len(a)]
        BY <1>1, <1>2, <1>n, <2>2
      <3>2. i - Len(a) = i - (p - 1) /\ i - (p - 1) \in 1..Len(q)-p
        BY <1>1, <1>n, <2>2
      <3>3. b[i - (p - 1)] = q[p + (i - (p - 1))] /\ p + (i - (p - 1)) = i + 1
        BY <1>3, <1>n, <3>2
      <3>4. QED
        BY Zenon, <3>1, <3>2, <3>3, <2>2
    <2>3. QED
      BY Zenon, <2>1, <2>2
  <1>7. QED
    BY Zenon, <1>4, <1>5, <1>6

LEMMA CacheIdentityLists ==
  ASSUME NEW s \in Signer, Lists(usageOrder, entries), maximumEntries \in Nat,
         Len(usageOrder) <= maximumEntries, CacheIdentity(s)
  PROVE  Lists(usageOrder', entries') /\ Len(usageOrder') <= maximumEntries'
  <1>0. maximumEntries' = maximumEntries
    BY Zenon DEF CacheIdentity
  <1>1. CASE s \in entries
    <2> DEFINE p == Position(s)
               n == Len(usageOrder)
               new == <<s>> \o Without(usageOrder, p)
    <2>1. p \in 1..n /\ usageOrder[p] = s /\ n \in Nat /\ usageOrder \in Seq(Signer)
      BY <1>1 DEF Position, Lists
    <2>2. /\ new \in Seq(Signer) /\ Len(new) = n
          /\ \A i \in 1..n : new[i] = IF i = 1 THEN s
                                      ELSE IF i <= p THEN usageOrder[i - 1]
                                      ELSE usageOrder[i]
      <3> DEFINE rest == Without(usageOrder, p)
      <3> HIDE DEF p
      <3>1. /\ rest \in Seq(Signer) /\ Len(rest) = n - 1
            /\ \A i \in 1..n-1 :
                 rest[i] = IF i < p THEN usageOrder[i] ELSE usageOrder[i + 1]
        BY Zenon, <2>1, WithoutFacts
      <3> HIDE DEF rest, n
      <3>2. new = <<s>> \o rest
        BY Zenon DEF rest
      <3>3. /\ new \in Seq(Signer) /\ Len(new) = n
            /\ \A i \in 1..n : new[i] = IF i = 1 THEN s ELSE rest[i - 1]
        <4>1. n \in Nat /\ n >= 1 /\ Len(<<s>>) = 1 /\ <<s>> \in Seq(Signer)
          BY <2>1
        <4>2. <<s>> \o rest \in Seq(Signer) /\ Len(<<s>> \o rest) = n
          BY <3>1, <4>1
        <4>3. ASSUME NEW i \in 1..n
              PROVE  (<<s>> \o rest)[i] = IF i = 1 THEN s ELSE rest[i - 1]
          BY <3>1, <4>1
        <4>4. QED
          BY Zenon, <3>2, <4>2, <4>3
      <3> HIDE DEF new
      <3>4. ASSUME NEW i \in 1..n
            PROVE  new[i] = IF i = 1 THEN s ELSE IF i <= p THEN usageOrder[i - 1]
                            ELSE usageOrder[i]
        <4>1. CASE i = 1
          BY Zenon, <4>1, <3>3
        <4>2. CASE i # 1
          <5>1. i - 1 \in 1..n-1 /\ (i - 1) + 1 = i /\ (i - 1 < p <=> i <= p)
            BY <2>1, <4>2
          <5>2. rest[i - 1] = IF i - 1 < p THEN usageOrder[i - 1]
                              ELSE usageOrder[(i - 1) + 1]
            BY Zenon, <3>1, <5>1
          <5>3. QED
            BY Zenon, <4>2, <5>1, <5>2, <3>3
        <4>3. QED
          BY Zenon, <4>1, <4>2
      <3>5. QED
        BY Zenon, <3>3, <3>4
    <2>3. usageOrder' = new /\ entries' = entries
      BY Zenon, <1>1 DEF CacheIdentity
    <2> HIDE DEF p, n, new
    <2>d. \A i, j \in 1..n : usageOrder[i] = usageOrder[j] => i = j
      BY Zenon DEF Lists, n
    <2>4. \A i, j \in 1..n : new[i] = new[j] => i = j
      <3> SUFFICES ASSUME NEW i \in 1..n, NEW j \in 1..n, new[i] = new[j] PROVE i = j
        BY Zenon
      <3> DEFINE at(k) == IF k = 1 THEN p ELSE IF k <= p THEN k - 1 ELSE k
      <3>1. \A k \in 1..n : at(k) \in 1..n /\ new[k] = usageOrder[at(k)]
        BY <2>1, <2>2
      <3>a. at(i) \in 1..n /\ at(j) \in 1..n /\ usageOrder[at(i)] = usageOrder[at(j)]
        BY Zenon, <3>1
      <3>2. at(i) = at(j)
        <4> HIDE DEF at
        <4>1. QED
          BY Zenon, <3>a, <2>d
      <3>3. p \in Int /\ i \in Int /\ j \in Int /\ i >= 1 /\ j >= 1
        BY <2>1
      <3> HIDE DEF Lists
      <3>4. QED
        BY <3>2, <3>3
    <2>5. ASSUME NEW t PROVE t \in entries <=> \E i \in 1..n : new[i] = t
      <3>1. ASSUME NEW i \in 1..n, new[i] = t PROVE t \in entries
        <4>1. \A k \in 1..n : usageOrder[k] \in entries
          BY Zenon DEF Lists, n
        <4>2. \E k \in 1..n : new[i] = usageOrder[k]
          BY <2>1, <2>2
        <4>3. QED
          BY Zenon, <3>1, <4>1, <4>2
      <3>2. ASSUME t \in entries PROVE \E i \in 1..n : new[i] = t
        <4>1. PICK i \in 1..n : usageOrder[i] = t
          BY Zenon, <3>2 DEF Lists, n
        <4>2. CASE i = p
          BY <4>1, <4>2, <2>1, <2>2
        <4>3. CASE i < p
          <5>1. i + 1 \in 1..n /\ i + 1 # 1 /\ i + 1 <= p /\ (i + 1) - 1 = i
            BY <4>3, <2>1
          <5>2. new[i + 1] = t
            BY Zenon, <4>1, <5>1, <2>2
          <5>3. QED
            BY Zenon, <5>1, <5>2
        <4>4. CASE i > p
          BY <4>1, <4>4, <2>1, <2>2
        <4>5. QED
          BY <4>2, <4>3, <4>4, <2>1
      <3>3. QED
        BY Zenon, <3>1, <3>2
    <2>6. QED
      BY Zenon, <1>0, <2>1, <2>2, <2>3, <2>4, <2>5 DEF Lists, n
  <1>2. CASE s \notin entries
    <2> DEFINE order == <<s>> \o usageOrder
               n == Len(usageOrder)
    <2>1. /\ order \in Seq(Signer) /\ Len(order) = n + 1
          /\ \A i \in 1..n+1 : order[i] = IF i = 1 THEN s ELSE usageOrder[i - 1]
      BY DEF Lists
    <2>2. TrimToLimit(order, maximumEntries, entries \cup {s})
      BY Zenon, <1>2 DEF CacheIdentity
    <2>n. n \in Nat
      BY DEF Lists
    <2> HIDE DEF order, n
    <2>3. \A i, j \in 1..n+1 : order[i] = order[j] => i = j
      <3> SUFFICES ASSUME NEW i \in 1..n+1, NEW j \in 1..n+1, order[i] = order[j]
                   PROVE  i = j
        BY Zenon
      <3>1. \A k \in 1..n : usageOrder[k] # s
        BY Zenon, <1>2 DEF Lists, n
      <3>2. \A k \in 1..n+1 : k # 1 => k - 1 \in 1..n /\ order[k] = usageOrder[k - 1]
        BY <2>1, <2>n
      <3>3. order[1] = s /\ 1 \in 1..n+1
        BY <2>1, <2>n
      <3>4. i = 1 <=> j = 1
        BY Zenon, <3>1, <3>2, <3>3
      <3>5. CASE i # 1 /\ j # 1
        <4>1. i - 1 \in 1..n /\ j - 1 \in 1..n /\ usageOrder[i - 1] = usageOrder[j - 1]
          BY Zenon, <3>2, <3>5
        <4>2. i - 1 = j - 1
          BY Zenon, <4>1 DEF Lists, n
        <4>3. QED
          BY <4>2, <2>n
      <3>6. QED
        BY Zenon, <3>4, <3>5
    <2>4. ASSUME NEW t
          PROVE  t \in entries \cup {s} <=> \E i \in 1..n+1 : order[i] = t
      <3>1. ASSUME NEW i \in 1..n+1, order[i] = t PROVE t \in entries \cup {s}
        <4>1. \A k \in 1..n : usageOrder[k] \in entries
          BY Zenon DEF Lists, n
        <4>2. i # 1 => i - 1 \in 1..n
          BY <2>n
        <4>3. QED
          BY Zenon, <2>1, <3>1, <4>1, <4>2
      <3>2. ASSUME t \in entries PROVE \E i \in 1..n+1 : order[i] = t
        <4>1. PICK i \in 1..n : usageOrder[i] = t
          BY Zenon, <3>2 DEF Lists, n
        <4>2. i + 1 \in 1..n+1 /\ order[i + 1] = t
          BY <4>1, <2>1, <2>n
        <4>3. QED
          BY Zenon, <4>2
      <3>3. \E i \in 1..n+1 : order[i] = s
        BY <2>1, <2>n
      <3>4. QED
        BY Zenon, <3>1, <3>2, <3>3
    <2>5. Lists(order, entries \cup {s})
      BY Zenon, <2>1, <2>3, <2>4 DEF Lists
    <2>6. QED
      BY Zenon, <1>0, <2>2, <2>5, TrimLists
  <1>3. QED
    BY Zenon, <1>1, <1>2
-----------------------------------------------------------------------------
Typed ==
  /\ maximumEntries \in CacheSizes
  /\ checkQueue \in Seq(Message) /\ identityQueue \in Seq(Message)
  /\ parked \in [Signer -> Seq(Message)]
  /\ resolver \in [Signer -> {"none", "start", "request", "poll", "absent",
                              "replay", "fail"}]

Cached == Lists(usageOrder, entries) /\ Len(usageOrder) <= maximumEntries

Inv == Typed /\ Cached /\ ParkedIffResolving

LEMMA SignerTyped ==
  ASSUME NEW m \in Message PROVE From(m) \in Signer
  BY Zenon, SignerAssumption DEF Message, From

LEMMA AppendTyped ==
  ASSUME NEW q \in Seq(Message), NEW m \in Message
  PROVE  Append(q, m) \in Seq(Message) /\ Append(q, m) # <<>>
  <1>1. Append(q, m) \in Seq(Message) /\ Len(Append(q, m)) = Len(q) + 1 /\ Len(q) \in Nat
    OBVIOUS
  <1>2. QED
    BY <1>1

LEMMA CacheStep ==
  ASSUME Inv, NEW s \in Signer, CacheIdentity(s)
  PROVE  Cached' /\ maximumEntries' \in CacheSizes
  <1>1. maximumEntries \in Nat /\ maximumEntries' = maximumEntries
    BY Zenon, SizeAssumption DEF Inv, Typed, CacheIdentity
  <1>2. QED
    BY Zenon, <1>1, CacheIdentityLists DEF Inv, Cached, Typed

LEMMA InvInit == Init => Inv
  <1> SUFFICES ASSUME Init PROVE Inv
    BY Zenon
  <1>1. Typed
    BY SizeAssumption DEF Init, Typed
  <1>2. Cached
    BY SizeAssumption DEF Init, Cached, Lists
  <1>3. ParkedIffResolving
    BY Zenon DEF Init, ParkedIffResolving
  <1>4. QED
    BY Zenon, <1>1, <1>2, <1>3 DEF Inv

LEMMA InvNext == Inv /\ [Next]_vars => Inv'
  <1> SUFFICES ASSUME Inv, [Next]_vars PROVE Inv'
    BY Zenon
  <1> USE DEF Inv, Typed, Cached, cacheVars, resolverVars
  <1>1. ASSUME NEW c \in CacheSizes, SetMaximumEntries(c) PROVE Inv'
    <2>1. TrimToLimit(usageOrder, c, entries) /\ maximumEntries' = c /\ c \in Nat
      BY Zenon, <1>1, SizeAssumption DEF SetMaximumEntries
    <2>2. Cached'
      BY Zenon, <2>1, TrimLists
    <2>3. QED
      BY Zenon, <1>1, <2>2 DEF SetMaximumEntries, ParkedIffResolving
  <1>2. ASSUME NEW s \in Signer, ObserveIdentity(s) PROVE Inv'
    <2>1. Cached' /\ maximumEntries' \in CacheSizes
      BY Zenon, <1>2, CacheStep DEF ObserveIdentity
    <2>2. QED
      BY Zenon, <1>2, <2>1 DEF ObserveIdentity, ParkedIffResolving
  <1>3. ASSUME NEW s \in Signer, Answer(s) PROVE Inv'
    BY <1>3 DEF Answer, Message, ParkedIffResolving
  <1>4. ASSUME NEW m \in Msg, Receive(m) PROVE Inv'
    BY <1>4 DEF Receive, Message, ParkedIffResolving
  <1>5. CASE CheckSignature
    <2>1. /\ Head(checkQueue) \in Message /\ checkQueue' \in Seq(Message)
          /\ identityQueue' \in Seq(Message)
      <3>1. checkQueue # <<>> /\ checkQueue' = Tail(checkQueue)
        BY Zenon, <1>5 DEF CheckSignature, VerificationKeyForNodeId
      <3>2. Head(checkQueue) \in Message /\ Tail(checkQueue) \in Seq(Message)
        BY <3>1
      <3>3. identityQueue' \in {identityQueue, Append(identityQueue, Head(checkQueue))}
        BY Zenon, <1>5 DEF CheckSignature, VerificationKeyForNodeId
      <3>4. QED
        BY Zenon, <3>1, <3>2, <3>3, AppendTyped
    <2>2. UNCHANGED <<cacheVars, parked, resolver>>
      BY Zenon, <1>5 DEF CheckSignature, VerificationKeyForNodeId
    <2>3. QED
      BY Zenon, <2>1, <2>2 DEF ParkedIffResolving
  <1>5a. CASE RejectSignature
    BY <1>5a DEF RejectSignature, SendSignatureFailure, ParkedIffResolving
  <1>6. CASE Park
    <2>1. UNCHANGED cacheVars /\ UNCHANGED checkQueue
      BY Zenon, <1>6 DEF Park, SendSignatureFailure
    <2> DEFINE m == Head(identityQueue)
               s == From(m)
    <2>2. m \in Message /\ s \in Signer /\ identityQueue' \in Seq(Message)
      BY <1>6, SignerTyped DEF Park, SendSignatureFailure
    <2>3. CASE UNCHANGED resolverVars
      BY Zenon, <2>1, <2>2, <2>3 DEF ParkedIffResolving
    <2>4. CASE /\ parked' = [parked EXCEPT ![s] = Append(@, m)]
               /\ resolver' = [resolver EXCEPT ![s] = Started(s)]
      <3>1. /\ Append(parked[s], m) \in Seq(Message) /\ Append(parked[s], m) # <<>>
            /\ Started(s) # "none"
            /\ Started(s) \in {"start", "request", "poll", "absent", "replay", "fail"}
        <4>1. parked[s] \in Seq(Message)
          BY Zenon, <2>2
        <4>2. resolver[s] \in {"none", "start", "request", "poll", "absent",
                               "replay", "fail"}
          BY Zenon, <2>2
        <4> HIDE DEF m, s
        <4>3. /\ Append(parked[s], m) \in Seq(Message) /\ Append(parked[s], m) # <<>>
          BY Zenon, <2>2, <4>1, AppendTyped
        <4>4. QED
          BY Zenon, <4>2, <4>3 DEF Started
      <3> HIDE DEF m, s
      <3>2. QED
        <4>1. \A t \in Signer :
                /\ parked'[t] = IF t = s THEN Append(parked[s], m) ELSE parked[t]
                /\ resolver'[t] = IF t = s THEN Started(s) ELSE resolver[t]
          BY Zenon, <2>2, <2>4
        <4>2. ParkedIffResolving'
          BY Zenon, <3>1, <4>1 DEF ParkedIffResolving
        <4>3. Typed'
          BY Zenon, <2>1, <2>2, <2>4, <3>1
        <4>4. QED
          BY Zenon, <2>1, <4>2, <4>3
    <2>5. QED
      BY Zenon, <1>6, <2>3, <2>4 DEF Park, SendSignatureFailure
  <1>7. ASSUME NEW s \in Signer, ResolverStep(s) PROVE Inv'
    <2>1. CASE LookUp(s) \/ WaitForIdentity(s)
               \/ \E sent \in BOOLEAN : RequestIdentity(s, sent)
      BY Zenon, <2>1 DEF LookUp, WaitForIdentity, RequestIdentity, Goto, Others,
                  ParkedIffResolving
    <2>2. CASE ReplayMessages(s)
      BY <2>2 DEF ReplayMessages, Drain, Goto, ParkedIffResolving
    <2>3. CASE FailMessages(s)
      BY <2>3 DEF FailMessages, SendSignatureFailure, Drain, Goto, ParkedIffResolving
    <2>4. QED
      BY Zenon, <1>7, <2>1, <2>2, <2>3 DEF ResolverStep
  <1>8. ASSUME NEW s \in Signer, DeadlinePasses(s) PROVE Inv'
    BY Zenon, <1>8 DEF DeadlinePasses, Others, ParkedIffResolving
  <1>9. CASE StopCheckQueue \/ StopIdentityQueue \/ SetStopping \/ JoinResolvers
    <2>1. UNCHANGED <<cacheVars, resolverVars, checkQueue, identityQueue>>
      BY Zenon, <1>9 DEF StopCheckQueue, StopIdentityQueue, SetStopping, JoinResolvers,
                         Advance
    <2>2. QED
      BY Zenon, <2>1 DEF ParkedIffResolving
  <1>10. CASE UNCHANGED vars
    BY Zenon, <1>10 DEF vars, ParkedIffResolving
  <1>11. QED
    BY Zenon, <1>1, <1>2, <1>3, <1>4, <1>5, <1>5a, <1>6, <1>7, <1>8, <1>9, <1>10 DEF Next

(* The list and the map of the identity cache agree and stay within the    *)
(* limit, for any cache size and any number of nodes.                      *)
THEOREM CacheInvariant == Spec => []CacheConsistent
  <1>1. Inv => CacheConsistent
    BY Zenon, ConsistentLists DEF Inv, Cached, Lists
  <1>2. QED
    BY <1>1, InvInit, InvNext, PTL DEF Spec

(* Messages are parked for a signer exactly while a thread resolves it.    *)
THEOREM ResolverInvariant == Spec => []ParkedIffResolving
  <1>1. Inv => ParkedIffResolving
    BY Zenon DEF Inv
  <1>2. QED
    BY <1>1, InvInit, InvNext, PTL DEF Spec
-----------------------------------------------------------------------------
(* Where a message is: in a sequence, and at one position only.            *)
In(m, q) == \E i \in 1..Len(q) : q[i] = m
Once(q) == \A i, j \in 1..Len(q) : q[i] = q[j] /\ q[i] \in Msg => i = j

LEMMA EmptyPlaces == Once(<<>>) /\ \A m : ~In(m, <<>>)
  BY DEF Once, In

LEMMA TailPlaces ==
  ASSUME NEW q \in Seq(Message), q # <<>>, Once(q)
  PROVE  /\ Head(q) \in Message /\ In(Head(q), q) /\ Once(Tail(q))
         /\ \A m \in Msg : In(m, Tail(q)) <=> In(m, q) /\ m # Head(q)
  <1> DEFINE t == Tail(q)
  <1>1. /\ Len(q) \in Nat /\ Len(q) >= 1 /\ Head(q) = q[1] /\ Len(t) = Len(q) - 1
        /\ q[1] \in Message
    OBVIOUS
  <1>2. \A i \in 1..Len(q)-1 : t[i] = q[i + 1]
    OBVIOUS
  <1> HIDE DEF t
  <1>3. In(Head(q), q)
    BY <1>1 DEF In
  <1>4. Once(t)
    <2> SUFFICES ASSUME NEW i \in 1..Len(t), NEW j \in 1..Len(t),
                        t[i] = t[j], t[i] \in Msg
                 PROVE  i = j
      BY Zenon DEF Once
    <2>1. i + 1 \in 1..Len(q) /\ j + 1 \in 1..Len(q) /\ t[i] = q[i + 1] /\ t[j] = q[j + 1]
      BY <1>1, <1>2
    <2>2. \A a, b \in 1..Len(q) : q[a] = q[b] /\ q[a] \in Msg => a = b
      BY Zenon DEF Once
    <2>3. i + 1 = j + 1
      BY Zenon, <2>1, <2>2
    <2>4. QED
      BY ONLY <2>3, <1>1, i \in 1..Len(t), j \in 1..Len(t)
  <1>5. ASSUME NEW m \in Msg PROVE In(m, t) <=> In(m, q) /\ m # Head(q)
    <2>1. ASSUME NEW i \in 1..Len(t), t[i] = m PROVE In(m, q) /\ m # Head(q)
      <3>1. i + 1 \in 1..Len(q) /\ q[i + 1] = m /\ i + 1 # 1 /\ 1 \in 1..Len(q)
        BY <1>1, <1>2, <2>1
      <3>2. QED
        BY Zenon, <1>1, <3>1 DEF In, Once
    <2>2. ASSUME NEW i \in 1..Len(q), q[i] = m, m # q[1] PROVE In(m, t)
      <3>1. i - 1 \in 1..Len(t) /\ (i - 1) + 1 = i
        BY <1>1, <2>2
      <3>2. t[i - 1] = m
        BY Zenon, <1>1, <1>2, <2>2, <3>1
      <3>3. QED
        BY Zenon, <3>1, <3>2 DEF In
    <2>3. QED
      BY Zenon, <2>1, <2>2, <1>1 DEF In
  <1>6. QED
    BY Zenon, <1>1, <1>3, <1>4, <1>5 DEF t

LEMMA ConcatPlaces ==
  ASSUME NEW q \in Seq(Message), NEW r \in Seq(Message)
  PROVE  /\ \A m : In(m, q \o r) <=> In(m, q) \/ In(m, r)
         /\ Once(q) /\ Once(r) /\ (\A m \in Msg : ~(In(m, q) /\ In(m, r))) => Once(q \o r)
  <1> DEFINE c == q \o r
             n == Len(q)
             k == Len(r)
  <1>1. n \in Nat /\ k \in Nat /\ Len(c) = n + k
    OBVIOUS
  <1>2. /\ \A i \in 1..n : c[i] = q[i]
        /\ \A i \in n+1..n+k : c[i] = r[i - n]
    OBVIOUS
  <1> HIDE DEF c, n, k
  <1>i. /\ \A i \in 1..n+k : i \in 1..n \/ i \in n+1..n+k
        /\ \A i \in n+1..n+k : i - n \in 1..k
    BY <1>1
  <1>3. ASSUME NEW m PROVE In(m, c) <=> In(m, q) \/ In(m, r)
    <2>1. ASSUME NEW i \in 1..n, q[i] = m PROVE In(m, c)
      <3>1. i \in 1..n+k /\ c[i] = m
        BY <1>1, <1>2, <2>1
      <3>2. QED
        BY Zenon, <1>1, <3>1 DEF In
    <2>2. ASSUME NEW i \in 1..k, r[i] = m PROVE In(m, c)
      <3>1. n + i \in n+1..n+k /\ n + i \in 1..n+k /\ (n + i) - n = i
        BY <1>1
      <3>2. c[n + i] = m
        BY Zenon, <1>2, <2>2, <3>1
      <3>3. QED
        BY Zenon, <1>1, <3>1, <3>2 DEF In
    <2>3. ASSUME NEW i \in 1..n+k, c[i] = m PROVE In(m, q) \/ In(m, r)
      <3>1. CASE i \in 1..n
        <4>1. i \in 1..n /\ q[i] = m
          BY Zenon, <1>2, <1>i, <2>3, <3>1
        <4>2. QED
          BY Zenon, <4>1 DEF In, n
      <3>2. CASE i \in n+1..n+k
        <4>1. i - n \in 1..k /\ r[i - n] = m
          BY Zenon, <1>2, <1>i, <2>3, <3>2
        <4>2. QED
          BY Zenon, <4>1 DEF In, k
      <3>3. QED
        BY Zenon, <1>i, <2>3, <3>1, <3>2
    <2>4. QED
      BY Zenon, <2>1, <2>2, <2>3, <1>1 DEF In, n, k
  <1>4. ASSUME Once(q), Once(r), \A m \in Msg : ~(In(m, q) /\ In(m, r)) PROVE Once(c)
    <2> SUFFICES ASSUME NEW i \in 1..n+k, NEW j \in 1..n+k, c[i] = c[j], c[i] \in Msg
                 PROVE  i = j
      BY Zenon, <1>1 DEF Once
    <2>1. CASE i \in 1..n /\ j \in 1..n
      <3>1. i \in 1..n /\ j \in 1..n /\ c[i] = q[i] /\ c[j] = q[j]
        BY Zenon, <1>2, <1>i, <2>1
      <3>2. QED
        BY Zenon, <1>4, <3>1 DEF Once, n
    <2>2. CASE i \in n+1..n+k /\ j \in n+1..n+k
      <3>1. i - n \in 1..k /\ j - n \in 1..k /\ c[i] = r[i - n] /\ c[j] = r[j - n]
        BY Zenon, <1>2, <1>i, <2>2
      <3>2. i - n = j - n
        BY Zenon, <1>4, <3>1 DEF Once, k
      <3>3. QED
        BY <1>1, <3>2
    <2>3. CASE i \in 1..n /\ j \in n+1..n+k
      <3>1. i \in 1..n /\ j - n \in 1..k /\ c[i] = q[i] /\ c[j] = r[j - n]
        BY Zenon, <1>2, <1>i, <2>3
      <3>2. In(c[i], q) /\ In(c[i], r)
        BY Zenon, <3>1 DEF In, n, k
      <3>3. QED
        BY Zenon, <1>4, <3>2
    <2>4. CASE i \in n+1..n+k /\ j \in 1..n
      <3>1. j \in 1..n /\ i - n \in 1..k /\ c[j] = q[j] /\ c[i] = r[i - n]
        BY Zenon, <1>2, <1>i, <2>4
      <3>2. In(c[i], q) /\ In(c[i], r)
        BY Zenon, <3>1 DEF In, n, k
      <3>3. QED
        BY Zenon, <1>4, <3>2
    <2>5. QED
      BY Zenon, <1>i, <2>1, <2>2, <2>3, <2>4
  <1>5. QED
    BY Zenon, <1>3, <1>4 DEF c

LEMMA AppendPlaces ==
  ASSUME NEW q \in Seq(Message), NEW x \in Message
  PROVE  /\ \A m : In(m, Append(q, x)) <=> In(m, q) \/ m = x
         /\ Once(q) /\ (x \in Msg => ~In(x, q)) => Once(Append(q, x))
  <1> DEFINE r == <<x>>
  <1>1. r \in Seq(Message) /\ Len(r) = 1 /\ r[1] = x /\ Append(q, x) = q \o r
    OBVIOUS
  <1> HIDE DEF r
  <1>2. \A m : In(m, r) <=> m = x
    BY <1>1 DEF In
  <1>3. Once(r)
    BY <1>1 DEF Once
  <1>4. QED
    BY <1>1, <1>2, <1>3, ConcatPlaces
-----------------------------------------------------------------------------
(* A message that has arrived is in exactly one of the five places, and    *)
(* one that has not is in none.                                            *)
Located(m) ==
  /\ m \in arrived <=> \/ In(m, checkQueue) \/ In(m, identityQueue)
                       \/ In(m, parked[SignerOf[m]]) \/ m \in verified \/ m \in failed
  /\ In(m, checkQueue) => /\ ~In(m, identityQueue) /\ ~In(m, parked[SignerOf[m]])
                          /\ m \notin verified /\ m \notin failed
  /\ In(m, identityQueue) => /\ ~In(m, parked[SignerOf[m]])
                             /\ m \notin verified /\ m \notin failed
  /\ In(m, parked[SignerOf[m]]) => m \notin verified /\ m \notin failed
  /\ m \in verified => m \notin failed

(* Messages are parked with their own signer.                              *)
Home == \A s \in Signer : \A m : In(m, parked[s]) => From(m) = s

OnceInv ==
  /\ Home
  /\ Once(checkQueue) /\ Once(identityQueue) /\ \A s \in Signer : Once(parked[s])
  /\ \A m \in Msg : Located(m)

LEMMA OnceInit == Init => OnceInv
  <1> SUFFICES ASSUME Init PROVE OnceInv
    BY Zenon
  <1>1. /\ checkQueue = <<>> /\ identityQueue = <<>> /\ \A s \in Signer : parked[s] = <<>>
        /\ arrived = {} /\ verified = {} /\ failed = {}
    BY Zenon DEF Init
  <1>2. \A m \in Msg : SignerOf[m] \in Signer
    BY Zenon, SignerAssumption
  <1>3. Home
    BY Zenon, <1>1, EmptyPlaces DEF Home
  <1>4. Once(checkQueue) /\ Once(identityQueue) /\ \A s \in Signer : Once(parked[s])
    BY Zenon, <1>1, EmptyPlaces
  <1>5. \A m \in Msg : Located(m)
    BY Zenon, <1>1, <1>2, EmptyPlaces DEF Located
  <1>6. QED
    BY Zenon, <1>3, <1>4, <1>5 DEF OnceInv

LEMMA MsgFrom ==
  ASSUME NEW m \in Msg
  PROVE  SignerOf[m] \in Signer /\ From(m) = SignerOf[m] /\ m \in Message
  BY Zenon, SignerAssumption DEF From, Message

(* A message comes in: a new one, or the answer to a challenge.            *)
LEMMA ComesIn ==
  ASSUME Typed, OnceInv, NEW x \in Message, checkQueue' = Append(checkQueue, x),
         \/ x \in Msg /\ x \notin arrived /\ arrived' = arrived \cup {x}
         \/ x \notin Msg /\ arrived' = arrived,
         UNCHANGED <<identityQueue, parked, verified, failed>>
  PROVE  OnceInv'
  <1>1. checkQueue \in Seq(Message)
    BY Zenon DEF Typed
  <1>2. x \in Msg => ~In(x, checkQueue)
    BY Zenon DEF OnceInv, Located
  <1>3. Once(checkQueue') /\ \A m : In(m, checkQueue') <=> In(m, checkQueue) \/ m = x
    BY Zenon, <1>1, <1>2, AppendPlaces DEF OnceInv
  <1>4. ASSUME NEW m \in Msg PROVE Located(m)'
    BY Zenon, <1>3 DEF OnceInv, Located
  <1>5. Home' /\ Once(identityQueue)' /\ \A s \in Signer : Once(parked'[s])
    BY Zenon DEF OnceInv, Home
  <1>6. QED
    BY Zenon, <1>3, <1>4, <1>5 DEF OnceInv

(* The head of the check queue gets a verdict.                             *)
LEMMA CheckVerdict ==
  ASSUME Typed, OnceInv, checkQueue # <<>>, checkQueue' = Tail(checkQueue),
         \/ /\ verified' = verified \cup {Head(checkQueue)}
            /\ UNCHANGED <<identityQueue, failed>>
         \/ /\ failed' = failed \cup {Head(checkQueue)}
            /\ UNCHANGED <<identityQueue, verified>>
         \/ /\ identityQueue' = Append(identityQueue, Head(checkQueue))
            /\ UNCHANGED <<verified, failed>>,
         UNCHANGED <<parked, arrived>>
  PROVE  OnceInv'
  <1> DEFINE h == Head(checkQueue)
  <1>1. checkQueue \in Seq(Message) /\ identityQueue \in Seq(Message)
    BY Zenon DEF Typed
  <1>2. /\ h \in Message /\ In(h, checkQueue) /\ Once(checkQueue')
        /\ \A m \in Msg : In(m, checkQueue') <=> In(m, checkQueue) /\ m # h
    BY Zenon, <1>1, TailPlaces DEF OnceInv
  <1>h. \/ verified' = verified \cup {h} /\ identityQueue' = identityQueue /\ failed' = failed
        \/ failed' = failed \cup {h} /\ identityQueue' = identityQueue /\ verified' = verified
        \/ /\ identityQueue' = Append(identityQueue, h)
           /\ verified' = verified /\ failed' = failed
    BY Zenon
  <1> HIDE DEF h
  <1>3. h \in Msg => ~In(h, identityQueue)
    BY Zenon, <1>2 DEF OnceInv, Located
  <1>4. CASE identityQueue' = Append(identityQueue, h) /\ verified' = verified /\ failed' = failed
    <2>1. Once(identityQueue') /\ \A m : In(m, identityQueue') <=> In(m, identityQueue) \/ m = h
      BY Zenon, <1>1, <1>2, <1>3, <1>4, AppendPlaces DEF OnceInv
    <2>2. ASSUME NEW m \in Msg PROVE Located(m)'
      BY Zenon, <1>2, <1>4, <2>1 DEF OnceInv, Located
    <2>3. Home' /\ \A s \in Signer : Once(parked'[s])
      BY Zenon DEF OnceInv, Home
    <2>4. QED
      BY Zenon, <1>2, <2>1, <2>2, <2>3 DEF OnceInv
  <1>5. CASE /\ identityQueue' = identityQueue
             /\ \/ verified' = verified \cup {h} /\ failed' = failed
                \/ failed' = failed \cup {h} /\ verified' = verified
    <2>2. ASSUME NEW m \in Msg PROVE Located(m)'
      BY Zenon, <1>2, <1>5 DEF OnceInv, Located
    <2>3. Home' /\ Once(identityQueue)' /\ \A s \in Signer : Once(parked'[s])
      BY Zenon, <1>5 DEF OnceInv, Home
    <2>4. QED
      BY Zenon, <1>2, <2>2, <2>3 DEF OnceInv
  <1>6. QED
    BY Zenon, <1>h, <1>4, <1>5
(* The head of the identity queue is parked or rejected.                   *)
LEMMA ParkOnce ==
  ASSUME Typed, OnceInv, Park
  PROVE  OnceInv'
  <1> DEFINE h == Head(identityQueue)
             s == From(h)
  <1>1. checkQueue \in Seq(Message) /\ identityQueue \in Seq(Message) /\ identityQueue # <<>>
    BY Zenon DEF Typed, Park, SendSignatureFailure
  <1>2. /\ h \in Message /\ In(h, identityQueue) /\ Once(identityQueue')
        /\ \A m \in Msg : In(m, identityQueue') <=> In(m, identityQueue) /\ m # h
    BY Zenon, <1>1, TailPlaces DEF OnceInv, Park, SendSignatureFailure
  <1>3. UNCHANGED <<checkQueue, arrived, verified>>
    BY Zenon DEF Park, SendSignatureFailure
  <1>h. \/ parked' = [parked EXCEPT ![s] = Append(parked[s], h)] /\ failed' = failed
        \/ parked' = parked /\ failed' = failed \cup {h}
    BY Zenon DEF Park, SendSignatureFailure, resolverVars
  <1>s. s \in Signer
    BY Zenon, <1>2, SignerTyped
  <1> HIDE DEF h, s
  <1>4. CASE parked' = [parked EXCEPT ![s] = Append(parked[s], h)] /\ failed' = failed
    <2>1. parked[s] \in Seq(Message) /\ (h \in Msg => SignerOf[h] = s)
      BY Zenon, <1>s, MsgFrom DEF Typed, s
    <2>2. h \in Msg => ~In(h, parked[s])
      BY Zenon, <1>2, <2>1 DEF OnceInv, Located
    <2> DEFINE new == Append(parked[s], h)
    <2>3. Once(new) /\ \A m : In(m, new) <=> In(m, parked[s]) \/ m = h
      BY Zenon, <1>s, <1>2, <2>1, <2>2, AppendPlaces DEF OnceInv
    <2>4. \A t \in Signer : parked'[t] = IF t = s THEN new ELSE parked[t]
      BY Zenon, <1>4, <1>s DEF Typed
    <2> HIDE DEF new
    <2>5. \A t \in Signer : Once(parked'[t])
      BY Zenon, <2>3, <2>4 DEF OnceInv
    <2>6. Home'
      <3>1. SUFFICES ASSUME NEW t \in Signer, NEW m, In(m, parked'[t]) PROVE From(m) = t
        BY Zenon DEF Home
      <3>2. CASE t = s
        <4>1. In(m, parked[s]) \/ m = h
          BY Zenon, <2>3, <2>4, <3>1, <3>2
        <4>2. QED
          BY Zenon, <4>1, <3>2, <1>s DEF OnceInv, Home, s
      <3>3. CASE t # s
        BY Zenon, <2>4, <3>1, <3>3 DEF OnceInv, Home
      <3>4. QED
        BY Zenon, <3>2, <3>3
    <2>7. ASSUME NEW m \in Msg PROVE Located(m)'
      <3>1. In(m, parked'[SignerOf[m]]) <=> In(m, parked[SignerOf[m]]) \/ m = h
        BY Zenon, <2>1, <2>3, <2>4, MsgFrom
      <3>2. QED
        BY Zenon, <1>2, <1>3, <1>4, <3>1 DEF OnceInv, Located
    <2>8. QED
      BY Zenon, <1>2, <1>3, <2>5, <2>6, <2>7 DEF OnceInv
  <1>5. CASE parked' = parked /\ failed' = failed \cup {h}
    <2>1. ASSUME NEW m \in Msg PROVE Located(m)'
      BY Zenon, <1>2, <1>3, <1>5 DEF OnceInv, Located
    <2>2. Home' /\ \A t \in Signer : Once(parked'[t])
      BY Zenon, <1>5 DEF OnceInv, Home
    <2>3. QED
      BY Zenon, <1>2, <1>3, <2>1, <2>2 DEF OnceInv
  <1>6. QED
    BY Zenon, <1>h, <1>4, <1>5

(* The messages of a signer are drained, to be checked again or rejected.  *)
LEMMA DrainOnce ==
  ASSUME Typed, OnceInv, NEW s \in Signer, parked' = [parked EXCEPT ![s] = <<>>],
         \/ checkQueue' = checkQueue \o parked[s] /\ failed' = failed
         \/ failed' = failed \cup Range(parked[s]) /\ checkQueue' = checkQueue,
         UNCHANGED <<identityQueue, arrived, verified>>
  PROVE  OnceInv'
  <1> DEFINE q == parked[s]
  <1>1. checkQueue \in Seq(Message) /\ q \in Seq(Message)
    BY Zenon DEF Typed
  <1>2. \A t \in Signer : parked'[t] = IF t = s THEN <<>> ELSE parked[t]
    BY Zenon DEF Typed
  <1>3. Home' /\ \A t \in Signer : Once(parked'[t])
    BY Zenon, <1>2, EmptyPlaces DEF OnceInv, Home
  <1>4. ASSUME NEW m \in Msg
        PROVE  /\ In(m, q) <=> SignerOf[m] = s /\ In(m, parked[SignerOf[m]])
               /\ In(m, parked'[SignerOf[m]]) <=> In(m, parked[SignerOf[m]]) /\ ~In(m, q)
    <2>1. SignerOf[m] \in Signer /\ From(m) = SignerOf[m]
      BY Zenon, MsgFrom
    <2>2. In(m, q) => SignerOf[m] = s
      BY Zenon, <2>1 DEF OnceInv, Home
    <2>3. QED
      BY Zenon, <1>2, <2>1, <2>2, EmptyPlaces
  <1>h. \/ checkQueue' = checkQueue \o q /\ failed' = failed
        \/ failed' = failed \cup Range(q) /\ checkQueue' = checkQueue
    BY Zenon
  <1>q. Once(q)
    BY Zenon DEF OnceInv
  <1> HIDE DEF q
  <1>5. CASE checkQueue' = checkQueue \o q /\ failed' = failed
    <2>1. \A m \in Msg : ~(In(m, checkQueue) /\ In(m, q))
      BY Zenon, <1>4 DEF OnceInv, Located
    <2>2. Once(checkQueue') /\ \A m : In(m, checkQueue') <=> In(m, checkQueue) \/ In(m, q)
      BY Zenon, <1>1, <1>5, <1>q, <2>1, ConcatPlaces DEF OnceInv
    <2>3. ASSUME NEW m \in Msg PROVE Located(m)'
      BY Zenon, <1>4, <1>5, <2>2 DEF OnceInv, Located
    <2>4. QED
      BY Zenon, <1>3, <2>2, <2>3 DEF OnceInv
  <1>6. CASE failed' = failed \cup Range(q) /\ checkQueue' = checkQueue
    <2>1. \A m : m \in Range(q) <=> In(m, q)
      BY <1>1 DEF Range, In
    <2>2. ASSUME NEW m \in Msg PROVE Located(m)'
      <3>1. m \in failed' <=> m \in failed \/ In(m, q)
        BY Zenon, <1>6, <2>1
      <3>2. QED
        BY Zenon, <1>4, <1>6, <3>1 DEF OnceInv, Located
    <2>3. QED
      BY Zenon, <1>3, <1>6, <2>2 DEF OnceInv
  <1>7. QED
    BY Zenon, <1>h, <1>5, <1>6

LEMMA OnceNext == Inv /\ OnceInv /\ [Next]_vars => OnceInv'
  <1> SUFFICES ASSUME Inv, OnceInv, [Next]_vars PROVE OnceInv'
    BY Zenon
  <1>0. Typed
    BY Zenon DEF Inv
  <1>k. ASSUME UNCHANGED <<checkQueue, identityQueue, parked, arrived, verified, failed>>
        PROVE  OnceInv'
    BY Zenon, <1>k DEF OnceInv, Home, Located
  <1>1. ASSUME NEW c \in CacheSizes, SetMaximumEntries(c) PROVE OnceInv'
    BY Zenon, <1>1, <1>k DEF SetMaximumEntries, resolverVars
  <1>2. ASSUME NEW s \in Signer, ObserveIdentity(s) PROVE OnceInv'
    BY Zenon, <1>2, <1>k DEF ObserveIdentity, resolverVars
  <1>3. ASSUME NEW s \in Signer, Answer(s) PROVE OnceInv'
    <2>1. s \in Message /\ s \notin Msg
      BY Zenon, SignerAssumption DEF Message
    <2>2. QED
      BY Zenon, <1>0, <1>3, <2>1, ComesIn DEF Answer, resolverVars
  <1>4. ASSUME NEW m \in Msg, Receive(m) PROVE OnceInv'
    BY Zenon, <1>0, <1>4, MsgFrom, ComesIn DEF Receive, resolverVars
  <1>5. CASE CheckSignature
    BY Zenon, <1>0, <1>5, CheckVerdict DEF CheckSignature, VerificationKeyForNodeId, resolverVars
  <1>6. CASE RejectSignature
    BY Zenon, <1>0, <1>6, CheckVerdict DEF RejectSignature, SendSignatureFailure, resolverVars
  <1>7. CASE Park
    BY Zenon, <1>0, <1>7, ParkOnce
  <1>8. ASSUME NEW s \in Signer, ResolverStep(s) PROVE OnceInv'
    <2>1. CASE LookUp(s) \/ WaitForIdentity(s)
               \/ \E sent \in BOOLEAN : RequestIdentity(s, sent)
      BY Zenon, <2>1, <1>k DEF LookUp, WaitForIdentity, RequestIdentity, Others
    <2>2. CASE ReplayMessages(s)
      BY Zenon, <1>0, <2>2, DrainOnce DEF ReplayMessages, Drain
    <2>3. CASE FailMessages(s)
      BY Zenon, <1>0, <2>3, DrainOnce DEF FailMessages, SendSignatureFailure, Drain
    <2>4. QED
      BY Zenon, <1>8, <2>1, <2>2, <2>3 DEF ResolverStep
  <1>9. ASSUME NEW s \in Signer, DeadlinePasses(s) PROVE OnceInv'
    BY Zenon, <1>9, <1>k DEF DeadlinePasses, Others
  <1>10. CASE StopCheckQueue \/ StopIdentityQueue \/ SetStopping \/ JoinResolvers
    BY Zenon, <1>10, <1>k DEF StopCheckQueue, StopIdentityQueue, SetStopping, JoinResolvers,
                       Advance, resolverVars
  <1>11. CASE UNCHANGED vars
    BY Zenon, <1>11, <1>k DEF vars, resolverVars
  <1>12. QED
    BY Zenon, <1>1, <1>2, <1>3, <1>4, <1>5, <1>6, <1>7, <1>8, <1>9, <1>10, <1>11 DEF Next
-----------------------------------------------------------------------------
(* What counts: each message is in one place, and totalPendingMessages_ is *)
(* the number of parked messages.                                          *)
INSTANCE FiniteSetTheorems

LEMMA CountIn ==
  ASSUME NEW q \in Seq(Message), Once(q), NEW m \in Msg
  PROVE  Occurrences(m, q) = IF In(m, q) THEN 1 ELSE 0
  <1> DEFINE P == {i \in DOMAIN q : q[i] = m}
  <1>1. CASE In(m, q)
    <2>1. PICK k \in 1..Len(q) : q[k] = m
      BY Zenon, <1>1 DEF In
    <2>2. \A i \in 1..Len(q) : q[i] = m => i = k
      BY Zenon, <2>1 DEF Once
    <2>3. P = {k}
      BY <2>1, <2>2
    <2>4. QED
      BY Zenon, <1>1, <2>3, FS_Singleton DEF Occurrences
  <1>2. CASE ~In(m, q)
    <2>1. P = {}
      BY <1>2 DEF In
    <2>2. QED
      BY Zenon, <1>2, <2>1, FS_EmptySet DEF Occurrences
  <1>3. QED
    BY Zenon, <1>1, <1>2

LEMMA CountOf ==
  ASSUME NEW S, NEW m
  PROVE  Cardinality({m} \cap S) = IF m \in S THEN 1 ELSE 0
  <1>1. CASE m \in S
    <2>1. {m} \cap S = {m}
      BY Zenon, <1>1
    <2>2. QED
      BY Zenon, <1>1, <2>1, FS_Singleton
  <1>2. CASE m \notin S
    <2>1. {m} \cap S = {}
      BY Zenon, <1>2
    <2>2. QED
      BY Zenon, <1>2, <2>1, FS_EmptySet
  <1>3. QED
    BY Zenon, <1>1, <1>2

(* No message is lost or gets two verdicts, however often it is parked and *)
(* replayed: every one that arrived is queued, parked, verified or         *)
(* rejected, and only one of these.                                        *)
THEOREM MessagesOnce == Spec => []EachMessageOnce
  <1>1. Inv /\ OnceInv => EachMessageOnce
    <2> SUFFICES ASSUME Inv, OnceInv, NEW m \in Msg
                 PROVE  Occurrences(m, checkQueue) + Occurrences(m, identityQueue)
                          + Occurrences(m, parked[SignerOf[m]])
                          + Cardinality({m} \cap verified) + Cardinality({m} \cap failed)
                        = Cardinality({m} \cap arrived)
      BY Zenon DEF EachMessageOnce
    <2>1. /\ checkQueue \in Seq(Message) /\ identityQueue \in Seq(Message)
          /\ parked[SignerOf[m]] \in Seq(Message)
          /\ Once(checkQueue) /\ Once(identityQueue) /\ Once(parked[SignerOf[m]])
      BY Zenon, MsgFrom DEF Inv, Typed, OnceInv
    <2>2. /\ Occurrences(m, checkQueue) = IF In(m, checkQueue) THEN 1 ELSE 0
          /\ Occurrences(m, identityQueue) = IF In(m, identityQueue) THEN 1 ELSE 0
          /\ Occurrences(m, parked[SignerOf[m]])
               = IF In(m, parked[SignerOf[m]]) THEN 1 ELSE 0
      BY Zenon, <2>1, CountIn
    <2>3. /\ Cardinality({m} \cap verified) = IF m \in verified THEN 1 ELSE 0
          /\ Cardinality({m} \cap failed) = IF m \in failed THEN 1 ELSE 0
          /\ Cardinality({m} \cap arrived) = IF m \in arrived THEN 1 ELSE 0
      BY Zenon, CountOf
    <2>4. Located(m)
      BY Zenon DEF OnceInv
    <2>5. QED
      BY <2>2, <2>3, <2>4 DEF Located
  <1>2. QED
    BY <1>1, InvInit, InvNext, OnceInit, OnceNext, PTL DEF Spec
-----------------------------------------------------------------------------
Limits ==
  /\ MaxPending # 0 => total <= MaxPending
  /\ MaxPerSigner # 0 => \A s \in Signer : Len(parked[s]) <= MaxPerSigner

(* The places of one signer.                                               *)
Share(s, n) == {s} \X (1..n)

LEMMA PlacesAreShares ==
  ASSUME parked \in [Signer -> Seq(Message)]
  PROVE  \A x : x \in Places <=> \E s \in Signer : x \in Share(s, Len(parked[s]))
  <1>1. \A s \in Signer : DOMAIN parked[s] = 1..Len(parked[s])
    OBVIOUS
  <1>2. QED
    BY Zenon, <1>1 DEF Places, Share

LEMMA ShareGrows ==
  ASSUME NEW s, NEW n \in Nat
  PROVE  Share(s, n + 1) = Share(s, n) \cup {<<s, n + 1>>} /\ <<s, n + 1>> \notin Share(s, n)
  <1>1. 1..n+1 = 1..n \cup {n + 1} /\ n + 1 \notin 1..n
    OBVIOUS
  <1>2. QED
    BY <1>1 DEF Share

LEMMA SharesApart ==
  ASSUME NEW s, NEW t, s # t, NEW n, NEW k, NEW x \in Share(s, n)
  PROVE  x \notin Share(t, k)
  BY Zenon DEF Share

(* The places of one signer are as many as its parked messages.            *)
LEMMA SharePlaces ==
  ASSUME NEW s, NEW n \in Nat
  PROVE  IsFiniteSet(Share(s, n)) /\ Cardinality(Share(s, n)) = n
  <1> DEFINE f == [i \in 1..n |-> <<s, i>>]
             T == Share(s, n)
  <1>1. f \in Bijection(1..n, T)
    <2>1. f \in [1..n -> T] /\ \A i \in 1..n : f[i] = <<s, i>>
      BY Zenon DEF Share
    <2>2. \A a, b \in 1..n : f[a] = f[b] => a = b
      BY Zenon, <2>1
    <2>3. \A t \in T : \E i \in 1..n : f[i] = t
      BY DEF Share
    <2> HIDE DEF f, T
    <2>4. QED
      BY Zenon, <2>1, <2>2, <2>3 DEF Bijection, Injection, Surjection, IsInjective
  <1>2. ExistsBijection(1..n, T)
    BY Zenon, <1>1 DEF ExistsBijection
  <1>3. IsFiniteSet(T)
    BY Zenon, <1>2, FS_NatBijection
  <1>4. QED
    BY Zenon, <1>2, <1>3, FS_CountingElements
(* The part of the types that the other invariants do not have.            *)
Rest ==
  /\ late \subseteq Signer /\ challenged \subseteq Signer
  /\ answers \in 0..MaxAnswers
  /\ arrived \subseteq Msg /\ verified \subseteq Message /\ failed \subseteq Message
  /\ phase \in Phases

LEMMA RestNext ==
  ASSUME Inv, Rest, [Next]_vars
  PROVE  Rest'
  <1> USE DEF Rest, resolverVars
  <1>1. ASSUME NEW c \in CacheSizes, SetMaximumEntries(c) PROVE Rest'
    BY Zenon, <1>1 DEF SetMaximumEntries
  <1>2. ASSUME NEW s \in Signer, ObserveIdentity(s) PROVE Rest'
    BY Zenon, <1>2 DEF ObserveIdentity
  <1>3. ASSUME NEW s \in Signer, Answer(s) PROVE Rest'
    BY <1>3, SizeAssumption DEF Answer
  <1>4. ASSUME NEW m \in Msg, Receive(m) PROVE Rest'
    BY Zenon, <1>4 DEF Receive
  <1>5. CASE CheckSignature \/ RejectSignature
    <2>1. Head(checkQueue) \in Message
      BY <1>5 DEF Inv, Typed, CheckSignature, VerificationKeyForNodeId, RejectSignature, SendSignatureFailure
    <2>2. QED
      BY Zenon, <1>5, <2>1 DEF CheckSignature, VerificationKeyForNodeId, RejectSignature, SendSignatureFailure
  <1>6. CASE Park
    <2>1. Head(identityQueue) \in Message
      BY <1>6 DEF Inv, Typed, Park, SendSignatureFailure
    <2>2. QED
      BY Zenon, <1>6, <2>1 DEF Park, SendSignatureFailure
  <1>7. ASSUME NEW s \in Signer, ResolverStep(s) PROVE Rest'
    <2>1. CASE LookUp(s) \/ WaitForIdentity(s) \/ ReplayMessages(s)
      BY Zenon, <2>1 DEF LookUp, WaitForIdentity, ReplayMessages, Others
    <2>2. CASE \E sent \in BOOLEAN : RequestIdentity(s, sent)
      BY Zenon, <2>2 DEF RequestIdentity, Others
    <2>3. CASE FailMessages(s)
      <3>1. Range(parked[s]) \subseteq Message
        BY DEF Inv, Typed, Range
      <3>2. QED
        BY Zenon, <2>3, <3>1 DEF FailMessages, SendSignatureFailure
    <2>4. QED
      BY Zenon, <1>7, <2>1, <2>2, <2>3 DEF ResolverStep
  <1>8. ASSUME NEW s \in Signer, DeadlinePasses(s) PROVE Rest'
    BY Zenon, <1>8 DEF DeadlinePasses, Others
  <1>9. CASE StopCheckQueue \/ StopIdentityQueue \/ SetStopping \/ JoinResolvers
    BY Zenon, <1>9 DEF StopCheckQueue, StopIdentityQueue, SetStopping, JoinResolvers, Advance, Phases
  <1>10. CASE UNCHANGED vars
    BY Zenon, <1>10 DEF vars
  <1>11. QED
    BY Zenon, <1>1, <1>2, <1>3, <1>4, <1>5, <1>6, <1>7, <1>8, <1>9, <1>10 DEF Next

LEMMA TypesFrom ==
  Inv /\ Rest /\ total \in Nat => TypeOK
  <1>1. Lists(usageOrder, entries) => usageOrder \in Seq(Signer) /\ entries \subseteq Signer
    <2> SUFFICES ASSUME Lists(usageOrder, entries), NEW s \in entries PROVE s \in Signer
      BY Zenon DEF Lists
    <2>1. PICK i \in 1..Len(usageOrder) : usageOrder[i] = s
      BY Zenon DEF Lists
    <2>2. QED
      BY <2>1 DEF Lists
  <1>2. QED
    BY Zenon, <1>1 DEF Inv, Typed, Cached, Rest, TypeOK

Counted == IsFiniteSet(Places) /\ total = Cardinality(Places) /\ total \in Nat /\ Limits

(* A message is parked: one more place, unless a limit is reached.         *)
LEMMA ParkCounts ==
  ASSUME Inv, Inv', Counted, Park
  PROVE  Counted'
  <1> DEFINE h == Head(identityQueue)
             s == From(h)
  <1>1. s \in Signer
    BY SignerTyped DEF Inv, Typed, Park, SendSignatureFailure
  <1>2. \/ /\ Accepts(s) /\ total' = total + 1
           /\ parked' = [parked EXCEPT ![s] = Append(parked[s], h)]
        \/ UNCHANGED <<parked, total>>
    BY Zenon DEF Park, SendSignatureFailure, resolverVars
  <1> HIDE DEF h, s
  <1>3. CASE UNCHANGED <<parked, total>>
    <2>1. Places' = Places
      BY Zenon, <1>3 DEF Places
    <2>2. QED
      BY Zenon, <1>3, <2>1 DEF Counted, Limits
  <1>4. CASE /\ Accepts(s) /\ total' = total + 1
             /\ parked' = [parked EXCEPT ![s] = Append(parked[s], h)]
    <2> DEFINE n == Len(parked[s])
               new == <<s, n + 1>>
    <2>1. parked \in [Signer -> Seq(Message)] /\ parked' \in [Signer -> Seq(Message)]
      BY Zenon DEF Inv, Typed
    <2>2. n \in Nat
      BY <1>1, <2>1
    <2>3. \A t \in Signer : Len(parked'[t]) = IF t = s THEN n + 1 ELSE Len(parked[t])
      BY <1>1, <1>4, <2>1
    <2> HIDE DEF n
    <2>4. /\ \A x : x \in Places <=> \E t \in Signer : x \in Share(t, Len(parked[t]))
          /\ \A x : x \in Places' <=> \E t \in Signer : x \in Share(t, Len(parked'[t]))
      <3>1. \A t \in Signer : DOMAIN parked'[t] = 1..Len(parked'[t])
        BY <2>1
      <3>2. \A x : x \in Places' <=> \E t \in Signer : x \in Share(t, Len(parked'[t]))
        BY Zenon, <3>1 DEF Places, Share
      <3>3. QED
        BY Zenon, <2>1, <3>2, PlacesAreShares
    <2>5. /\ Share(s, n + 1) = Share(s, n) \cup {new}
          /\ new \in Share(s, n + 1) /\ new \notin Share(s, n)
      BY <2>2, ShareGrows
    <2>s. /\ Len(parked[s]) = n /\ Len(parked'[s]) = n + 1
          /\ \A t \in Signer : t # s => Len(parked'[t]) = Len(parked[t])
      BY Zenon, <1>1, <2>3 DEF n
    <2> HIDE DEF new
    <2>6. Places' = Places \cup {new} /\ new \notin Places
      <3>1. ASSUME NEW x PROVE x \in Places' <=> x \in Places \cup {new}
        BY Zenon, <1>1, <2>4, <2>5, <2>s
      <3>2. new \notin Places
        <4> SUFFICES ASSUME NEW t \in Signer, new \in Share(t, Len(parked[t])) PROVE FALSE
          BY Zenon, <2>4
        <4>1. CASE t = s
          BY Zenon, <4>1, <2>5, <2>s
        <4>2. CASE t # s
          BY Zenon, <4>2, <2>5, SharesApart
        <4>3. QED
          BY Zenon, <4>1, <4>2
      <3>3. QED
        BY Zenon, <3>1, <3>2
    <2>7. IsFiniteSet(Places') /\ Cardinality(Places') = Cardinality(Places) + 1
      BY Zenon, <2>6, FS_AddElement DEF Counted
    <2>8. Limits'
      BY <1>1, <1>4, <2>2, <2>3, SizeAssumption DEF Limits, Accepts, Counted, n
    <2>9. QED
      BY <1>4, <2>7, <2>8 DEF Counted
  <1>5. QED
    BY Zenon, <1>2, <1>3, <1>4
(* A signer is drained: its share goes.                                    *)
LEMMA DrainCounts ==
  ASSUME Inv, Inv', Counted, NEW s \in Signer, Drain(s)
  PROVE  Counted'
  <1> DEFINE n == Len(parked[s])
             D == Share(s, n)
  <1>1. parked \in [Signer -> Seq(Message)] /\ parked' \in [Signer -> Seq(Message)]
    BY Zenon DEF Inv, Typed
  <1>2. n \in Nat /\ total' = total - n
    BY <1>1 DEF Drain
  <1>3. \A t \in Signer : Len(parked'[t]) = IF t = s THEN 0 ELSE Len(parked[t])
    BY Zenon, <1>1 DEF Drain
  <1>s. /\ Len(parked[s]) = n /\ Share(s, Len(parked'[s])) = {}
        /\ \A t \in Signer : t # s => Len(parked'[t]) = Len(parked[t])
    <2>1. 1..0 = {}
      OBVIOUS
    <2>2. Len(parked'[s]) = 0
      BY Zenon, <1>3
    <2>3. Share(s, Len(parked'[s])) = {}
      BY Zenon, <2>1, <2>2 DEF Share
    <2>4. QED
      BY Zenon, <1>3, <2>3
  <1>f. IsFiniteSet(D) /\ Cardinality(D) = n
    BY Zenon, <1>2, SharePlaces
  <1> HIDE DEF n
  <1>4. /\ \A x : x \in Places <=> \E t \in Signer : x \in Share(t, Len(parked[t]))
        /\ \A x : x \in Places' <=> \E t \in Signer : x \in Share(t, Len(parked'[t]))
    <2>1. \A t \in Signer : DOMAIN parked'[t] = 1..Len(parked'[t])
      BY <1>1
    <2>2. \A x : x \in Places' <=> \E t \in Signer : x \in Share(t, Len(parked'[t]))
      BY Zenon, <2>1 DEF Places, Share
    <2>3. QED
      BY Zenon, <1>1, <2>2, PlacesAreShares
  <1> DEFINE P == Places
             Q == Places'
  <1>5. P = Q \cup D /\ Q \cap D = {} /\ Q \in SUBSET P
    <2>1. ASSUME NEW x \in Q PROVE x \in P /\ x \notin D
      <3>1. PICK t \in Signer : x \in Share(t, Len(parked'[t]))
        BY Zenon, <1>4
      <3>2. t # s
        BY Zenon, <1>s, <3>1
      <3>3. x \in Share(t, Len(parked[t])) /\ x \notin D
        BY Zenon, <1>s, <3>1, <3>2, SharesApart
      <3>4. QED
        BY Zenon, <1>4, <3>3
    <2>2. ASSUME NEW x \in P, x \notin D PROVE x \in Q
      <3>1. PICK t \in Signer : x \in Share(t, Len(parked[t]))
        BY Zenon, <1>4
      <3>2. t # s
        BY Zenon, <1>s, <2>2, <3>1
      <3>3. QED
        BY Zenon, <1>s, <1>4, <3>1, <3>2
    <2>3. D \subseteq P
      BY Zenon, <1>s, <1>4
    <2> HIDE DEF P, Q, D
    <2>4. QED
      BY Zenon, <2>1, <2>2, <2>3
  <1>6. IsFiniteSet(P) /\ total = Cardinality(P) /\ total \in Nat /\ Limits
    BY Zenon DEF Counted
  <1> HIDE DEF P, Q, D
  <1>7. IsFiniteSet(Q)
    BY Zenon, <1>5, <1>6, FS_Subset
  <1>8. Cardinality(P) = Cardinality(Q) + Cardinality(D) - Cardinality({})
    BY Zenon, <1>5, <1>7, <1>f, FS_Union
  <1>9. total' = Cardinality(Q) /\ total' \in Nat
    <2>1. Cardinality(Q) \in Nat /\ Cardinality({}) = 0
      BY Zenon, <1>7, FS_CardinalityType, FS_EmptySet
    <2>2. QED
      BY <2>1, <1>2, <1>6, <1>8, <1>f
  <1>10. Limits'
    BY <1>2, <1>3, <1>6, SizeAssumption DEF Limits
  <1>11. QED
    BY Zenon, <1>7, <1>9, <1>10 DEF Counted, Q

LEMMA CountedNext ==
  ASSUME Inv, Inv', Counted, [Next]_vars
  PROVE  Counted'
  <1>k. ASSUME UNCHANGED <<parked, total>> PROVE Counted'
    BY Zenon, <1>k DEF Counted, Places, Limits
  <1>1. ASSUME NEW c \in CacheSizes, SetMaximumEntries(c) PROVE Counted'
    BY Zenon, <1>1, <1>k DEF SetMaximumEntries, resolverVars
  <1>2. ASSUME NEW s \in Signer, ObserveIdentity(s) PROVE Counted'
    BY Zenon, <1>2, <1>k DEF ObserveIdentity, resolverVars
  <1>3. ASSUME NEW s \in Signer, Answer(s) PROVE Counted'
    BY Zenon, <1>3, <1>k DEF Answer, resolverVars
  <1>4. ASSUME NEW m \in Msg, Receive(m) PROVE Counted'
    BY Zenon, <1>4, <1>k DEF Receive, resolverVars
  <1>5. CASE CheckSignature \/ RejectSignature
    BY Zenon, <1>5, <1>k DEF CheckSignature, VerificationKeyForNodeId, RejectSignature, SendSignatureFailure, resolverVars
  <1>6. CASE Park
    BY Zenon, <1>6, ParkCounts
  <1>7. ASSUME NEW s \in Signer, ResolverStep(s) PROVE Counted'
    <2>1. CASE LookUp(s) \/ WaitForIdentity(s)
               \/ \E sent \in BOOLEAN : RequestIdentity(s, sent)
      BY Zenon, <2>1, <1>k DEF LookUp, WaitForIdentity, RequestIdentity
    <2>2. CASE ReplayMessages(s) \/ FailMessages(s)
      BY Zenon, <2>2, DrainCounts DEF ReplayMessages, FailMessages, SendSignatureFailure
    <2>3. QED
      BY Zenon, <1>7, <2>1, <2>2 DEF ResolverStep
  <1>8. ASSUME NEW s \in Signer, DeadlinePasses(s) PROVE Counted'
    BY Zenon, <1>8, <1>k DEF DeadlinePasses
  <1>9. CASE StopCheckQueue \/ StopIdentityQueue \/ SetStopping \/ JoinResolvers
    BY Zenon, <1>9, <1>k DEF StopCheckQueue, StopIdentityQueue, SetStopping, JoinResolvers,
                      Advance, resolverVars
  <1>10. CASE UNCHANGED vars
    BY Zenon, <1>10, <1>k DEF vars, resolverVars
  <1>11. QED
    BY ZenonT(30), <1>1, <1>2, <1>3, <1>4, <1>5, <1>6, <1>7, <1>8, <1>9, <1>10 DEF Next

(* totalPendingMessages_ is the number of parked messages, and neither it  *)
(* nor a signer's share exceeds its limit: parkMessage and                 *)
(* drainSignerMessagesLocked keep the count for any signers and limits.    *)
THEOREM PendingCount == Spec => []PendingAccounted
  <1>1. Init => Rest /\ Counted
    <2> SUFFICES ASSUME Init PROVE Rest /\ Counted
      BY Zenon
    <2>1. Rest
      BY SizeAssumption DEF Init, Rest, Phases
    <2>2. \A s \in Signer : parked[s] = <<>>
      BY Zenon DEF Init
    <2>3. Places = {}
      BY <2>2 DEF Places
    <2>4. Limits /\ total = 0
      BY <2>2, SizeAssumption DEF Init, Limits
    <2>5. QED
      BY Zenon, <2>1, <2>3, <2>4, FS_EmptySet DEF Counted
  <1>2. Inv /\ Inv' /\ Rest /\ Counted /\ [Next]_vars => Rest' /\ Counted'
    BY Zenon, RestNext, CountedNext
  <1>3. Inv /\ Rest /\ Counted => PendingAccounted
    BY Zenon, TypesFrom DEF Counted, Limits, PendingAccounted
  <1>4. QED
    BY <1>1, <1>2, <1>3, InvInit, InvNext, PTL DEF Spec
=============================================================================
