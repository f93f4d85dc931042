-------------------------- MODULE BsdSocketsProofs --------------------------
(***************************************************************************)
(* The safety properties of BsdSockets, for any nodes, ids, connections,   *)
(* listeners and request flags.  Their inductive invariant says who may    *)
(* be at which stage of its set-up: which stages the input worker stands   *)
(* behind, which listener an accepted connection still belongs to, and     *)
(* what a table entry says of the state it leads to.                       *)
(***************************************************************************)
EXTENDS BsdSockets, TLAPS

(* The stages of a connection: it has an id from the request on that asks  *)
(* for it, the listener it came from does not go away under it, and the    *)
(* input worker waits for the set-up of a connection that AcceptTCP took.  *)
SetupInv ==
    \A c \in Conn :
      /\ conn[c].stage \in {"unused", "connecting"} => conn[c].by = "connect"
      /\ conn[c].stage \in {"unused", "arriving", "admitted", "queued"} => conn[c].id = None
      /\ conn[c].stage \in {"connecting", "registered", "replied", "ready"} => conn[c].id \in Id
      /\ conn[c].stage \in {"arriving", "admitted", "queued"} => conn[c].by \in Listener
      /\ (conn[c].stage \in SetupStages /\ conn[c].by \in Listener)
           => lsn[conn[c].by].stage \in {"listening", "listed", "undoing", "ready"}
      /\ (conn[c].stage \in {"registered", "replied"} /\ conn[c].by = "input")
           => worker = [op |-> "accept", obj |-> c]

(* The stages of a listener: the input worker is with it until the request *)
(* is answered, nothing is queued before it listens, and a listener that   *)
(* accepts is not being stopped.                                           *)
ListenInv ==
    \A l \in Listener :
      /\ lsn[l].stage \in {"opening", "listening", "listed", "undoing"}
           => worker = [op |-> "listen", obj |-> l]
      /\ lsn[l].stage \in {"unused", "opening", "listening", "listed"} => ~lsn[l].stopping
      /\ lsn[l].stage = "unused" => lsn[l].id = None
      /\ lsn[l].stage \in {"unused", "opening"} => accepted[l] = <<>>
      /\ lsn[l].stage # "unused" => lsn[l].id \in Id /\ lsn[l].mode \in ListenModes
      /\ lsn[l].accepting
           => lsn[l].stage \in {"listening", "listed", "ready"} /\ ~lsn[l].stopping
      /\ worker = [op |-> "joinListener", obj |-> l]
           => lsn[l].stage = "ready" /\ lsn[l].stopping

(* A table entry leads to a state with that id; one of a listener, only as *)
(* long as it is not stopped.                                              *)
TableInv ==
    /\ \A i \in Id : sockets[i] # None => conn[sockets[i]].id = i
    /\ \A i \in Id : listeners[i] # None =>
         /\ lsn[listeners[i]].id = i
         /\ lsn[listeners[i]].stage \in {"listed", "ready"}
         /\ ~lsn[listeners[i]].stopping
    /\ \A c \in Conn : worker = [op |-> "restore", obj |-> c] => conn[c].id \in Id

(* What a close has stopped when it is confirmed: a listener for good; a   *)
(* read thread that may start later sees stopping before it receives.      *)
CloseInv ==
    /\ \A c \in Conn : worker = [op |-> "joinSocket", obj |-> c] => conn[c].stopping
    /\ \A c \in Conn : c \in acked =>
         conn[c].stopping /\ reader[c] \in {"none", "loop", "finished", "joined"}
    /\ \A l \in Listener : l \in acked => lsn[l].stage = "gone"

(* AcceptedNotStranded without the types.                                  *)
QueueInv ==
    /\ \A l \in Listener : \A k \in DOMAIN accepted[l] :
         /\ conn[accepted[l][k]].stage = "queued"
         /\ conn[accepted[l][k]].by = l
         /\ \A j \in DOMAIN accepted[l] : accepted[l][j] = accepted[l][k] => j = k
    /\ \A c \in Conn : conn[c].stage = "queued" =>
         \E k \in DOMAIN accepted[conn[c].by] : accepted[conn[c].by][k] = c
    /\ \A l \in Listener : lsn[l].stage = "gone" => accepted[l] = <<>>

IndInv ==
    /\ TypeOK
    /\ QueueInv
    /\ SetupInv
    /\ ListenInv
    /\ TableInv
    /\ CloseInv
    /\ OwnerKeepsSocket
-----------------------------------------------------------------------------
USE DEF SetupStages, ReaderRuns

(* Replacing the state of one connection, or of one listener.              *)
LEMMA SocketTyped ==
    ASSUME TypeOK, NEW c \in Conn, NEW new \in SocketState,
           conn' = [conn EXCEPT ![c] = new]
    PROVE  conn' \in [Conn -> SocketState]
  BY Zenon DEF TypeOK

LEMMA ListenerTyped ==
    ASSUME TypeOK, NEW l \in Listener, NEW new \in ListenerState,
           lsn' = [lsn EXCEPT ![l] = new]
    PROVE  lsn' \in [Listener -> ListenerState]
  BY Zenon DEF TypeOK

(* The queues do not notice a change of a connection that waits in none.   *)
LEMMA QueueKept ==
    ASSUME TypeOK, QueueInv, NEW c \in Conn,
           conn[c].stage # "queued", conn'[c].stage # "queued",
           \A d \in Conn : d # c => conn'[d] = conn[d],
           UNCHANGED <<accepted, lsn>>
    PROVE  QueueInv'
<1>1. ASSUME NEW l \in Listener, NEW k \in DOMAIN accepted[l]
      PROVE  accepted[l][k] \in Conn /\ conn'[accepted[l][k]] = conn[accepted[l][k]]
  BY <1>1 DEF TypeOK, QueueInv
<1>2. ASSUME NEW d \in Conn, conn'[d].stage = "queued"
      PROVE  conn'[d] = conn[d]
  BY Zenon, <1>2
<1>3. QED
  BY SMTT(30), <1>1, <1>2 DEF QueueInv

(* A connection or listener that its owner can use, and where it is found. *)
Usable(c) == conn[c].stage \in {"registered", "replied", "ready"} /\ ~conn[c].stopping
Found(c) == sockets[conn[c].id] = c \/ worker = [op |-> "restore", obj |-> c]

UsableListener(l) == lsn[l].stage \in {"listed", "ready"} /\ ~lsn[l].stopping
FoundListener(l) == listeners[lsn[l].id] = l

(* An id, once given, stays.                                               *)
IdsStay ==
    /\ \A c \in Conn : conn[c].id # None => conn'[c].id = conn[c].id
    /\ \A l \in Listener : lsn[l].id # None => lsn'[l].id = lsn[l].id

(* Whoever is alone with its id after a step was so before.                *)
LEMMA OwnerNext ==
    ASSUME IndInv, IdsStay,
           \A c \in Conn : Usable(c)' /\ NobodyElseUses(conn[c].id, c)'
             => Found(c)' \/ (Usable(c) /\ (Found(c) => Found(c)')),
           \A l \in Listener : UsableListener(l)' /\ NobodyElseUses(lsn[l].id, l)'
             => \/ FoundListener(l)'
                \/ UsableListener(l) /\ (FoundListener(l) => FoundListener(l)')
    PROVE  OwnerKeepsSocket'
<1>1. ASSUME NEW c \in Conn, Usable(c), NobodyElseUses(conn[c].id, c)'
      PROVE  NobodyElseUses(conn[c].id, c)
  BY <1>1, NoneAssumption DEF Usable, IndInv, SetupInv, IdsStay, NobodyElseUses
<1>2. ASSUME NEW l \in Listener, UsableListener(l), NobodyElseUses(lsn[l].id, l)'
      PROVE  NobodyElseUses(lsn[l].id, l)
  BY <1>2, NoneAssumption DEF UsableListener, IndInv, ListenInv, IdsStay, NobodyElseUses
<1>3. QED
  BY Zenon, <1>1, <1>2 DEF OwnerKeepsSocket, Usable, Found, UsableListener, FoundListener, IndInv

(* An entry that emplace finds under an id which nobody else uses is the   *)
(* socket's own: registering and restoring keep what the owner relies on.  *)
LEMMA RegisterConnectedOwner ==
    ASSUME NEW c \in Conn, IndInv, RegisterConnected(c)
    PROVE  OwnerKeepsSocket'
<1> USE NoneAssumption
<1>1. IdsStay
  BY DEF IdsStay, IndInv, TypeOK, SetupInv, RegisterConnected
<1>2. ASSUME NEW x \in Conn, Usable(x)', NobodyElseUses(conn[x].id, x)'
      PROVE  Found(x)' \/ (Usable(x) /\ (Found(x) => Found(x)'))
  <2>1. conn[c].id \in Id /\ conn'[c].id = conn[c].id
    BY DEF IndInv, TypeOK, SetupInv, RegisterConnected
  <2>2. CASE x # c
    BY <1>2, <2>1, <2>2 DEF Usable, Found, IndInv, TypeOK, TableInv, RegisterConnected, Emplace
  <2>3. CASE x = c /\ sockets[conn[c].id] = None
    BY Zenon, <2>1, <2>3 DEF Found, IndInv, TypeOK, RegisterConnected, Emplace
  <2>4. CASE x = c /\ sockets[conn[c].id] # None
    <3>1. sockets[conn[c].id] \in Conn /\ conn[sockets[conn[c].id]].id = conn[c].id
      BY <2>1, <2>4 DEF IndInv, TypeOK, TableInv
    <3>2. conn'[sockets[conn[c].id]].id = conn'[c].id
      BY Zenon, <2>1, <3>1 DEF IndInv, TypeOK, RegisterConnected
    <3>3. sockets[conn[c].id] = c
      BY Zenon, <1>2, <2>4, <3>1, <3>2 DEF NobodyElseUses
    <3>4. QED
      BY Zenon, <2>1, <2>4, <3>3 DEF Found, RegisterConnected, Emplace
  <2>5. QED
    BY Zenon, <2>2, <2>3, <2>4
<1>3. ASSUME NEW x \in Listener, UsableListener(x)'
      PROVE  \/ FoundListener(x)'
             \/ UsableListener(x) /\ (FoundListener(x) => FoundListener(x)')
  BY Zenon, <1>3 DEF UsableListener, FoundListener, RegisterConnected
<1>4. QED
  BY Zenon, <1>1, <1>2, <1>3, OwnerNext

LEMMA RestoreOwner ==
    ASSUME NEW c \in Conn, IndInv, Restore(c)
    PROVE  OwnerKeepsSocket'
<1> USE NoneAssumption
<1>1. IdsStay
  BY Zenon DEF IdsStay, Restore
<1>2. ASSUME NEW x \in Conn, Usable(x)', NobodyElseUses(conn[x].id, x)'
      PROVE  Found(x)' \/ (Usable(x) /\ (Found(x) => Found(x)'))
  <2>1. conn[c].id \in Id
    BY Zenon DEF IndInv, TableInv, Restore
  <2>2. CASE x # c
    BY <1>2, <2>1, <2>2 DEF Usable, Found, IndInv, TypeOK, TableInv, Restore, Emplace
  <2>3. CASE x = c /\ sockets[conn[c].id] = None
    BY Zenon, <2>1, <2>3 DEF Found, IndInv, TypeOK, Restore, Emplace
  <2>4. CASE x = c /\ sockets[conn[c].id] # None
    <3>1. sockets[conn[c].id] \in Conn /\ conn[sockets[conn[c].id]].id = conn[c].id
      BY <2>1, <2>4 DEF IndInv, TypeOK, TableInv
    <3>2. sockets[conn[c].id] = c
      BY Zenon, <1>2, <2>4, <3>1 DEF NobodyElseUses, Restore
    <3>3. QED
      BY Zenon, <2>1, <2>4, <3>2 DEF Found, Restore, Emplace
  <2>5. QED
    BY Zenon, <2>2, <2>3, <2>4
<1>3. ASSUME NEW x \in Listener, UsableListener(x)'
      PROVE  \/ FoundListener(x)'
             \/ UsableListener(x) /\ (FoundListener(x) => FoundListener(x)')
  BY Zenon, <1>3 DEF UsableListener, FoundListener, Restore
<1>4. QED
  BY Zenon, <1>1, <1>2, <1>3, OwnerNext

LEMMA RegisterListenerOwner ==
    ASSUME NEW l \in Listener, IndInv, RegisterListener(l)
    PROVE  OwnerKeepsSocket'
<1> USE NoneAssumption
<1>1. IdsStay
  BY DEF IdsStay, IndInv, TypeOK, RegisterListener
<1>2. ASSUME NEW x \in Conn, Usable(x)'
      PROVE  Found(x)' \/ (Usable(x) /\ (Found(x) => Found(x)'))
  BY Zenon, <1>2 DEF Usable, Found, RegisterListener
<1>3. ASSUME NEW x \in Listener, UsableListener(x)', NobodyElseUses(lsn[x].id, x)'
      PROVE  \/ FoundListener(x)'
             \/ UsableListener(x) /\ (FoundListener(x) => FoundListener(x)')
  <2>1. lsn[l].id \in Id /\ lsn'[l].id = lsn[l].id
    BY DEF IndInv, TypeOK, ListenInv, RegisterListener
  <2>2. CASE x # l
    BY <1>3, <2>1, <2>2
    DEF UsableListener, FoundListener, IndInv, TypeOK, TableInv, RegisterListener, Emplace
  <2>3. CASE x = l /\ listeners[lsn[l].id] = None
    BY Zenon, <2>1, <2>3 DEF FoundListener, IndInv, TypeOK, RegisterListener, Emplace
  <2>4. CASE x = l /\ listeners[lsn[l].id] # None
    <3>1. listeners[lsn[l].id] \in Listener /\ lsn[listeners[lsn[l].id]].id = lsn[l].id
      BY <2>1, <2>4 DEF IndInv, TypeOK, TableInv
    <3>2. lsn'[listeners[lsn[l].id]].id = lsn'[l].id
      BY Zenon, <2>1, <3>1 DEF IndInv, TypeOK, RegisterListener
    <3>3. listeners[lsn[l].id] = l
      BY Zenon, <1>3, <2>4, <3>1, <3>2 DEF NobodyElseUses
    <3>4. QED
      BY Zenon, <2>1, <2>4, <3>3 DEF FoundListener, RegisterListener, Emplace
  <2>5. QED
    BY Zenon, <2>2, <2>3, <2>4
<1>4. QED
  BY Zenon, <1>1, <1>2, <1>3, OwnerNext

(* Taking the first connection out of a queue.                             *)
LEMMA QueueLeft ==
    ASSUME TypeOK, QueueInv, NEW l \in Listener, accepted[l] # <<>>,
           accepted' = [accepted EXCEPT ![l] = Tail(@)],
           conn'[Head(accepted[l])].stage # "queued",
           \A d \in Conn : d # Head(accepted[l]) => conn'[d] = conn[d],
           UNCHANGED lsn
    PROVE  QueueInv'
<1> DEFINE q == accepted[l]
<1>1. /\ q \in Seq(Conn) /\ Len(q) \in Nat \ {0} /\ 1 \in DOMAIN q /\ q[1] = Head(q)
      /\ Len(Tail(q)) = Len(q) - 1 /\ Tail(q) \in Seq(Conn)
      /\ \A k \in 1 .. Len(q) - 1 : Tail(q)[k] = q[k + 1]
  BY DEF TypeOK
<1>2. DOMAIN q = 1 .. Len(q) /\ DOMAIN Tail(q) = 1 .. Len(q) - 1
  BY <1>1
<1>3. accepted'[l] = Tail(q) /\ \A m \in Listener : m # l => accepted'[m] = accepted[m]
  BY Zenon DEF TypeOK
<1>4. ASSUME NEW m \in Listener, NEW k \in DOMAIN accepted'[m]
      PROVE  /\ conn'[accepted'[m][k]].stage = "queued" /\ conn'[accepted'[m][k]].by = m
             /\ \A j \in DOMAIN accepted'[m] : accepted'[m][j] = accepted'[m][k] => j = k
  <2>1. CASE m = l
    <3> HIDE DEF q
    <3>0. accepted'[m] = Tail(q) /\ DOMAIN accepted'[m] = 1 .. Len(q) - 1
      BY ZenonT(30), <1>2, <1>3, <2>1
    <3>1. k \in 1 .. Len(q) - 1 /\ k + 1 \in DOMAIN q /\ accepted'[m][k] = q[k + 1] /\ k + 1 # 1
      BY <1>1, <1>2, <3>0
    <3>2. q[k + 1] # Head(q) /\ q[k + 1] \in Conn
      BY <1>1, <1>2, <3>1 DEF QueueInv, q
    <3>3. conn'[q[k + 1]] = conn[q[k + 1]]
      BY Zenon, <3>2 DEF q
    <3>4. conn[q[k + 1]].stage = "queued" /\ conn[q[k + 1]].by = l
      BY Zenon, <3>1 DEF QueueInv, q
    <3>5. ASSUME NEW j \in DOMAIN accepted'[m], accepted'[m][j] = accepted'[m][k]
          PROVE  j = k
      <4>1. j \in 1 .. Len(q) - 1 /\ j + 1 \in DOMAIN q /\ q[j + 1] = q[k + 1]
        BY SMTT(30), <1>1, <1>2, <3>0, <3>1, <3>5
      <4>2. j + 1 = k + 1
        BY Zenon, <3>1, <4>1 DEF QueueInv, q
      <4>3. QED
        BY <3>1, <4>1, <4>2
    <3>6. QED
      BY Zenon, <2>1, <3>1, <3>3, <3>4, <3>5
  <2>2. CASE m # l
    <3>1. k \in DOMAIN accepted[m] /\ accepted'[m] = accepted[m] /\ accepted[m][k] \in Conn
      BY <1>3, <1>4, <2>2 DEF TypeOK
    <3>2. conn[accepted[m][k]].by = m /\ conn[Head(q)].by = l
      BY <1>1, <3>1 DEF QueueInv
    <3>3. conn'[accepted[m][k]] = conn[accepted[m][k]]
      BY Zenon, <2>2, <3>1, <3>2
    <3>4. /\ conn[accepted[m][k]].stage = "queued"
          /\ \A j \in DOMAIN accepted[m] : accepted[m][j] = accepted[m][k] => j = k
      BY Zenon, <3>1 DEF QueueInv
    <3>5. QED
      BY ZenonT(30), <3>1, <3>2, <3>3, <3>4
  <2>3. QED
    BY Zenon, <2>1, <2>2
<1>5. ASSUME NEW d \in Conn, conn'[d].stage = "queued"
      PROVE  \E k \in DOMAIN accepted'[conn'[d].by] : accepted'[conn'[d].by][k] = d
  <2>1. d # Head(q) /\ conn'[d] = conn[d]
    BY Zenon, <1>5
  <2>2. PICK k \in DOMAIN accepted[conn[d].by] : accepted[conn[d].by][k] = d
    BY Zenon, <1>5, <2>1 DEF QueueInv
  <2>3. CASE conn[d].by = l
    <3>1. k \in 1 .. Len(q) /\ k # 1 /\ q[k] = d
      BY Zenon, <1>1, <1>2, <2>1, <2>2, <2>3
    <3>2. k - 1 \in 1 .. Len(q) - 1 /\ (k - 1) + 1 = k
      BY <1>1, <3>1
    <3>3. Tail(q)[k - 1] = d
      BY Zenon, <1>1, <3>1, <3>2
    <3>4. QED
      BY <1>2, <1>3, <2>1, <2>3, <3>2, <3>3
  <2>4. CASE conn[d].by # l
    <3>1. accepted'[conn[d].by] = accepted[conn[d].by]
      BY <2>4 DEF TypeOK
    <3>2. QED
      BY ZenonT(30), <2>1, <2>2, <3>1
  <2>5. QED
    BY Zenon, <2>3, <2>4
<1>6. ASSUME NEW m \in Listener, lsn'[m].stage = "gone"
      PROVE  accepted'[m] = <<>>
  BY <1>3, <1>6 DEF QueueInv
<1>7. QED
  BY <1>4, <1>5, <1>6 DEF QueueInv

(* CloseAccepted touches exactly the connections that wait for l.          *)
LEMMA CloseAcceptedEffect ==
    ASSUME TypeOK, QueueInv, NEW l \in Listener, CloseAccepted(l)
    PROVE  /\ conn' \in [Conn -> SocketState]
           /\ accepted' \in [Listener -> Seq(Conn)]
           /\ accepted'[l] = <<>>
           /\ \A m \in Listener : m # l => accepted'[m] = accepted[m]
           /\ \A c \in Conn : conn'[c].id = conn[c].id /\ conn'[c].by = conn[c].by
           /\ \A c \in Conn : conn'[c].stopping = conn[c].stopping
           /\ \A c \in Conn : conn[c].stage # "queued" \/ conn[c].by # l => conn'[c] = conn[c]
           /\ \A c \in Conn : conn[c].stage = "queued" /\ conn[c].by = l => conn'[c].stage = "gone"
<1>1. ASSUME NEW c \in Conn
      PROVE  /\ [conn[c] EXCEPT !.stage = "gone", !.open = FALSE] \in SocketState
             /\ conn[c] \in SocketState
  <2>1. conn[c] \in SocketState
    BY Zenon DEF TypeOK
  <2>2. QED
    BY ZenonT(30), <2>1 DEF SocketState
<1>2. conn' \in [Conn -> SocketState]
  BY ZenonT(30), <1>1 DEF TypeOK, CloseAccepted
<1>3. /\ accepted' \in [Listener -> Seq(Conn)] /\ accepted'[l] = <<>>
      /\ \A m \in Listener : m # l => accepted'[m] = accepted[m]
  <2>1. accepted \in [Listener -> Seq(Conn)] /\ <<>> \in Seq(Conn)
    BY DEF TypeOK
  <2>2. accepted' = [accepted EXCEPT ![l] = <<>>]
    BY ZenonT(30) DEF CloseAccepted
  <2>3. QED
    BY Zenon, <2>1, <2>2
<1>4. ASSUME NEW c \in Conn
      PROVE  /\ conn'[c].id = conn[c].id /\ conn'[c].by = conn[c].by
             /\ conn'[c].stopping = conn[c].stopping
  BY ZenonT(30), <1>1 DEF CloseAccepted, SocketState
<1>5. ASSUME NEW c \in Conn, conn[c].stage # "queued" \/ conn[c].by # l
      PROVE  conn'[c] = conn[c]
  <2>1. ~\E k \in DOMAIN accepted[l] : accepted[l][k] = c
    BY <1>5 DEF QueueInv
  <2>2. QED
    BY ZenonT(30), <2>1 DEF CloseAccepted
<1>6. ASSUME NEW c \in Conn, conn[c].stage = "queued", conn[c].by = l
      PROVE  conn'[c].stage = "gone"
  <2>1. \E k \in DOMAIN accepted[l] : accepted[l][k] = c
    BY Zenon, <1>6 DEF QueueInv
  <2>2. QED
    BY ZenonT(30), <1>1, <2>1 DEF CloseAccepted, SocketState
<1>7. QED
  BY Zenon, <1>2, <1>3, <1>4, <1>5, <1>6

(* stopManagedListener, second half, whoever runs it.                      *)
LEMMA ListenerGone ==
    ASSUME NEW l \in Listener, IndInv, CloseAccepted(l), ~AcceptThreadBusy(l),
           \/ lsn[l].stage = "undoing"
           \/ lsn[l].stage = "ready" /\ lsn[l].stopping,
           worker \in {[op |-> "listen", obj |-> l], [op |-> "joinListener", obj |-> l]},
           lsn' = [lsn EXCEPT ![l] = [@ EXCEPT !.stage = "gone"]],
           worker' = Idle,
           acked' \in {acked, acked \cup {l}},
           UNCHANGED <<sockets, listeners, reader, used, pushed>>
    PROVE  IndInv'
<1> USE NoneAssumption
<1>1. TypeOK /\ QueueInv /\ SetupInv /\ ListenInv /\ TableInv /\ CloseInv
  BY Zenon DEF IndInv
<1>2. /\ conn' \in [Conn -> SocketState]
      /\ accepted' \in [Listener -> Seq(Conn)]
      /\ accepted'[l] = <<>>
      /\ \A m \in Listener : m # l => accepted'[m] = accepted[m]
  BY Zenon, <1>1, CloseAcceptedEffect
<1>3. /\ \A c \in Conn : conn'[c].id = conn[c].id /\ conn'[c].by = conn[c].by
      /\ \A c \in Conn : conn'[c].stopping = conn[c].stopping
      /\ \A c \in Conn : conn[c].stage # "queued" \/ conn[c].by # l => conn'[c] = conn[c]
      /\ \A c \in Conn : conn[c].stage = "queued" /\ conn[c].by = l => conn'[c].stage = "gone"
  BY Zenon, <1>1, CloseAcceptedEffect
<1>4. lsn[l] \in ListenerState /\ [lsn[l] EXCEPT !.stage = "gone"] \in ListenerState
  <2>1. lsn[l] \in ListenerState
    BY Zenon, <1>1 DEF TypeOK
  <2>2. QED
    BY Zenon, <2>1 DEF ListenerState
<1>5. lsn' \in [Listener -> ListenerState]
  BY ZenonT(30), <1>1, <1>4, ListenerTyped
<1>6. /\ lsn'[l].stage = "gone" /\ lsn'[l].id = lsn[l].id /\ lsn'[l].mode = lsn[l].mode
      /\ lsn'[l].accepting = lsn[l].accepting
      /\ \A m \in Listener : m # l => lsn'[m] = lsn[m]
  BY Zenon, <1>1, <1>4 DEF TypeOK, ListenerState

<1>7. TypeOK'
  BY ZenonT(30), <1>1, <1>2, <1>5 DEF TypeOK, Task, Idle
<1>8. QueueInv'
  <2>1. ASSUME NEW m \in Listener, NEW k \in DOMAIN accepted'[m]
        PROVE  /\ conn'[accepted'[m][k]].stage = "queued" /\ conn'[accepted'[m][k]].by = m
               /\ \A j \in DOMAIN accepted'[m] : accepted'[m][j] = accepted'[m][k] => j = k
    <3>1. m # l /\ accepted'[m] = accepted[m] /\ k \in DOMAIN accepted[m]
      BY <1>2, <2>1
    <3>2. accepted[m][k] \in Conn
      BY <1>1, <3>1 DEF TypeOK
    <3>3. /\ conn[accepted[m][k]].stage = "queued" /\ conn[accepted[m][k]].by = m
          /\ \A j \in DOMAIN accepted[m] : accepted[m][j] = accepted[m][k] => j = k
      BY <1>1, <3>1 DEF QueueInv
    <3>4. QED
      BY <1>3, <3>1, <3>2, <3>3
  <2>2. ASSUME NEW c \in Conn, conn'[c].stage = "queued"
        PROVE  \E k \in DOMAIN accepted'[conn'[c].by] : accepted'[conn'[c].by][k] = c
    <3>1. conn[c].stage = "queued" /\ conn[c].by # l /\ conn'[c] = conn[c]
      BY Zenon, <1>3, <2>2
    <3>2. conn[c].by \in Listener
      BY Zenon, <1>1, <3>1 DEF SetupInv
    <3>3. QED
      BY <1>1, <1>2, <3>1, <3>2 DEF QueueInv
  <2>3. ASSUME NEW m \in Listener, lsn'[m].stage = "gone"
        PROVE  accepted'[m] = <<>>
    <3>1. CASE m = l
      BY Zenon, <1>2, <3>1
    <3>2. CASE m # l
      <4>1. lsn[m].stage = "gone" /\ accepted'[m] = accepted[m]
        BY Zenon, <1>2, <1>6, <2>3, <3>2
      <4>2. QED
        BY Zenon, <1>1, <4>1 DEF QueueInv
    <3>3. QED
      BY Zenon, <3>1, <3>2
  <2>4. QED
    BY <2>1, <2>2, <2>3 DEF QueueInv
<1>9. SetupInv'
  <2>1. ASSUME NEW c \in Conn
        PROVE  \/ conn'[c] = conn[c]
               \/ conn'[c].stage = "gone"
    BY Zenon, <1>3
  <2>2. ASSUME NEW c \in Conn, conn[c].stage \in SetupStages
        PROVE  conn[c].by # l
    BY Zenon, <2>2 DEF AcceptThreadBusy
  <2>3. \A c \in Conn : worker # [op |-> "accept", obj |-> c]
    OBVIOUS
  <2>4. QED
    BY <1>1, <1>6, <2>1, <2>2, <2>3 DEF SetupInv
<1>10. ListenInv'
  <2>1. ASSUME NEW m \in Listener, m # l
        PROVE  lsn[m].stage \notin {"opening", "listening", "listed", "undoing"}
    BY <1>1, <2>1 DEF ListenInv
  <2>2. ~lsn[l].accepting /\ lsn[l].id \in Id /\ lsn[l].mode \in ListenModes
    BY Zenon, <1>1 DEF ListenInv
  <2>3. QED
    BY <1>1, <1>2, <1>6, <2>1, <2>2 DEF ListenInv, Idle
<1>11. TableInv'
  <2>1. \A i \in Id : listeners[i] # l
    BY <1>1 DEF TableInv
  <2>2. QED
    BY <1>1, <1>3, <1>6, <2>1 DEF TableInv, TypeOK, Idle
<1>12. CloseInv'
  BY <1>1, <1>3, <1>6 DEF CloseInv, Idle
<1>13. OwnerKeepsSocket'
  <2>1. IdsStay
    BY Zenon, <1>3, <1>6 DEF IdsStay
  <2>2. ASSUME NEW x \in Conn, Usable(x)'
        PROVE  Usable(x) /\ (Found(x) => Found(x)')
    BY <1>3, <2>2 DEF Usable, Found
  <2>3. ASSUME NEW x \in Listener, UsableListener(x)'
        PROVE  UsableListener(x) /\ (FoundListener(x) => FoundListener(x)')
    BY Zenon, <1>6, <2>3 DEF UsableListener, FoundListener
  <2>4. QED
    BY Zenon, <2>1, <2>2, <2>3, OwnerNext
<1>14. QED
  BY Zenon, <1>7, <1>8, <1>9, <1>10, <1>11, <1>12, <1>13 DEF IndInv

LEMMA ListenUndoneStep ==
    ASSUME NEW l \in Listener, IndInv, ListenUndone(l)
    PROVE  IndInv'
<1>1. worker = [op |-> "listen", obj |-> l]
  BY Zenon DEF IndInv, ListenInv, ListenUndone
<1>2. QED
  BY ZenonT(30), <1>1, ListenerGone DEF ListenUndone

LEMMA ListenerClosedStep ==
    ASSUME NEW l \in Listener, IndInv, ListenerClosed(l)
    PROVE  IndInv'
<1>1. lsn[l].stage = "ready" /\ lsn[l].stopping
  BY ZenonT(30) DEF IndInv, ListenInv, ListenerClosed
<1>2. QED
  BY ZenonT(30), <1>1, ListenerGone DEF ListenerClosed

(* The connection at the head of a queue.                                  *)
LEMMA HeadOfQueue ==
    ASSUME TypeOK, QueueInv, SetupInv, NEW l \in Listener, accepted[l] # <<>>
    PROVE  /\ Head(accepted[l]) \in Conn /\ Tail(accepted[l]) \in Seq(Conn)
           /\ conn[Head(accepted[l])].stage = "queued"
           /\ conn[Head(accepted[l])].by = l
           /\ conn[Head(accepted[l])].id = None
<1>1. accepted[l] \in Seq(Conn)
  BY Zenon DEF TypeOK
<1>2. 1 \in DOMAIN accepted[l] /\ accepted[l][1] = Head(accepted[l])
  BY <1>1
<1>3. Head(accepted[l]) \in Conn /\ Tail(accepted[l]) \in Seq(Conn)
  BY <1>1
<1>4. conn[Head(accepted[l])].stage = "queued" /\ conn[Head(accepted[l])].by = l
  BY <1>2 DEF QueueInv
<1>5. QED
  BY Zenon, <1>3, <1>4 DEF SetupInv

(* handleAcceptTCP when the id asked for is taken: the connection is closed. *)
LEMMA AcceptTCPRefused ==
    ASSUME NEW n \in Node, NEW l \in Listener, NEW i \in Id, NEW m \in SocketModes,
           IndInv, AcceptTCP(n, l, i, m), InUse(i)
    PROVE  IndInv'
<1> USE NoneAssumption
<1> DEFINE c == Head(accepted[l])
<1>1. TypeOK /\ QueueInv /\ SetupInv /\ ListenInv /\ TableInv /\ CloseInv
  BY Zenon DEF IndInv
<1>2. /\ c \in Conn /\ Tail(accepted[l]) \in Seq(Conn)
      /\ conn[c].stage = "queued" /\ conn[c].by = l /\ conn[c].id = None
  BY Zenon, <1>1, HeadOfQueue DEF AcceptTCP
<1>3. /\ conn' = [conn EXCEPT ![c] = [@ EXCEPT !.stage = "gone", !.open = FALSE]]
      /\ accepted' = [accepted EXCEPT ![l] = Tail(@)]
      /\ accepted[l] # <<>>
      /\ used' = used \cup {i}
      /\ UNCHANGED <<sockets, listeners, lsn, reader, worker, pushed, acked>>
  BY Zenon DEF AcceptTCP
<1>4. conn[c] \in SocketState
  BY Zenon, <1>1, <1>2 DEF TypeOK
<1> HIDE DEF c
<1>5. [conn[c] EXCEPT !.stage = "gone", !.open = FALSE] \in SocketState
  BY <1>4, ZenonT(40) DEF SocketState
<1>6. conn' \in [Conn -> SocketState]
  BY ZenonT(30), <1>1, <1>2, <1>3, <1>5, SocketTyped
<1>7. /\ conn'[c].stage = "gone" /\ conn'[c].id = None /\ conn'[c].stopping = conn[c].stopping
      /\ \A d \in Conn : d # c => conn'[d] = conn[d]
  BY <1>1, <1>2, <1>3, <1>4 DEF TypeOK, SocketState
<1>8. TypeOK'
  BY Zenon, <1>1, <1>2, <1>3, <1>6 DEF TypeOK
<1>9. QueueInv'
  BY ZenonT(30), <1>1, <1>3, <1>7, QueueLeft DEF c
<1>10. SetupInv'
  BY <1>1, <1>3, <1>7 DEF SetupInv
<1>11. ListenInv'
  <2>1. ASSUME NEW k \in Listener, accepted[k] = <<>>
        PROVE  accepted'[k] = <<>>
    BY Zenon, <1>1, <1>3, <2>1 DEF TypeOK
  <2>2. QED
    BY Zenon, <1>1, <1>3, <2>1 DEF ListenInv
<1>12. TableInv'
  BY <1>1, <1>2, <1>3, <1>7 DEF TableInv, TypeOK
<1>13. CloseInv'
  BY Zenon, <1>1, <1>3, <1>7 DEF CloseInv
<1>14. OwnerKeepsSocket'
  <2>1. IdsStay
    BY Zenon, <1>2, <1>3, <1>7 DEF IdsStay
  <2>2. ASSUME NEW x \in Conn, Usable(x)'
        PROVE  Usable(x) /\ (Found(x) => Found(x)')
    BY Zenon, <1>3, <1>7, <2>2 DEF Usable, Found
  <2>3. ASSUME NEW x \in Listener, UsableListener(x)'
        PROVE  UsableListener(x) /\ (FoundListener(x) => FoundListener(x)')
    BY Zenon, <1>3, <2>3 DEF UsableListener, FoundListener
  <2>4. QED
    BY Zenon, <2>1, <2>2, <2>3, OwnerNext
<1>15. QED
  BY Zenon, <1>8, <1>9, <1>10, <1>11, <1>12, <1>13, <1>14 DEF IndInv

(* handleAcceptTCP when the id asked for is free.                          *)
LEMMA AcceptTCPRegisters ==
    ASSUME NEW n \in Node, NEW l \in Listener, NEW i \in Id, NEW m \in SocketModes,
           IndInv, AcceptTCP(n, l, i, m), ~InUse(i)
    PROVE  IndInv'
<1> USE NoneAssumption
<1> DEFINE c == Head(accepted[l])
<1>1. TypeOK /\ QueueInv /\ SetupInv /\ ListenInv /\ TableInv /\ CloseInv
  BY Zenon DEF IndInv
<1>2. /\ c \in Conn /\ Tail(accepted[l]) \in Seq(Conn)
      /\ conn[c].stage = "queued" /\ conn[c].by = l /\ conn[c].id = None
  BY Zenon, <1>1, HeadOfQueue DEF AcceptTCP
<1>3. /\ conn' = [conn EXCEPT ![c] = [@ EXCEPT !.stage = "registered", !.id = i, !.owner = n,
                                                !.mode = m, !.by = "input"]]
      /\ accepted' = [accepted EXCEPT ![l] = Tail(@)]
      /\ accepted[l] # <<>>
      /\ sockets[i] = None /\ sockets' = [sockets EXCEPT ![i] = c]
      /\ worker = Idle /\ worker' = [op |-> "accept", obj |-> c]
      /\ used' = used \cup {i}
      /\ UNCHANGED <<listeners, lsn, reader, pushed, acked>>
  BY Zenon DEF AcceptTCP, InUse, Emplace
<1>4. conn[c] \in SocketState
  BY Zenon, <1>1, <1>2 DEF TypeOK
<1> HIDE DEF c
<1>5. [conn[c] EXCEPT !.stage = "registered", !.id = i, !.owner = n, !.mode = m,
                      !.by = "input"] \in SocketState
  BY ZenonT(30), <1>4, ModeAssumption DEF SocketState
<1>6. conn' \in [Conn -> SocketState]
  BY ZenonT(30), <1>1, <1>2, <1>3, <1>5, SocketTyped
<1>7. /\ conn'[c].stage = "registered" /\ conn'[c].id = i /\ conn'[c].by = "input"
      /\ conn'[c].stopping = conn[c].stopping
      /\ \A d \in Conn : d # c => conn'[d] = conn[d]
  BY ZenonT(30), <1>1, <1>2, <1>3, <1>4 DEF TypeOK, SocketState
<1>8. TypeOK'
  BY Zenon, <1>1, <1>2, <1>3, <1>6 DEF TypeOK, Task
<1>9. QueueInv'
  BY ZenonT(30), <1>1, <1>3, <1>7, QueueLeft DEF c
<1>10. SetupInv'
  <2>1. ASSUME NEW d \in Conn, conn[d].stage \in {"registered", "replied"}
        PROVE  conn[d].by # "input"
    BY ZenonT(30), <1>1, <1>3, <2>1 DEF SetupInv, Idle
  <2>2. "input" \notin Listener
    BY Zenon
  <2>3. QED
    BY <1>1, <1>3, <1>7, <2>1, <2>2 DEF SetupInv
<1>11. ListenInv'
  <2>1. ASSUME NEW k \in Listener, accepted[k] = <<>>
        PROVE  accepted'[k] = <<>>
    BY Zenon, <1>1, <1>3, <2>1 DEF TypeOK
  <2>2. QED
    BY Zenon, <1>1, <1>3, <2>1 DEF ListenInv, Idle
<1>12. TableInv'
  BY <1>1, <1>2, <1>3, <1>7 DEF TableInv, TypeOK
<1>13. CloseInv'
  BY Zenon, <1>1, <1>3, <1>7 DEF CloseInv
<1>14. OwnerKeepsSocket'
  <2>1. IdsStay
    BY Zenon, <1>2, <1>3, <1>7 DEF IdsStay
  <2>2. ASSUME NEW x \in Conn, Usable(x)'
        PROVE  Found(x)' \/ (Usable(x) /\ (Found(x) => Found(x)'))
    <3>1. CASE x = c
      BY <1>1, <1>2, <1>3, <1>7, <3>1 DEF Found, TypeOK
    <3>2. CASE x # c
      <4>1. conn'[x] = conn[x] /\ conn[x].id \in Id
        BY <1>1, <1>7, <2>2, <3>2 DEF Usable, SetupInv
      <4>2. QED
        BY Zenon, <1>1, <1>3, <2>2, <4>1 DEF Usable, Found, TypeOK, Idle
    <3>3. QED
      BY Zenon, <3>1, <3>2
  <2>3. ASSUME NEW x \in Listener, UsableListener(x)'
        PROVE  UsableListener(x) /\ (FoundListener(x) => FoundListener(x)')
    BY Zenon, <1>3, <2>3 DEF UsableListener, FoundListener
  <2>4. QED
    BY Zenon, <2>1, <2>2, <2>3, OwnerNext
<1>15. QED
  BY Zenon, <1>8, <1>9, <1>10, <1>11, <1>12, <1>13, <1>14 DEF IndInv

LEMMA AcceptTCPStep ==
    ASSUME NEW n \in Node, NEW l \in Listener, NEW i \in Id, NEW m \in SocketModes,
           IndInv, AcceptTCP(n, l, i, m)
    PROVE  IndInv'
  BY Zenon, AcceptTCPRefused, AcceptTCPRegisters

(* handleStreamClose of a socket that the sender may close.                *)
LEMMA CloseSocketAllowed ==
    ASSUME NEW n \in Node, NEW i \in Id, IndInv, CloseSocket(n, i), Allowed(n, conn[sockets[i]])
    PROVE  IndInv'
<1> USE NoneAssumption
<1> DEFINE c == sockets[i]
<1>1. TypeOK /\ QueueInv /\ SetupInv /\ ListenInv /\ TableInv /\ CloseInv
  BY Zenon DEF IndInv
<1>2. c \in Conn /\ conn[c].id = i /\ conn[c] \in SocketState
  BY <1>1 DEF CloseSocket, TypeOK, TableInv
<1>3. /\ conn' = [conn EXCEPT ![c] = [@ EXCEPT !.open = FALSE, !.stopping = TRUE]]
      /\ sockets' = [sockets EXCEPT ![i] = None]
      /\ worker = Idle /\ worker' = [op |-> "joinSocket", obj |-> c]
      /\ UNCHANGED <<listeners, lsn, accepted, reader, used, pushed, acked>>
  BY Zenon DEF CloseSocket, Erase, Stopped
<1> HIDE DEF c
<1>4. [conn[c] EXCEPT !.open = FALSE, !.stopping = TRUE] \in SocketState
  BY <1>2, ZenonT(40) DEF SocketState
<1>5. conn' \in [Conn -> SocketState]
  BY ZenonT(30), <1>1, <1>2, <1>3, <1>4, SocketTyped
<1>6. /\ conn'[c].stage = conn[c].stage /\ conn'[c].id = i /\ conn'[c].by = conn[c].by
      /\ conn'[c].stopping
      /\ \A d \in Conn : d # c => conn'[d] = conn[d]
  BY Zenon, <1>1, <1>2, <1>3 DEF TypeOK, SocketState
<1>7. TypeOK'
  BY Zenon, <1>1, <1>2, <1>3, <1>5 DEF TypeOK, Task
<1>8. QueueInv'
  <2>1. conn[c].stage # "queued"
    BY Zenon, <1>1, <1>2 DEF SetupInv
  <2>2. QED
    BY Zenon, <1>1, <1>2, <1>3, <1>6, <2>1, QueueKept
<1>9. SetupInv'
  <2>1. ASSUME NEW d \in Conn, conn[d].stage \in {"registered", "replied"}
        PROVE  conn[d].by # "input"
    BY ZenonT(30), <1>1, <1>3, <2>1 DEF SetupInv, Idle
  <2>2. ASSUME NEW d \in Conn
        PROVE  conn'[d].stage = conn[d].stage /\ conn'[d].id = conn[d].id /\ conn'[d].by = conn[d].by
    BY Zenon, <1>2, <1>6
  <2>3. QED
    BY <1>1, <1>3, <2>1, <2>2 DEF SetupInv
<1>10. ListenInv'
  BY Zenon, <1>1, <1>3 DEF ListenInv, Idle
<1>11. TableInv'
  BY <1>1, <1>2, <1>3, <1>6 DEF TableInv, TypeOK
<1>12. CloseInv'
  BY Zenon, <1>1, <1>3, <1>6 DEF CloseInv
<1>13. OwnerKeepsSocket'
  <2>1. IdsStay
    BY Zenon, <1>2, <1>3, <1>6 DEF IdsStay
  <2>2. ASSUME NEW x \in Conn, Usable(x)'
        PROVE  Usable(x) /\ (Found(x) => Found(x)')
    <3>1. x # c /\ conn'[x] = conn[x] /\ conn[x].id \in Id
      BY <1>1, <1>6, <2>2 DEF Usable, SetupInv
    <3>2. QED
      BY Zenon, <1>1, <1>3, <2>2, <3>1 DEF Usable, Found, TypeOK, Idle, c
  <2>3. ASSUME NEW x \in Listener, UsableListener(x)'
        PROVE  UsableListener(x) /\ (FoundListener(x) => FoundListener(x)')
    BY Zenon, <1>3, <2>3 DEF UsableListener, FoundListener
  <2>4. QED
    BY Zenon, <2>1, <2>2, <2>3, OwnerNext
<1>14. QED
  BY Zenon, <1>7, <1>8, <1>9, <1>10, <1>11, <1>12, <1>13 DEF IndInv

(* handleStreamClose of a socket that the sender may not close: the entry  *)
(* is taken out, to be put back.                                           *)
LEMMA CloseSocketRefused ==
    ASSUME NEW n \in Node, NEW i \in Id, IndInv, CloseSocket(n, i), ~Allowed(n, conn[sockets[i]])
    PROVE  IndInv'
<1> USE NoneAssumption
<1> DEFINE c == sockets[i]
<1>1. TypeOK /\ QueueInv /\ SetupInv /\ ListenInv /\ TableInv /\ CloseInv
  BY Zenon DEF IndInv
<1>2. c \in Conn /\ conn[c].id = i
  BY <1>1 DEF CloseSocket, TypeOK, TableInv
<1>3. /\ sockets' = [sockets EXCEPT ![i] = None]
      /\ worker = Idle /\ worker' = [op |-> "restore", obj |-> c]
      /\ UNCHANGED <<conn, listeners, lsn, accepted, reader, used, pushed, acked>>
  BY Zenon DEF CloseSocket, Erase
<1> HIDE DEF c
<1>4. TypeOK'
  BY Zenon, <1>1, <1>2, <1>3 DEF TypeOK, Task
<1>5. QueueInv'
  BY <1>1, <1>3 DEF QueueInv
<1>6. SetupInv'
  <2>1. ASSUME NEW d \in Conn, conn[d].stage \in {"registered", "replied"}
        PROVE  conn[d].by # "input"
    BY ZenonT(30), <1>1, <1>3, <2>1 DEF SetupInv, Idle
  <2>2. QED
    BY Zenon, <1>1, <1>3, <2>1 DEF SetupInv
<1>7. ListenInv'
  BY Zenon, <1>1, <1>3 DEF ListenInv, Idle
<1>8. TableInv'
  BY ZenonT(30), <1>1, <1>2, <1>3 DEF TableInv, TypeOK
<1>9. CloseInv'
  BY Zenon, <1>1, <1>3 DEF CloseInv
<1>10. OwnerKeepsSocket'
  <2>1. IdsStay
    BY Zenon, <1>3 DEF IdsStay
  <2>2. ASSUME NEW x \in Conn, Usable(x)'
        PROVE  Usable(x) /\ (Found(x) => Found(x)')
    <3>1. Usable(x) /\ conn'[x] = conn[x] /\ conn[x].id \in Id
      BY Zenon, <1>1, <1>3, <2>2 DEF Usable, SetupInv
    <3>2. QED
      BY Zenon, <1>1, <1>3, <3>1 DEF Found, TypeOK, Idle, c
  <2>3. ASSUME NEW x \in Listener, UsableListener(x)'
        PROVE  UsableListener(x) /\ (FoundListener(x) => FoundListener(x)')
    BY Zenon, <1>3, <2>3 DEF UsableListener, FoundListener
  <2>4. QED
    BY Zenon, <2>1, <2>2, <2>3, OwnerNext
<1>11. QED
  BY Zenon, <1>4, <1>5, <1>6, <1>7, <1>8, <1>9, <1>10 DEF IndInv

LEMMA CloseSocketStep ==
    ASSUME NEW n \in Node, NEW i \in Id, IndInv, CloseSocket(n, i)
    PROVE  IndInv'
  BY Zenon, CloseSocketAllowed, CloseSocketRefused

LEMMA CloseListenerStep ==
    ASSUME NEW n \in Node, NEW i \in Id, IndInv, CloseListener(n, i)
    PROVE  IndInv'
<1> USE NoneAssumption
<1> DEFINE l == listeners[i]
<1>1. TypeOK /\ QueueInv /\ SetupInv /\ ListenInv /\ TableInv /\ CloseInv
  BY Zenon DEF IndInv
<1>2. l \in Listener /\ lsn[l].id = i /\ lsn[l].stage \in {"listed", "ready"}
  BY <1>1 DEF CloseListener, TypeOK, TableInv
<1>3. /\ lsn' = [lsn EXCEPT ![l] = [@ EXCEPT !.accepting = FALSE, !.stopping = TRUE]]
      /\ listeners' = [listeners EXCEPT ![i] = None]
      /\ worker = Idle /\ worker' = [op |-> "joinListener", obj |-> l]
      /\ UNCHANGED <<sockets, conn, accepted, reader, used, pushed, acked>>
  BY Zenon DEF CloseListener, Erase, Silenced
<1> HIDE DEF l
<1>4. lsn[l] \in ListenerState
  BY Zenon, <1>1, <1>2 DEF TypeOK
<1>5. [lsn[l] EXCEPT !.accepting = FALSE, !.stopping = TRUE] \in ListenerState
  BY <1>4, ZenonT(40) DEF ListenerState
<1>6. lsn' \in [Listener -> ListenerState]
  BY ZenonT(30), <1>1, <1>2, <1>3, <1>5, ListenerTyped
<1>7. /\ lsn'[l].stage = lsn[l].stage /\ lsn'[l].id = i /\ lsn'[l].mode = lsn[l].mode
      /\ ~lsn'[l].accepting /\ lsn'[l].stopping
      /\ \A k \in Listener : k # l => lsn'[k] = lsn[k]
  BY Zenon, <1>1, <1>2, <1>3, <1>4 DEF TypeOK, ListenerState
<1>8. \A k \in Listener : lsn'[k].stage = lsn[k].stage /\ lsn'[k].id = lsn[k].id
                          /\ lsn'[k].mode = lsn[k].mode
  BY Zenon, <1>2, <1>7
<1>9. lsn[l].stage = "ready"
  BY ZenonT(30), <1>1, <1>2, <1>3 DEF ListenInv, Idle
<1>10. TypeOK'
  BY Zenon, <1>1, <1>2, <1>3, <1>6 DEF TypeOK, Task
<1>11. QueueInv'
  BY <1>1, <1>3, <1>8 DEF QueueInv
<1>12. SetupInv'
  <2>1. ASSUME NEW d \in Conn, conn[d].stage \in {"registered", "replied"}
        PROVE  conn[d].by # "input"
    BY ZenonT(30), <1>1, <1>3, <2>1 DEF SetupInv, Idle
  <2>2. QED
    BY <1>1, <1>3, <1>8, <2>1 DEF SetupInv
<1>13. ListenInv'
  <2>1. \A k \in Listener : lsn[k].stage \notin {"opening", "listening", "listed", "undoing"}
    BY ZenonT(30), <1>1, <1>3 DEF ListenInv, Idle
  <2>2. QED
    BY <1>1, <1>2, <1>3, <1>7, <1>8, <1>9, <2>1 DEF ListenInv
<1>14. TableInv'
  BY <1>1, <1>2, <1>3, <1>7 DEF TableInv, TypeOK
<1>15. CloseInv'
  BY Zenon, <1>1, <1>3, <1>8 DEF CloseInv
<1>16. OwnerKeepsSocket'
  <2>1. IdsStay
    BY Zenon, <1>3, <1>8 DEF IdsStay
  <2>2. ASSUME NEW x \in Conn, Usable(x)'
        PROVE  Usable(x) /\ (Found(x) => Found(x)')
    BY Zenon, <1>3, <2>2 DEF Usable, Found, Idle
  <2>3. ASSUME NEW x \in Listener, UsableListener(x)'
        PROVE  UsableListener(x) /\ (FoundListener(x) => FoundListener(x)')
    <3>1. x # l /\ lsn'[x] = lsn[x] /\ lsn[x].id \in Id
      BY Zenon, <1>1, <1>7, <2>3 DEF UsableListener, ListenInv
    <3>2. QED
      BY Zenon, <1>1, <1>3, <2>3, <3>1 DEF UsableListener, FoundListener, TypeOK, l
  <2>4. QED
    BY Zenon, <2>1, <2>2, <2>3, OwnerNext
<1>17. QED
  BY Zenon, <1>10, <1>11, <1>12, <1>13, <1>14, <1>15, <1>16 DEF IndInv

LEMMA RequestListenStep ==
    ASSUME NEW n \in Node, NEW i \in Id, NEW m \in ListenModes, NEW l \in Listener,
           IndInv, RequestListen(n, i, m, l)
    PROVE  IndInv'
<1> USE NoneAssumption
<1>1. TypeOK /\ QueueInv /\ SetupInv /\ ListenInv /\ TableInv /\ CloseInv
  BY Zenon DEF IndInv
<1>2. /\ lsn' = [lsn EXCEPT ![l] = [@ EXCEPT !.stage = "opening", !.id = i, !.owner = n,
                                             !.mode = m]]
      /\ lsn[l].stage = "unused"
      /\ worker = Idle /\ worker' = [op |-> "listen", obj |-> l]
      /\ used' = used \cup {i}
      /\ UNCHANGED <<sockets, listeners, conn, accepted, reader, pushed, acked>>
  BY Zenon DEF RequestListen
<1>3. lsn[l] \in ListenerState
  BY Zenon, <1>1 DEF TypeOK
<1>4. [lsn[l] EXCEPT !.stage = "opening", !.id = i, !.owner = n, !.mode = m] \in ListenerState
  BY ZenonT(30), <1>3 DEF ListenerState
<1>5. lsn' \in [Listener -> ListenerState]
  BY ZenonT(30), <1>1, <1>2, <1>4, ListenerTyped
<1>6. /\ lsn'[l].stage = "opening" /\ lsn'[l].id = i /\ lsn'[l].mode = m
      /\ lsn'[l].accepting = lsn[l].accepting /\ lsn'[l].stopping = lsn[l].stopping
      /\ \A k \in Listener : k # l => lsn'[k] = lsn[k]
  BY Zenon, <1>1, <1>2, <1>3 DEF TypeOK, ListenerState
<1>7. /\ ~lsn[l].accepting /\ ~lsn[l].stopping /\ lsn[l].id = None /\ accepted[l] = <<>>
      /\ \A k \in Listener : lsn[k].stage \notin {"opening", "listening", "listed", "undoing"}
  BY ZenonT(30), <1>1, <1>2 DEF ListenInv, Idle
<1>8. TypeOK'
  BY Zenon, <1>1, <1>2, <1>5 DEF TypeOK, Task
<1>9. QueueInv'
  BY <1>1, <1>2, <1>6, <1>7 DEF QueueInv
<1>10. SetupInv'
  <2>1. ASSUME NEW d \in Conn, conn[d].stage \in {"registered", "replied"}
        PROVE  conn[d].by # "input"
    BY ZenonT(30), <1>1, <1>2, <2>1 DEF SetupInv, Idle
  <2>2. ASSUME NEW d \in Conn, conn[d].stage \in SetupStages
        PROVE  conn[d].by # l
    BY Zenon, <1>1, <1>2, <2>2 DEF SetupInv
  <2>3. QED
    BY <1>1, <1>2, <1>6, <2>1, <2>2 DEF SetupInv
<1>11. ListenInv'
  BY <1>1, <1>2, <1>6, <1>7 DEF ListenInv
<1>12. TableInv'
  BY <1>1, <1>2, <1>6 DEF TableInv, TypeOK
<1>13. CloseInv'
  BY ZenonT(30), <1>1, <1>2, <1>6 DEF CloseInv
<1>14. OwnerKeepsSocket'
  <2>1. IdsStay
    BY Zenon, <1>2, <1>6, <1>7 DEF IdsStay
  <2>2. ASSUME NEW x \in Conn, Usable(x)'
        PROVE  Usable(x) /\ (Found(x) => Found(x)')
    BY Zenon, <1>2, <2>2 DEF Usable, Found, Idle
  <2>3. ASSUME NEW x \in Listener, UsableListener(x)'
        PROVE  UsableListener(x) /\ (FoundListener(x) => FoundListener(x)')
    BY Zenon, <1>2, <1>6, <2>3 DEF UsableListener, FoundListener
  <2>4. QED
    BY Zenon, <2>1, <2>2, <2>3, OwnerNext
<1>15. QED
  BY Zenon, <1>8, <1>9, <1>10, <1>11, <1>12, <1>13, <1>14 DEF IndInv

LEMMA QueueAcceptedStep ==
    ASSUME NEW c \in Conn, IndInv, QueueAccepted(c)
    PROVE  IndInv'
<1> USE NoneAssumption
<1> DEFINE l == conn[c].by
           q == accepted[l]
<1>1. TypeOK /\ QueueInv /\ SetupInv /\ ListenInv /\ TableInv /\ CloseInv
  BY Zenon DEF IndInv
<1>2. /\ conn' = [conn EXCEPT ![c] = [@ EXCEPT !.stage = "queued"]]
      /\ accepted' = [accepted EXCEPT ![l] = Append(@, c)]
      /\ conn[c].stage = "admitted"
      /\ UNCHANGED <<sockets, listeners, lsn, reader, worker, used, pushed, acked>>
  BY Zenon DEF QueueAccepted
<1>3. /\ l \in Listener /\ conn[c].id = None /\ conn[c] \in SocketState
      /\ lsn[l].stage \in {"listening", "listed", "undoing", "ready"}
  BY Zenon, <1>1, <1>2 DEF SetupInv, TypeOK
<1>4. q \in Seq(Conn) /\ accepted \in [Listener -> Seq(Conn)]
  BY Zenon, <1>1, <1>3 DEF TypeOK
<1> HIDE DEF l, q
<1>5. /\ conn'[c].stage = "queued" /\ conn'[c].id = None /\ conn'[c].by = l
      /\ conn'[c].stopping = conn[c].stopping
      /\ \A d \in Conn : d # c => conn'[d] = conn[d]
  BY <1>1, <1>2, <1>3 DEF TypeOK, SocketState, l
<1>6. conn' \in [Conn -> SocketState]
  <2>1. [conn[c] EXCEPT !.stage = "queued"] \in SocketState
    BY Zenon, <1>3 DEF SocketState
  <2>2. QED
    BY ZenonT(30), <1>1, <1>2, <2>1, SocketTyped
<1>7. /\ Append(q, c) \in Seq(Conn) /\ Len(q) \in Nat
      /\ DOMAIN q = 1 .. Len(q) /\ DOMAIN Append(q, c) = 1 .. Len(q) + 1
      /\ Append(q, c)[Len(q) + 1] = c
      /\ \A k \in 1 .. Len(q) : Append(q, c)[k] = q[k]
  BY <1>4
<1>8. /\ accepted'[l] = Append(q, c)
      /\ \A k \in Listener : k # l => accepted'[k] = accepted[k]
  BY Zenon, <1>2, <1>3, <1>4 DEF q
<1>9. accepted' \in [Listener -> Seq(Conn)]
  BY Zenon, <1>2, <1>3, <1>4, <1>7 DEF q
<1>10. TypeOK'
  BY Zenon, <1>1, <1>2, <1>6, <1>9 DEF TypeOK
<1>11. QueueInv'
  <2>1. ASSUME NEW k \in Listener, NEW j \in DOMAIN accepted[k]
        PROVE  /\ accepted[k][j] \in Conn /\ accepted[k][j] # c
               /\ conn'[accepted[k][j]].stage = "queued" /\ conn'[accepted[k][j]].by = k
               /\ \A h \in DOMAIN accepted[k] : accepted[k][h] = accepted[k][j] => h = j
    <3>1. accepted[k][j] \in Conn
      BY <1>4
    <3>2. /\ conn[accepted[k][j]].stage = "queued" /\ conn[accepted[k][j]].by = k
          /\ \A h \in DOMAIN accepted[k] : accepted[k][h] = accepted[k][j] => h = j
      BY Zenon, <1>1 DEF QueueInv
    <3>3. accepted[k][j] # c
      BY Zenon, <1>2, <3>2
    <3>4. QED
      BY Zenon, <1>5, <3>1, <3>2, <3>3
  <2>2. ASSUME NEW j \in DOMAIN accepted'[l]
        PROVE  /\ conn'[accepted'[l][j]].stage = "queued" /\ conn'[accepted'[l][j]].by = l
               /\ \A h \in DOMAIN accepted'[l] : accepted'[l][h] = accepted'[l][j] => h = j
    <3>1. /\ accepted'[l] = Append(q, c) /\ DOMAIN accepted'[l] = 1 .. Len(q) + 1
          /\ j \in 1 .. Len(q) + 1
      BY Zenon, <1>7, <1>8, <2>2
    <3>2. ASSUME NEW h \in 1 .. Len(q)
          PROVE  /\ Append(q, c)[h] = q[h] /\ q[h] # c
                 /\ conn'[q[h]].stage = "queued" /\ conn'[q[h]].by = l
                 /\ \A g \in 1 .. Len(q) : q[g] = q[h] => g = h
      BY <1>3, <1>7, <2>1 DEF q
    <3>3. CASE j = Len(q) + 1
      <4>1. accepted'[l][j] = c
        BY Zenon, <1>7, <3>1, <3>3
      <4>2. ASSUME NEW h \in 1 .. Len(q) + 1, Append(q, c)[h] = c
            PROVE  h = j
        BY <1>7, <3>2, <3>3, <4>2
      <4>3. QED
        BY Zenon, <1>5, <3>1, <4>1, <4>2
    <3>4. CASE j \in 1 .. Len(q)
      <4>1. accepted'[l][j] = q[j] /\ q[j] # c
        BY Zenon, <3>1, <3>2, <3>4
      <4>2. ASSUME NEW h \in 1 .. Len(q) + 1, Append(q, c)[h] = q[j]
            PROVE  h = j
        <5>1. h \in 1 .. Len(q)
          BY <1>7, <4>1, <4>2
        <5>2. QED
          BY Zenon, <3>2, <3>4, <4>2, <5>1
      <4>3. QED
        BY Zenon, <3>1, <3>2, <3>4, <4>1, <4>2
    <3>5. QED
      BY <1>7, <3>1, <3>3, <3>4
  <2>3. ASSUME NEW k \in Listener, NEW j \in DOMAIN accepted'[k]
        PROVE  /\ conn'[accepted'[k][j]].stage = "queued" /\ conn'[accepted'[k][j]].by = k
               /\ \A h \in DOMAIN accepted'[k] : accepted'[k][h] = accepted'[k][j] => h = j
    <3>1. CASE k = l
      BY Zenon, <2>2, <3>1
    <3>2. CASE k # l
      BY <1>8, <2>1, <3>2
    <3>3. QED
      BY Zenon, <3>1, <3>2
  <2>4. ASSUME NEW d \in Conn, conn'[d].stage = "queued"
        PROVE  \E k \in DOMAIN accepted'[conn'[d].by] : accepted'[conn'[d].by][k] = d
    <3>1. CASE d = c
      <4>1. Len(q) + 1 \in DOMAIN Append(q, c)
        BY <1>7
      <4>2. QED
        BY Zenon, <1>5, <1>7, <1>8, <3>1, <4>1
    <3>2. CASE d # c
      <4>1. conn'[d] = conn[d] /\ conn[d].by \in Listener
        BY Zenon, <1>1, <1>5, <2>4, <3>2 DEF SetupInv
      <4>2. PICK k \in DOMAIN accepted[conn[d].by] : accepted[conn[d].by][k] = d
        BY Zenon, <1>1, <2>4, <4>1 DEF QueueInv
      <4>3. CASE conn[d].by = l
        <5>1. k \in 1 .. Len(q) /\ q[k] = d
          BY Zenon, <1>7, <4>2, <4>3 DEF q
        <5>2. k \in DOMAIN Append(q, c) /\ Append(q, c)[k] = d
          BY <1>7, <5>1
        <5>3. QED
          BY Zenon, <1>8, <4>1, <4>3, <5>2
      <4>4. CASE conn[d].by # l
        BY Zenon, <1>8, <4>1, <4>2, <4>4
      <4>5. QED
        BY Zenon, <4>3, <4>4
    <3>3. QED
      BY Zenon, <3>1, <3>2
  <2>5. ASSUME NEW k \in Listener, lsn'[k].stage = "gone"
        PROVE  accepted'[k] = <<>>
    <3>1. k # l /\ lsn[k].stage = "gone"
      BY Zenon, <1>2, <1>3, <2>5
    <3>2. QED
      BY Zenon, <1>1, <1>8, <3>1 DEF QueueInv
  <2>6. QED
    BY Zenon, <2>3, <2>4, <2>5 DEF QueueInv
<1>12. SetupInv'
  BY <1>1, <1>2, <1>3, <1>5 DEF SetupInv
<1>13. ListenInv'
  <2>1. ASSUME NEW k \in Listener, lsn[k].stage \in {"unused", "opening"}
        PROVE  accepted'[k] = <<>>
    BY Zenon, <1>1, <1>3, <1>8, <2>1 DEF ListenInv
  <2>2. QED
    BY Zenon, <1>1, <1>2, <2>1 DEF ListenInv
<1>14. TableInv'
  BY <1>1, <1>2, <1>3, <1>5 DEF TableInv, TypeOK
<1>15. CloseInv'
  BY Zenon, <1>1, <1>2, <1>5 DEF CloseInv
<1>16. OwnerKeepsSocket'
  <2>1. IdsStay
    BY Zenon, <1>2, <1>3, <1>5 DEF IdsStay
  <2>2. ASSUME NEW x \in Conn, Usable(x)'
        PROVE  Usable(x) /\ (Found(x) => Found(x)')
    BY Zenon, <1>2, <1>5, <2>2 DEF Usable, Found
  <2>3. ASSUME NEW x \in Listener, UsableListener(x)'
        PROVE  UsableListener(x) /\ (FoundListener(x) => FoundListener(x)')
    BY Zenon, <1>2, <2>3 DEF UsableListener, FoundListener
  <2>4. QED
    BY Zenon, <2>1, <2>2, <2>3, OwnerNext
<1>17. QED
  BY Zenon, <1>10, <1>11, <1>12, <1>13, <1>14, <1>15, <1>16 DEF IndInv

LEMMA ListenFailsQueue ==
    ASSUME NEW l \in Listener, IndInv, ListenFails(l)
    PROVE  QueueInv'
<1>1. /\ lsn' = [lsn EXCEPT ![l] = [@ EXCEPT !.stage = "gone"]]
      /\ UNCHANGED <<conn, accepted>>
      /\ accepted[l] = <<>>
  BY Zenon DEF IndInv, ListenInv, ListenFails
<1>2. \A k \in Listener : k # l => lsn'[k] = lsn[k]
  BY Zenon, <1>1 DEF IndInv, TypeOK
<1>3. QED
  BY <1>1, <1>2 DEF IndInv, QueueInv

(* The input worker begins or ends a call that concerns no table.          *)
LEMMA PlainWork ==
    ASSUME IndInv,
           worker.op \in {"idle", "send", "recv"}, worker'.op \in {"idle", "send", "recv"},
           worker' \in Task,
           UNCHANGED <<sockets, listeners, conn, lsn, accepted, reader, used, pushed, acked>>
    PROVE  IndInv'
<1>1. TypeOK /\ QueueInv /\ SetupInv /\ ListenInv /\ TableInv /\ CloseInv
  BY Zenon DEF IndInv
<1>2. \A op, x : worker = [op |-> op, obj |-> x] => op \in {"idle", "send", "recv"}
  OBVIOUS
<1>3. \A op, x : worker' = [op |-> op, obj |-> x] => op \in {"idle", "send", "recv"}
  OBVIOUS
<1>4. TypeOK' /\ QueueInv'
  BY <1>1 DEF TypeOK, QueueInv
<1>5. SetupInv'
  BY <1>1, <1>2, <1>3 DEF SetupInv
<1>6. ListenInv'
  BY <1>1, <1>2, <1>3 DEF ListenInv
<1>7. TableInv' /\ CloseInv'
  BY <1>1, <1>2, <1>3 DEF TableInv, CloseInv
<1>8. OwnerKeepsSocket'
  BY <1>2, <1>3 DEF IndInv, OwnerKeepsSocket, NobodyElseUses
<1>9. QED
  BY Zenon, <1>4, <1>5, <1>6, <1>7, <1>8 DEF IndInv

LEMMA StreamStep ==
    ASSUME IndInv,
           EndStream \/ \E n \in Node, i \in Id, op \in {"send", "recv"} : BeginStream(n, i, op)
    PROVE  IndInv'
<1>1. CASE EndStream
  <2>1. worker.op \in {"idle", "send", "recv"} /\ worker' \in Task /\ worker'.op = "idle"
    BY Zenon, <1>1 DEF EndStream, Idle, Task
  <2>2. QED
    BY Zenon, <1>1, <2>1, PlainWork DEF EndStream
<1>2. ASSUME NEW n \in Node, NEW i \in Id, NEW op \in {"send", "recv"}, BeginStream(n, i, op)
      PROVE  IndInv'
  <2>1. sockets[i] \in Conn
    BY Zenon, <1>2 DEF IndInv, TypeOK, BeginStream
  <2>2. worker.op = "idle" /\ worker' \in Task /\ worker'.op \in {"send", "recv"}
    BY Zenon, <1>2, <2>1 DEF BeginStream, Idle, Task
  <2>3. QED
    BY Zenon, <1>2, <2>2, PlainWork DEF BeginStream
<1>3. QED
  BY Zenon, <1>1, <1>2

-----------------------------------------------------------------------------
(* The remaining actions, one lemma each: the set-up of a connection, the  *)
(* set-up of a listener, the accept thread, and the end of a close.        *)
LEMMA RequestConnectStep ==
    ASSUME NEW n \in Node, NEW i \in Id, NEW m \in SocketModes, NEW c \in Conn, IndInv, RequestConnect(n, i, m, c)
    PROVE  IndInv'
<1> USE NoneAssumption, ModeAssumption
<1>1. TypeOK'
  <2>1. conn[c] \in SocketState
    BY Zenon DEF IndInv, TypeOK
  <2>2. [conn[c] EXCEPT !.stage = "connecting", !.id = i, !.owner = n, !.mode = m]
          \in SocketState
    BY ZenonT(30), <2>1 DEF SocketState
  <2>3. conn' \in [Conn -> SocketState]
    BY ZenonT(30), <2>2, SocketTyped DEF IndInv, RequestConnect
  <2>4. QED
    BY Zenon, <2>3 DEF IndInv, TypeOK, RequestConnect
<1>2. QueueInv'
  <2>1. conn[c].stage # "queued" /\ conn'[c].stage # "queued"
    BY DEF IndInv, TypeOK, RequestConnect
  <2>2. \A d \in Conn : d # c => conn'[d] = conn[d]
    BY Zenon DEF IndInv, TypeOK, RequestConnect
  <2>3. QED
    BY Zenon, <2>1, <2>2, QueueKept DEF IndInv, RequestConnect
<1>3. SetupInv'
  BY DEF IndInv, TypeOK, SetupInv, RequestConnect
<1>4. ListenInv'
  BY Zenon DEF IndInv, TypeOK, ListenInv, RequestConnect
<1>5. TableInv'
  BY DEF IndInv, TypeOK, TableInv, RequestConnect, SetupInv, ListenInv
<1>6. CloseInv'
  BY DEF IndInv, TypeOK, CloseInv, RequestConnect
<1>7. OwnerKeepsSocket'
  <2>1. IdsStay
    BY DEF IdsStay, IndInv, TypeOK, RequestConnect, SetupInv, ListenInv
  <2>2. ASSUME NEW x \in Conn, Usable(x)', NobodyElseUses(conn[x].id, x)'
        PROVE  Found(x)' \/ (Usable(x) /\ (Found(x) => Found(x)'))
    BY <2>2 DEF Usable, Found, IndInv, TypeOK, RequestConnect
  <2>3. ASSUME NEW x \in Listener, UsableListener(x)', NobodyElseUses(lsn[x].id, x)'
        PROVE  \/ FoundListener(x)'
               \/ UsableListener(x) /\ (FoundListener(x) => FoundListener(x)')
    BY Zenon, <2>3 DEF UsableListener, FoundListener, RequestConnect
  <2>4. QED
    BY Zenon, <2>1, <2>2, <2>3, OwnerNext
<1>8. QED
  BY Zenon, <1>1, <1>2, <1>3, <1>4, <1>5, <1>6, <1>7 DEF IndInv

LEMMA ConnectFailsStep ==
    ASSUME NEW c \in Conn, IndInv, ConnectFails(c)
    PROVE  IndInv'
<1> USE NoneAssumption
<1>1. TypeOK'
  <2>1. conn[c] \in SocketState
    BY Zenon DEF IndInv, TypeOK
  <2>2. [conn[c] EXCEPT !.stage = "gone"]
          \in SocketState
    BY Zenon, <2>1 DEF SocketState
  <2>3. conn' \in [Conn -> SocketState]
    BY ZenonT(30), <2>2, SocketTyped DEF IndInv, ConnectFails
  <2>4. QED
    BY Zenon, <2>3 DEF IndInv, TypeOK, ConnectFails
<1>2. QueueInv'
  <2>1. conn[c].stage # "queued" /\ conn'[c].stage # "queued"
    BY DEF IndInv, TypeOK, ConnectFails
  <2>2. \A d \in Conn : d # c => conn'[d] = conn[d]
    BY Zenon DEF IndInv, TypeOK, ConnectFails
  <2>3. QED
    BY Zenon, <2>1, <2>2, QueueKept DEF IndInv, ConnectFails
<1>3. SetupInv'
  BY DEF IndInv, TypeOK, SetupInv, ConnectFails
<1>4. ListenInv'
  BY Zenon DEF IndInv, TypeOK, ListenInv, ConnectFails
<1>5. TableInv'
  BY DEF IndInv, TypeOK, TableInv, ConnectFails
<1>6. CloseInv'
  BY DEF IndInv, TypeOK, CloseInv, ConnectFails
<1>7. OwnerKeepsSocket'
  <2>1. IdsStay
    BY DEF IdsStay, IndInv, TypeOK, ConnectFails
  <2>2. ASSUME NEW x \in Conn, Usable(x)', NobodyElseUses(conn[x].id, x)'
        PROVE  Found(x)' \/ (Usable(x) /\ (Found(x) => Found(x)'))
    BY <2>2 DEF Usable, Found, IndInv, TypeOK, ConnectFails
  <2>3. ASSUME NEW x \in Listener, UsableListener(x)', NobodyElseUses(lsn[x].id, x)'
        PROVE  \/ FoundListener(x)'
               \/ UsableListener(x) /\ (FoundListener(x) => FoundListener(x)')
    BY Zenon, <2>3 DEF UsableListener, FoundListener, ConnectFails
  <2>4. QED
    BY Zenon, <2>1, <2>2, <2>3, OwnerNext
<1>8. QED
  BY Zenon, <1>1, <1>2, <1>3, <1>4, <1>5, <1>6, <1>7 DEF IndInv

LEMMA RegisterConnectedStep ==
    ASSUME NEW c \in Conn, IndInv, RegisterConnected(c)
    PROVE  IndInv'
<1> USE NoneAssumption
<1>1. TypeOK'
  <2>1. conn[c] \in SocketState
    BY Zenon DEF IndInv, TypeOK
  <2>2. [conn[c] EXCEPT !.stage = "registered", !.open = TRUE]
          \in SocketState
    BY ZenonT(30), <2>1 DEF SocketState
  <2>3. conn' \in [Conn -> SocketState]
    BY ZenonT(30), <2>2, SocketTyped DEF IndInv, RegisterConnected
  <2>4. QED
    BY ZenonT(30), <2>3 DEF IndInv, TypeOK, RegisterConnected, Emplace
<1>2. QueueInv'
  <2>1. conn[c].stage # "queued" /\ conn'[c].stage # "queued"
    BY DEF IndInv, TypeOK, RegisterConnected
  <2>2. \A d \in Conn : d # c => conn'[d] = conn[d]
    BY Zenon DEF IndInv, TypeOK, RegisterConnected
  <2>3. QED
    BY Zenon, <2>1, <2>2, QueueKept DEF IndInv, RegisterConnected
<1>3. SetupInv'
  BY DEF IndInv, TypeOK, SetupInv, RegisterConnected
<1>4. ListenInv'
  BY Zenon DEF IndInv, TypeOK, ListenInv, RegisterConnected
<1>5. TableInv'
  BY DEF IndInv, TypeOK, TableInv, RegisterConnected, Emplace
<1>6. CloseInv'
  BY DEF IndInv, TypeOK, CloseInv, RegisterConnected
<1>7. OwnerKeepsSocket'
  BY Zenon, RegisterConnectedOwner
<1>8. QED
  BY Zenon, <1>1, <1>2, <1>3, <1>4, <1>5, <1>6, <1>7 DEF IndInv

LEMMA ReplyRegisteredStep ==
    ASSUME NEW c \in Conn, IndInv, ReplyRegistered(c)
    PROVE  IndInv'
<1> USE NoneAssumption
<1>1. TypeOK'
  <2>1. conn[c] \in SocketState
    BY Zenon DEF IndInv, TypeOK
  <2>2. [conn[c] EXCEPT !.stage = "replied"]
          \in SocketState
    BY Zenon, <2>1 DEF SocketState
  <2>3. conn' \in [Conn -> SocketState]
    BY ZenonT(30), <2>2, SocketTyped DEF IndInv, ReplyRegistered
  <2>4. QED
    BY <2>3 DEF IndInv, TypeOK, ReplyRegistered, Announced
<1>2. QueueInv'
  <2>1. conn[c].stage # "queued" /\ conn'[c].stage # "queued"
    BY DEF IndInv, TypeOK, ReplyRegistered
  <2>2. \A d \in Conn : d # c => conn'[d] = conn[d]
    BY Zenon DEF IndInv, TypeOK, ReplyRegistered
  <2>3. QED
    BY Zenon, <2>1, <2>2, QueueKept DEF IndInv, ReplyRegistered
<1>3. SetupInv'
  BY DEF IndInv, TypeOK, SetupInv, ReplyRegistered
<1>4. ListenInv'
  BY Zenon DEF IndInv, TypeOK, ListenInv, ReplyRegistered
<1>5. TableInv'
  BY DEF IndInv, TypeOK, TableInv, ReplyRegistered
<1>6. CloseInv'
  BY DEF IndInv, TypeOK, CloseInv, ReplyRegistered
<1>7. OwnerKeepsSocket'
  <2>1. IdsStay
    BY DEF IdsStay, IndInv, TypeOK, ReplyRegistered
  <2>2. ASSUME NEW x \in Conn, Usable(x)', NobodyElseUses(conn[x].id, x)'
        PROVE  Found(x)' \/ (Usable(x) /\ (Found(x) => Found(x)'))
    BY <2>2 DEF Usable, Found, IndInv, TypeOK, ReplyRegistered
  <2>3. ASSUME NEW x \in Listener, UsableListener(x)', NobodyElseUses(lsn[x].id, x)'
        PROVE  \/ FoundListener(x)'
               \/ UsableListener(x) /\ (FoundListener(x) => FoundListener(x)')
    BY Zenon, <2>3 DEF UsableListener, FoundListener, ReplyRegistered
  <2>4. QED
    BY Zenon, <2>1, <2>2, <2>3, OwnerNext
<1>8. QED
  BY Zenon, <1>1, <1>2, <1>3, <1>4, <1>5, <1>6, <1>7 DEF IndInv

LEMMA ReplyRegisteredFailsStep ==
    ASSUME NEW c \in Conn, IndInv, ReplyRegisteredFails(c)
    PROVE  IndInv'
<1> USE NoneAssumption
<1>1. TypeOK'
  <2>1. conn[c] \in SocketState
    BY Zenon DEF IndInv, TypeOK
  <2>2. [Stopped(conn[c]) EXCEPT !.stage = "gone"]
          \in SocketState
    BY ZenonT(30), <2>1 DEF SocketState, Stopped
  <2>3. conn' \in [Conn -> SocketState]
    BY ZenonT(30), <2>2, SocketTyped DEF IndInv, ReplyRegisteredFails
  <2>4. QED
    BY ZenonT(30), <2>3 DEF IndInv, TypeOK, ReplyRegisteredFails, Erase, AfterSetup, Idle, Task
<1>2. QueueInv'
  <2>1. conn[c].stage # "queued" /\ conn'[c].stage # "queued"
    BY DEF IndInv, TypeOK, ReplyRegisteredFails, Stopped
  <2>2. \A d \in Conn : d # c => conn'[d] = conn[d]
    BY Zenon DEF IndInv, TypeOK, ReplyRegisteredFails
  <2>3. QED
    BY Zenon, <2>1, <2>2, QueueKept DEF IndInv, ReplyRegisteredFails
<1>3. SetupInv'
  BY DEF IndInv, TypeOK, SetupInv, ReplyRegisteredFails, Stopped, AfterSetup, Idle
<1>4. ListenInv'
  BY DEF IndInv, TypeOK, ListenInv, ReplyRegisteredFails, Stopped, AfterSetup, Idle, SetupInv,
         TableInv
<1>5. TableInv'
  BY DEF IndInv, TypeOK, TableInv, ReplyRegisteredFails, Stopped, AfterSetup, Idle, Erase
<1>6. CloseInv'
  BY DEF IndInv, TypeOK, CloseInv, ReplyRegisteredFails, Stopped, AfterSetup, Idle
<1>7. OwnerKeepsSocket'
  <2>1. IdsStay
    BY DEF IdsStay, IndInv, TypeOK, ReplyRegisteredFails, Stopped
  <2>2. ASSUME NEW x \in Conn, Usable(x)', NobodyElseUses(conn[x].id, x)'
        PROVE  Found(x)' \/ (Usable(x) /\ (Found(x) => Found(x)'))
    BY <2>2 DEF Usable, Found, IndInv, TypeOK, ReplyRegisteredFails, Stopped, Erase,
                AfterSetup, Idle, SetupInv, ListenInv, TableInv, NobodyElseUses
  <2>3. ASSUME NEW x \in Listener, UsableListener(x)', NobodyElseUses(lsn[x].id, x)'
        PROVE  \/ FoundListener(x)'
               \/ UsableListener(x) /\ (FoundListener(x) => FoundListener(x)')
    BY Zenon, <2>3 DEF UsableListener, FoundListener, ReplyRegisteredFails, Stopped
  <2>4. QED
    BY Zenon, <2>1, <2>2, <2>3, OwnerNext
<1>8. QED
  BY Zenon, <1>1, <1>2, <1>3, <1>4, <1>5, <1>6, <1>7 DEF IndInv

LEMMA StartReaderStep ==
    ASSUME NEW c \in Conn, IndInv, StartReader(c)
    PROVE  IndInv'
<1> USE NoneAssumption
<1>1. TypeOK'
  <2>1. conn[c] \in SocketState
    BY Zenon DEF IndInv, TypeOK
  <2>2. [conn[c] EXCEPT !.stage = "ready"]
          \in SocketState
    BY Zenon, <2>1 DEF SocketState
  <2>3. conn' \in [Conn -> SocketState]
    BY ZenonT(30), <2>2, SocketTyped DEF IndInv, StartReader
  <2>4. QED
    BY Zenon, <2>3 DEF IndInv, TypeOK, StartReader, AfterSetup, Idle, Task
<1>2. QueueInv'
  <2>1. conn[c].stage # "queued" /\ conn'[c].stage # "queued"
    BY DEF IndInv, TypeOK, StartReader
  <2>2. \A d \in Conn : d # c => conn'[d] = conn[d]
    BY Zenon DEF IndInv, TypeOK, StartReader
  <2>3. QED
    BY Zenon, <2>1, <2>2, QueueKept DEF IndInv, StartReader
<1>3. SetupInv'
  BY DEF IndInv, TypeOK, SetupInv, StartReader, AfterSetup, Idle
<1>4. ListenInv'
  BY DEF IndInv, TypeOK, ListenInv, StartReader, AfterSetup, Idle, SetupInv, TableInv
<1>5. TableInv'
  BY DEF IndInv, TypeOK, TableInv, StartReader, AfterSetup, Idle
<1>6. CloseInv'
  BY DEF IndInv, TypeOK, CloseInv, StartReader, AfterSetup, Idle
<1>7. OwnerKeepsSocket'
  <2>1. IdsStay
    BY DEF IdsStay, IndInv, TypeOK, StartReader
  <2>2. ASSUME NEW x \in Conn, Usable(x)', NobodyElseUses(conn[x].id, x)'
        PROVE  Found(x)' \/ (Usable(x) /\ (Found(x) => Found(x)'))
    BY <2>2 DEF Usable, Found, IndInv, TypeOK, StartReader, AfterSetup, Idle, SetupInv,
                ListenInv, TableInv
  <2>3. ASSUME NEW x \in Listener, UsableListener(x)', NobodyElseUses(lsn[x].id, x)'
        PROVE  \/ FoundListener(x)'
               \/ UsableListener(x) /\ (FoundListener(x) => FoundListener(x)')
    BY Zenon, <2>3 DEF UsableListener, FoundListener, StartReader
  <2>4. QED
    BY Zenon, <2>1, <2>2, <2>3, OwnerNext
<1>8. QED
  BY Zenon, <1>1, <1>2, <1>3, <1>4, <1>5, <1>6, <1>7 DEF IndInv

LEMMA ListenFailsStep ==
    ASSUME NEW l \in Listener, IndInv, ListenFails(l)
    PROVE  IndInv'
<1> USE NoneAssumption
<1>1. TypeOK'
  <2>1. lsn[l] \in ListenerState
    BY Zenon DEF IndInv, TypeOK
  <2>2. [lsn[l] EXCEPT !.stage = "gone"]
          \in ListenerState
    BY Zenon, <2>1 DEF ListenerState
  <2>3. lsn' \in [Listener -> ListenerState]
    BY ZenonT(30), <2>2, ListenerTyped DEF IndInv, ListenFails
  <2>4. QED
    BY Zenon, <2>3 DEF IndInv, TypeOK, ListenFails, Idle, Task
<1>2. QueueInv'
  BY Zenon, ListenFailsQueue
<1>3. SetupInv'
  BY DEF IndInv, TypeOK, SetupInv, ListenFails, Idle, ListenInv
<1>4. ListenInv'
  BY DEF IndInv, TypeOK, ListenInv, ListenFails, Idle
<1>5. TableInv'
  BY DEF IndInv, TypeOK, TableInv, ListenFails, Idle
<1>6. CloseInv'
  BY Zenon DEF IndInv, TypeOK, CloseInv, ListenFails, Idle
<1>7. OwnerKeepsSocket'
  <2>1. IdsStay
    BY DEF IdsStay, IndInv, TypeOK, ListenFails
  <2>2. ASSUME NEW x \in Conn, Usable(x)', NobodyElseUses(conn[x].id, x)'
        PROVE  Found(x)' \/ (Usable(x) /\ (Found(x) => Found(x)'))
    BY <2>2 DEF Usable, Found, IndInv, ListenFails, Idle, SetupInv, ListenInv, TableInv
  <2>3. ASSUME NEW x \in Listener, UsableListener(x)', NobodyElseUses(lsn[x].id, x)'
        PROVE  \/ FoundListener(x)'
               \/ UsableListener(x) /\ (FoundListener(x) => FoundListener(x)')
    BY <2>3 DEF UsableListener, FoundListener, IndInv, TypeOK, ListenFails
  <2>4. QED
    BY Zenon, <2>1, <2>2, <2>3, OwnerNext
<1>8. QED
  BY Zenon, <1>1, <1>2, <1>3, <1>4, <1>5, <1>6, <1>7 DEF IndInv

LEMMA StartListeningStep ==
    ASSUME NEW l \in Listener, IndInv, StartListening(l)
    PROVE  IndInv'
<1> USE NoneAssumption
<1>1. TypeOK'
  <2>1. lsn[l] \in ListenerState
    BY Zenon DEF IndInv, TypeOK
  <2>2. [lsn[l] EXCEPT !.stage = "listening", !.accepting = TRUE]
          \in ListenerState
    BY ZenonT(30), <2>1 DEF ListenerState
  <2>3. lsn' \in [Listener -> ListenerState]
    BY ZenonT(30), <2>2, ListenerTyped DEF IndInv, StartListening
  <2>4. QED
    BY Zenon, <2>3 DEF IndInv, TypeOK, StartListening
<1>2. QueueInv'
  BY DEF IndInv, TypeOK, QueueInv, StartListening
<1>3. SetupInv'
  BY Zenon DEF IndInv, TypeOK, SetupInv, StartListening
<1>4. ListenInv'
  BY DEF IndInv, TypeOK, ListenInv, StartListening
<1>5. TableInv'
  BY DEF IndInv, TypeOK, TableInv, StartListening
<1>6. CloseInv'
  BY Zenon DEF IndInv, TypeOK, CloseInv, StartListening
<1>7. OwnerKeepsSocket'
  <2>1. IdsStay
    BY DEF IdsStay, IndInv, TypeOK, StartListening
  <2>2. ASSUME NEW x \in Conn, Usable(x)', NobodyElseUses(conn[x].id, x)'
        PROVE  Found(x)' \/ (Usable(x) /\ (Found(x) => Found(x)'))
    BY Zenon, <2>2 DEF Usable, Found, IndInv, StartListening
  <2>3. ASSUME NEW x \in Listener, UsableListener(x)', NobodyElseUses(lsn[x].id, x)'
        PROVE  \/ FoundListener(x)'
               \/ UsableListener(x) /\ (FoundListener(x) => FoundListener(x)')
    BY <2>3 DEF UsableListener, FoundListener, IndInv, TypeOK, StartListening
  <2>4. QED
    BY Zenon, <2>1, <2>2, <2>3, OwnerNext
<1>8. QED
  BY Zenon, <1>1, <1>2, <1>3, <1>4, <1>5, <1>6, <1>7 DEF IndInv

LEMMA RegisterListenerStep ==
    ASSUME NEW l \in Listener, IndInv, RegisterListener(l)
    PROVE  IndInv'
<1> USE NoneAssumption
<1>1. TypeOK'
  <2>1. lsn[l] \in ListenerState
    BY Zenon DEF IndInv, TypeOK
  <2>2. [lsn[l] EXCEPT !.stage = "listed"]
          \in ListenerState
    BY Zenon, <2>1 DEF ListenerState
  <2>3. lsn' \in [Listener -> ListenerState]
    BY ZenonT(30), <2>2, ListenerTyped DEF IndInv, RegisterListener
  <2>4. QED
    BY ZenonT(30), <2>3 DEF IndInv, TypeOK, RegisterListener, Emplace
<1>2. QueueInv'
  BY DEF IndInv, TypeOK, QueueInv, RegisterListener
<1>3. SetupInv'
  BY DEF IndInv, TypeOK, SetupInv, RegisterListener
<1>4. ListenInv'
  BY SMTT(30) DEF IndInv, TypeOK, ListenInv, RegisterListener
<1>5. TableInv'
  BY DEF IndInv, TypeOK, TableInv, RegisterListener, Emplace, SetupInv, ListenInv
<1>6. CloseInv'
  BY Zenon DEF IndInv, TypeOK, CloseInv, RegisterListener
<1>7. OwnerKeepsSocket'
  BY Zenon, RegisterListenerOwner
<1>8. QED
  BY Zenon, <1>1, <1>2, <1>3, <1>4, <1>5, <1>6, <1>7 DEF IndInv

LEMMA ReplyListeningStep ==
    ASSUME NEW l \in Listener, IndInv, ReplyListening(l)
    PROVE  IndInv'
<1> USE NoneAssumption
<1>1. TypeOK'
  <2>1. lsn[l] \in ListenerState
    BY Zenon DEF IndInv, TypeOK
  <2>2. [lsn[l] EXCEPT !.stage = "ready"]
          \in ListenerState
    BY Zenon, <2>1 DEF ListenerState
  <2>3. lsn' \in [Listener -> ListenerState]
    BY ZenonT(30), <2>2, ListenerTyped DEF IndInv, ReplyListening
  <2>4. QED
    BY Zenon, <2>3 DEF IndInv, TypeOK, ReplyListening, Idle, Task
<1>2. QueueInv'
  BY DEF IndInv, TypeOK, QueueInv, ReplyListening
<1>3. SetupInv'
  BY DEF IndInv, TypeOK, SetupInv, ReplyListening, Idle, ListenInv
<1>4. ListenInv'
  BY DEF IndInv, TypeOK, ListenInv, ReplyListening, Idle
<1>5. TableInv'
  BY DEF IndInv, TypeOK, TableInv, ReplyListening, Idle
<1>6. CloseInv'
  BY Zenon DEF IndInv, TypeOK, CloseInv, ReplyListening, Idle
<1>7. OwnerKeepsSocket'
  <2>1. IdsStay
    BY DEF IdsStay, IndInv, TypeOK, ReplyListening
  <2>2. ASSUME NEW x \in Conn, Usable(x)', NobodyElseUses(conn[x].id, x)'
        PROVE  Found(x)' \/ (Usable(x) /\ (Found(x) => Found(x)'))
    BY <2>2 DEF Usable, Found, IndInv, ReplyListening, Idle, SetupInv, ListenInv, TableInv
  <2>3. ASSUME NEW x \in Listener, UsableListener(x)', NobodyElseUses(lsn[x].id, x)'
        PROVE  \/ FoundListener(x)'
               \/ UsableListener(x) /\ (FoundListener(x) => FoundListener(x)')
    BY <2>3 DEF UsableListener, FoundListener, IndInv, TypeOK, ReplyListening
  <2>4. QED
    BY Zenon, <2>1, <2>2, <2>3, OwnerNext
<1>8. QED
  BY Zenon, <1>1, <1>2, <1>3, <1>4, <1>5, <1>6, <1>7 DEF IndInv

LEMMA ReplyListeningFailsStep ==
    ASSUME NEW l \in Listener, IndInv, ReplyListeningFails(l)
    PROVE  IndInv'
<1> USE NoneAssumption
<1>1. TypeOK'
  <2>1. lsn[l] \in ListenerState
    BY Zenon DEF IndInv, TypeOK
  <2>2. [Silenced(lsn[l]) EXCEPT !.stage = "undoing"]
          \in ListenerState
    BY ZenonT(30), <2>1 DEF ListenerState, Silenced
  <2>3. lsn' \in [Listener -> ListenerState]
    BY ZenonT(30), <2>2, ListenerTyped DEF IndInv, ReplyListeningFails
  <2>4. QED
    BY ZenonT(30), <2>3 DEF IndInv, TypeOK, ReplyListeningFails, Erase
<1>2. QueueInv'
  BY DEF IndInv, TypeOK, QueueInv, ReplyListeningFails, Silenced
<1>3. SetupInv'
  BY DEF IndInv, TypeOK, SetupInv, ReplyListeningFails, Silenced
<1>4. ListenInv'
  BY DEF IndInv, TypeOK, ListenInv, ReplyListeningFails, Silenced
<1>5. TableInv'
  BY DEF IndInv, TypeOK, TableInv, ReplyListeningFails, Silenced, Erase
<1>6. CloseInv'
  BY Zenon DEF IndInv, TypeOK, CloseInv, ReplyListeningFails, Silenced
<1>7. OwnerKeepsSocket'
  <2>1. IdsStay
    BY DEF IdsStay, IndInv, TypeOK, ReplyListeningFails, Silenced
  <2>2. ASSUME NEW x \in Conn, Usable(x)', NobodyElseUses(conn[x].id, x)'
        PROVE  Found(x)' \/ (Usable(x) /\ (Found(x) => Found(x)'))
    BY Zenon, <2>2 DEF Usable, Found, IndInv, ReplyListeningFails, Silenced
  <2>3. ASSUME NEW x \in Listener, UsableListener(x)', NobodyElseUses(lsn[x].id, x)'
        PROVE  \/ FoundListener(x)'
               \/ UsableListener(x) /\ (FoundListener(x) => FoundListener(x)')
    BY <2>3 DEF UsableListener, FoundListener, IndInv, TypeOK, ReplyListeningFails, Silenced,
                Erase, ListenInv, TableInv, NobodyElseUses
  <2>4. QED
    BY Zenon, <2>1, <2>2, <2>3, OwnerNext
<1>8. QED
  BY Zenon, <1>1, <1>2, <1>3, <1>4, <1>5, <1>6, <1>7 DEF IndInv

LEMMA AcceptConnectionStep ==
    ASSUME NEW l \in Listener, NEW c \in Conn, IndInv, AcceptConnection(l, c)
    PROVE  IndInv'
<1> USE NoneAssumption
<1>1. TypeOK'
  <2>1. conn[c] \in SocketState
    BY Zenon DEF IndInv, TypeOK
  <2>2. [conn[c] EXCEPT !.stage = "arriving", !.by = l, !.open = TRUE]
          \in SocketState
    BY ZenonT(30), <2>1 DEF SocketState
  <2>3. conn' \in [Conn -> SocketState]
    BY ZenonT(30), <2>2, SocketTyped DEF IndInv, AcceptConnection
  <2>4. QED
    BY Zenon, <2>3 DEF IndInv, TypeOK, AcceptConnection
<1>2. QueueInv'
  <2>1. conn[c].stage # "queued" /\ conn'[c].stage # "queued"
    BY DEF IndInv, TypeOK, AcceptConnection
  <2>2. \A d \in Conn : d # c => conn'[d] = conn[d]
    BY Zenon DEF IndInv, TypeOK, AcceptConnection
  <2>3. QED
    BY Zenon, <2>1, <2>2, QueueKept DEF IndInv, AcceptConnection
<1>3. SetupInv'
  BY DEF IndInv, TypeOK, SetupInv, AcceptConnection, ListenInv
<1>4. ListenInv'
  BY Zenon DEF IndInv, TypeOK, ListenInv, AcceptConnection
<1>5. TableInv'
  BY DEF IndInv, TypeOK, TableInv, AcceptConnection
<1>6. CloseInv'
  BY DEF IndInv, TypeOK, CloseInv, AcceptConnection
<1>7. OwnerKeepsSocket'
  <2>1. IdsStay
    BY DEF IdsStay, IndInv, TypeOK, AcceptConnection
  <2>2. ASSUME NEW x \in Conn, Usable(x)', NobodyElseUses(conn[x].id, x)'
        PROVE  Found(x)' \/ (Usable(x) /\ (Found(x) => Found(x)'))
    BY <2>2 DEF Usable, Found, IndInv, TypeOK, AcceptConnection
  <2>3. ASSUME NEW x \in Listener, UsableListener(x)', NobodyElseUses(lsn[x].id, x)'
        PROVE  \/ FoundListener(x)'
               \/ UsableListener(x) /\ (FoundListener(x) => FoundListener(x)')
    BY Zenon, <2>3 DEF UsableListener, FoundListener, AcceptConnection
  <2>4. QED
    BY Zenon, <2>1, <2>2, <2>3, OwnerNext
<1>8. QED
  BY Zenon, <1>1, <1>2, <1>3, <1>4, <1>5, <1>6, <1>7 DEF IndInv

LEMMA AdmitStep ==
    ASSUME NEW c \in Conn, IndInv, Admit(c)
    PROVE  IndInv'
<1> USE NoneAssumption
<1>1. TypeOK'
  <2>1. conn[c] \in SocketState
    BY Zenon DEF IndInv, TypeOK
  <2>2. (IF lsn[conn[c].by].stopping
           THEN [conn[c] EXCEPT !.stage = "gone", !.open = FALSE]
           ELSE [conn[c] EXCEPT !.stage = "admitted"])
          \in SocketState
    BY ZenonT(30), <2>1 DEF SocketState
  <2>3. conn' \in [Conn -> SocketState]
    BY ZenonT(30), <2>2, SocketTyped DEF IndInv, Admit
  <2>4. QED
    BY Zenon, <2>3 DEF IndInv, TypeOK, Admit
<1>2. QueueInv'
  <2>1. conn[c].stage # "queued" /\ conn'[c].stage # "queued"
    BY DEF IndInv, TypeOK, Admit
  <2>2. \A d \in Conn : d # c => conn'[d] = conn[d]
    BY Zenon DEF IndInv, TypeOK, Admit
  <2>3. QED
    BY Zenon, <2>1, <2>2, QueueKept DEF IndInv, Admit
<1>3. SetupInv'
  BY DEF IndInv, TypeOK, SetupInv, Admit
<1>4. ListenInv'
  BY Zenon DEF IndInv, TypeOK, ListenInv, Admit
<1>5. TableInv'
  BY DEF IndInv, TypeOK, TableInv, Admit
<1>6. CloseInv'
  BY DEF IndInv, TypeOK, CloseInv, Admit
<1>7. OwnerKeepsSocket'
  <2>1. IdsStay
    BY DEF IdsStay, IndInv, TypeOK, Admit
  <2>2. ASSUME NEW x \in Conn, Usable(x)', NobodyElseUses(conn[x].id, x)'
        PROVE  Found(x)' \/ (Usable(x) /\ (Found(x) => Found(x)'))
    BY <2>2 DEF Usable, Found, IndInv, TypeOK, Admit
  <2>3. ASSUME NEW x \in Listener, UsableListener(x)', NobodyElseUses(lsn[x].id, x)'
        PROVE  \/ FoundListener(x)'
               \/ UsableListener(x) /\ (FoundListener(x) => FoundListener(x)')
    BY Zenon, <2>3 DEF UsableListener, FoundListener, Admit
  <2>4. QED
    BY Zenon, <2>1, <2>2, <2>3, OwnerNext
<1>8. QED
  BY Zenon, <1>1, <1>2, <1>3, <1>4, <1>5, <1>6, <1>7 DEF IndInv

LEMMA RegisterAcceptedStep ==
    ASSUME NEW c \in Conn, NEW i \in Id, IndInv, RegisterAccepted(c, i)
    PROVE  IndInv'
<1> USE NoneAssumption, ModeAssumption
<1>1. TypeOK'
  <2>0. /\ conn[c].by \in Listener /\ lsn[conn[c].by] \in ListenerState
        /\ lsn[conn[c].by].mode \in ListenModes
    BY ZenonT(30) DEF IndInv, TypeOK, SetupInv, ListenInv, RegisterAccepted
  <2>1. conn[c] \in SocketState
    BY Zenon DEF IndInv, TypeOK
  <2>2. [conn[c] EXCEPT !.stage = "registered", !.id = i,
           !.owner = lsn[conn[c].by].owner, !.mode = lsn[conn[c].by].mode.child]
          \in SocketState
    BY ZenonT(30), <2>0, <2>1 DEF SocketState, ListenerState
  <2>3. conn' \in [Conn -> SocketState]
    BY ZenonT(30), <2>2, SocketTyped DEF IndInv, RegisterAccepted
  <2>4. QED
    BY Zenon, <2>0, <2>3 DEF IndInv, TypeOK, RegisterAccepted, Emplace, InUse
<1>2. QueueInv'
  <2>1. conn[c].stage # "queued" /\ conn'[c].stage # "queued"
    BY DEF IndInv, TypeOK, RegisterAccepted
  <2>2. \A d \in Conn : d # c => conn'[d] = conn[d]
    BY Zenon DEF IndInv, TypeOK, RegisterAccepted
  <2>3. QED
    BY Zenon, <2>1, <2>2, QueueKept DEF IndInv, RegisterAccepted
<1>3. SetupInv'
  BY DEF IndInv, TypeOK, SetupInv, RegisterAccepted
<1>4. ListenInv'
  BY Zenon DEF IndInv, TypeOK, ListenInv, RegisterAccepted
<1>5. TableInv'
  BY DEF IndInv, TypeOK, TableInv, RegisterAccepted, Emplace, InUse, SetupInv, ListenInv
<1>6. CloseInv'
  BY DEF IndInv, TypeOK, CloseInv, RegisterAccepted
<1>7. OwnerKeepsSocket'
  <2>1. IdsStay
    BY DEF IdsStay, IndInv, TypeOK, RegisterAccepted, SetupInv, ListenInv
  <2>2. ASSUME NEW x \in Conn, Usable(x)', NobodyElseUses(conn[x].id, x)'
        PROVE  Found(x)' \/ (Usable(x) /\ (Found(x) => Found(x)'))
    BY <2>2 DEF Usable, Found, IndInv, TypeOK, RegisterAccepted, Emplace, InUse
  <2>3. ASSUME NEW x \in Listener, UsableListener(x)', NobodyElseUses(lsn[x].id, x)'
        PROVE  \/ FoundListener(x)'
               \/ UsableListener(x) /\ (FoundListener(x) => FoundListener(x)')
    BY Zenon, <2>3 DEF UsableListener, FoundListener, RegisterAccepted
  <2>4. QED
    BY Zenon, <2>1, <2>2, <2>3, OwnerNext
<1>8. QED
  BY Zenon, <1>1, <1>2, <1>3, <1>4, <1>5, <1>6, <1>7 DEF IndInv

LEMMA RestoreStep ==
    ASSUME NEW c \in Conn, IndInv, Restore(c)
    PROVE  IndInv'
<1> USE NoneAssumption
<1>1. TypeOK'
  BY ZenonT(30) DEF IndInv, TypeOK, Restore, Emplace, Idle, Task
<1>2. QueueInv'
  BY DEF IndInv, QueueInv, Restore
<1>3. SetupInv'
  BY Zenon DEF IndInv, SetupInv, Restore, Idle
<1>4. ListenInv'
  BY Zenon DEF IndInv, ListenInv, Restore, Idle
<1>5. TableInv'
  BY ZenonT(30) DEF IndInv, TypeOK, TableInv, Restore, Idle, Emplace
<1>6. CloseInv'
  BY Zenon DEF IndInv, CloseInv, Restore, Idle
<1>7. OwnerKeepsSocket'
  BY Zenon, RestoreOwner
<1>8. QED
  BY Zenon, <1>1, <1>2, <1>3, <1>4, <1>5, <1>6, <1>7 DEF IndInv

LEMMA SocketClosedStep ==
    ASSUME NEW c \in Conn, IndInv, SocketClosed(c)
    PROVE  IndInv'
<1> USE NoneAssumption
<1>1. TypeOK'
  BY Zenon DEF IndInv, TypeOK, SocketClosed, Idle, Task
<1>2. QueueInv'
  BY DEF IndInv, QueueInv, SocketClosed
<1>3. SetupInv'
  BY Zenon DEF IndInv, SetupInv, SocketClosed, Idle
<1>4. ListenInv'
  BY Zenon DEF IndInv, ListenInv, SocketClosed, Idle
<1>5. TableInv'
  BY Zenon DEF IndInv, TypeOK, TableInv, SocketClosed, Idle
<1>6. CloseInv'
  BY DEF IndInv, CloseInv, SocketClosed, Idle, SetupInv, ListenInv, TypeOK
<1>7. OwnerKeepsSocket'
  <2>1. IdsStay
    BY Zenon DEF IdsStay, IndInv, SocketClosed
  <2>2. ASSUME NEW x \in Conn, Usable(x)', NobodyElseUses(conn[x].id, x)'
        PROVE  Found(x)' \/ (Usable(x) /\ (Found(x) => Found(x)'))
    BY Zenon, <2>2 DEF Usable, Found, IndInv, SocketClosed, Idle
  <2>3. ASSUME NEW x \in Listener, UsableListener(x)', NobodyElseUses(lsn[x].id, x)'
        PROVE  \/ FoundListener(x)'
               \/ UsableListener(x) /\ (FoundListener(x) => FoundListener(x)')
    BY Zenon, <2>3 DEF UsableListener, FoundListener, SocketClosed
  <2>4. QED
    BY Zenon, <2>1, <2>2, <2>3, OwnerNext
<1>8. QED
  BY Zenon, <1>1, <1>2, <1>3, <1>4, <1>5, <1>6, <1>7 DEF IndInv

(* The read thread of c moves on: only the confirmed closes could mind.    *)
LEMMA ReaderGoesStep ==
    ASSUME NEW c \in Conn, NEW from, NEW to \in ReaderRuns \cup {"finished"},
           IndInv, ReaderGoes(c, from, to),
           c \in acked => to \in {"loop", "finished"},
           pushed' \in [Conn \cup Listener -> Nat]
    PROVE  IndInv'
<1>1. TypeOK'
  BY ZenonT(30) DEF IndInv, TypeOK, ReaderGoes
<1>2. QueueInv' /\ SetupInv' /\ ListenInv' /\ TableInv' /\ OwnerKeepsSocket'
  <2>1. UNCHANGED <<sockets, listeners, conn, lsn, accepted, worker>>
    BY Zenon DEF ReaderGoes
  <2>2. QueueInv' /\ TableInv'
    BY <2>1 DEF IndInv, QueueInv, TableInv
  <2>3. SetupInv'
    BY Zenon, <2>1 DEF IndInv, SetupInv
  <2>4. ListenInv'
    BY Zenon, <2>1 DEF IndInv, ListenInv
  <2>5. OwnerKeepsSocket'
    BY Zenon, <2>1 DEF IndInv, OwnerKeepsSocket, NobodyElseUses
  <2>6. QED
    BY Zenon, <2>2, <2>3, <2>4, <2>5
<1>3. CloseInv'
  BY Zenon DEF IndInv, TypeOK, CloseInv, ReaderGoes
<1>4. QED
  BY Zenon, <1>1, <1>2, <1>3 DEF IndInv

LEMMA ReaderStepInv ==
    ASSUME NEW c \in Conn, IndInv, ReaderStep(c)
    PROVE  IndInv'
<1>1. /\ pushed \in [Conn \cup Listener -> Nat]
      /\ [pushed EXCEPT ![c] = @ + 1] \in [Conn \cup Listener -> Nat]
  BY DEF IndInv, TypeOK
<1>2. c \in acked => conn[c].stopping /\ reader[c] \in {"none", "loop", "finished", "joined"}
  BY Zenon DEF IndInv, CloseInv
<1>3. CASE ReaderLoop(c)
  BY Zenon, <1>1, <1>2, <1>3, ReaderGoesStep DEF ReaderLoop
<1>4. CASE ReaderGetsData(c)
  <2>1. c \notin acked
    BY Zenon, <1>2, <1>4 DEF ReaderGetsData, ReaderGoes
  <2>2. QED
    BY Zenon, <1>1, <1>4, <2>1, ReaderGoesStep DEF ReaderGetsData
<1>5. CASE ReaderGetsEnd(c)
  <2>1. c \notin acked
    BY Zenon, <1>2, <1>5 DEF ReaderGetsEnd, ReaderGoes
  <2>2. QED
    BY Zenon, <1>1, <1>5, <2>1, ReaderGoesStep DEF ReaderGetsEnd
<1>6. ASSUME NEW sent \in BOOLEAN, ReaderSendsData(c, sent)
      PROVE  IndInv'
  BY Zenon, <1>1, <1>6, ReaderGoesStep DEF ReaderSendsData
<1>7. CASE ReaderSendsEnd(c)
  BY Zenon, <1>1, <1>7, ReaderGoesStep DEF ReaderSendsEnd
<1>8. QED
  BY Zenon, <1>3, <1>4, <1>5, <1>6, <1>7 DEF ReaderStep
-----------------------------------------------------------------------------
LEMMA InitIndInv == Init => IndInv
<1> SUFFICES ASSUME Init PROVE IndInv
  BY Zenon
<1> USE NoneAssumption, ModeAssumption
<1>1. TypeOK
  <2>1. conn \in [Conn -> SocketState]
    BY Zenon DEF Init, SocketState, Plain
  <2>2. lsn \in [Listener -> ListenerState]
    BY Zenon DEF Init, ListenerState
  <2>3. worker \in Task
    BY Zenon DEF Init, Task, Idle
  <2>4. accepted \in [Listener -> Seq(Conn)]
    BY DEF Init
  <2>5. sockets \in [Id -> Conn \cup {None}] /\ listeners \in [Id -> Listener \cup {None}]
    BY Zenon DEF Init
  <2>6. reader \in [Conn -> ReaderRuns \cup {"none", "finished", "joined"}]
    BY Zenon DEF Init
  <2>7. pushed \in [Conn \cup Listener -> Nat] /\ used \subseteq Id /\ acked \subseteq Conn \cup Listener
    BY Zenon DEF Init
  <2>8. QED
    BY Zenon, <2>1, <2>2, <2>3, <2>4, <2>5, <2>6, <2>7 DEF TypeOK
<1>2. QueueInv /\ TableInv /\ CloseInv
  BY DEF Init, QueueInv, TableInv, CloseInv, Idle
<1>3. SetupInv /\ ListenInv
  BY Zenon DEF Init, SetupInv, ListenInv, Idle
<1>4. OwnerKeepsSocket
  BY Zenon DEF Init, OwnerKeepsSocket
<1>5. QED
  BY Zenon, <1>1, <1>2, <1>3, <1>4 DEF IndInv

LEMMA NextIndInv == IndInv /\ [Next]_vars => IndInv'
<1> SUFFICES ASSUME IndInv, [Next]_vars PROVE IndInv'
  BY Zenon
<1>1. CASE HandleRequest
  BY Zenon, <1>1, RequestConnectStep, RequestListenStep, AcceptTCPStep, StreamStep,
     CloseListenerStep, CloseSocketStep DEF HandleRequest
<1>2. CASE EndStream
  BY Zenon, <1>2, StreamStep
<1>3. ASSUME NEW c \in Conn,
             ConnectFails(c) \/ RegisterConnected(c) \/ SetupStep(c) \/ CloseStep(c) \/ ReaderStep(c)
      PROVE  IndInv'
  <2>1. CASE SetupStep(c)
    BY Zenon, <2>1, ReplyRegisteredStep, ReplyRegisteredFailsStep, StartReaderStep, AdmitStep,
       QueueAcceptedStep, RegisterAcceptedStep DEF SetupStep
  <2>2. CASE CloseStep(c)
    BY Zenon, <2>2, RestoreStep, SocketClosedStep DEF CloseStep
  <2>3. QED
    BY Zenon, <1>3, <2>1, <2>2, ConnectFailsStep, RegisterConnectedStep, ReaderStepInv
<1>4. ASSUME NEW l \in Listener, ListenStep(l)
      PROVE  IndInv'
  BY Zenon, <1>4, StartListeningStep, ListenFailsStep, RegisterListenerStep, ReplyListeningStep,
     ReplyListeningFailsStep, ListenUndoneStep, ListenerClosedStep DEF ListenStep
<1>5. ASSUME NEW l \in Listener, NEW c \in Conn, AcceptConnection(l, c)
      PROVE  IndInv'
  BY Zenon, <1>5, AcceptConnectionStep
<1>6. CASE UNCHANGED vars
  <2>1. TypeOK' /\ QueueInv'
    BY <1>6 DEF vars, IndInv, TypeOK, QueueInv
  <2>2. SetupInv' /\ TableInv'
    BY Zenon, <1>6 DEF vars, IndInv, SetupInv, TableInv
  <2>3. ListenInv' /\ CloseInv'
    BY Zenon, <1>6 DEF vars, IndInv, ListenInv, CloseInv
  <2>4. OwnerKeepsSocket'
    BY Zenon, <1>6 DEF vars, IndInv, OwnerKeepsSocket, NobodyElseUses
  <2>5. QED
    BY Zenon, <2>1, <2>2, <2>3, <2>4 DEF IndInv
<1>7. QED
  BY Zenon, <1>1, <1>2, <1>3, <1>4, <1>5, <1>6 DEF Next

(* The inductive invariant holds in every reachable state.                *)
THEOREM Inductive == Spec => []IndInv
  BY InitIndInv, NextIndInv, PTL DEF Spec

(* Every connection that an accept thread took in waits in exactly one     *)
(* queue until AcceptTCP or the end of its listener takes it out, however  *)
(* the threads interleave (handleAcceptedConnection, stopManagedListener). *)
THEOREM AcceptedAreServed == Spec => []AcceptedNotStranded
<1>1. IndInv => AcceptedNotStranded
  BY Zenon DEF IndInv, QueueInv, AcceptedNotStranded
<1>2. QED
  BY <1>1, Inductive, PTL

(* A socket whose id nobody else asks for stays in the table until it is   *)
(* closed by a node that may (handleStreamClose, registerConnectedSocket). *)
THEOREM SocketsAreKept == Spec => []OwnerKeepsSocket
<1>1. IndInv => OwnerKeepsSocket
  BY Zenon DEF IndInv
<1>2. QED
  BY <1>1, Inductive, PTL

(* A step sends nothing about a socket or listener whose close was         *)
(* confirmed: only the read thread of a connection and the accept thread   *)
(* of a listener send unsolicited messages, and both have been stopped.    *)
LEMMA QuietStep ==
    ASSUME IndInv, Next, NEW x \in acked
    PROVE  pushed'[x] = pushed[x]
<1> USE NoneAssumption
<1>1. x \in Conn \cup Listener /\ pushed \in [Conn \cup Listener -> Nat]
  BY Zenon DEF IndInv, TypeOK
<1>2. ASSUME NEW c \in Conn, ReaderStep(c)
      PROVE  pushed'[x] = pushed[x]
  <2>1. CASE x = c
    <3>1. conn[c].stopping /\ reader[c] \in {"none", "loop", "finished", "joined"}
      BY Zenon, <2>1 DEF IndInv, CloseInv
    <3>2. QED
      BY Zenon, <1>2, <3>1 DEF ReaderStep, ReaderLoop, ReaderGetsData, ReaderGetsEnd, ReaderSendsData,
                        ReaderSendsEnd, ReaderGoes
  <2>2. CASE x # c
    BY Zenon, <1>1, <1>2, <2>2 DEF ReaderStep, ReaderLoop, ReaderGetsData, ReaderGetsEnd,
                            ReaderSendsData, ReaderSendsEnd
  <2>3. QED
    BY Zenon, <2>1, <2>2
<1>3. ASSUME NEW c \in Conn, ReplyRegistered(c)
      PROVE  pushed'[x] = pushed[x]
  <2>1. ASSUME conn[c].by \in Listener, conn[c].by = x
        PROVE  FALSE
    <3>1. lsn[x].stage = "gone"
      BY Zenon, <2>1 DEF IndInv, CloseInv
    <3>2. conn[c].stage = "registered"
      BY Zenon, <1>3 DEF ReplyRegistered
    <3>3. SetupInv
      BY Zenon DEF IndInv
    <3>4. lsn[x].stage \in {"listening", "listed", "undoing", "ready"}
      BY Zenon, <2>1, <3>2, <3>3 DEF SetupInv
    <3>5. QED
      BY Zenon, <3>1, <3>4
  <2>2. QED
    BY Zenon, <1>1, <1>3, <2>1 DEF ReplyRegistered, Announced
<1>4. ASSUME NEW c \in Conn, SetupStep(c), ~ReplyRegistered(c)
      PROVE  pushed' = pushed
  BY <1>4, ZenonT(30) DEF SetupStep, ReplyRegisteredFails, StartReader, Admit, QueueAccepted, RegisterAccepted
<1>5. ASSUME NEW c \in Conn, ConnectFails(c) \/ RegisterConnected(c) \/ CloseStep(c)
      PROVE  pushed' = pushed
  BY <1>5, ZenonT(30) DEF ConnectFails, RegisterConnected, CloseStep, Restore, SocketClosed
<1>6. ASSUME NEW l \in Listener, ListenStep(l) \/ \E c \in Conn : AcceptConnection(l, c)
      PROVE  pushed' = pushed
  BY <1>6, ZenonT(60) DEF ListenStep, StartListening, ListenFails, RegisterListener, ReplyListening,
              ReplyListeningFails, ListenUndone, ListenerClosed, AcceptConnection
<1>7. CASE HandleRequest \/ EndStream
  BY <1>7, ZenonT(60) DEF HandleRequest, RequestConnect, RequestListen, AcceptTCP, BeginStream,
              CloseListener, CloseSocket, EndStream
<1>8. QED
  BY Zenon, <1>2, <1>3, <1>4, <1>5, <1>6, <1>7 DEF Next

(* After a StreamClose is confirmed, no STREAM_DATA, no closing status and *)
(* no NEW_CONNECTION of that socket is sent any more (runAsyncReadLoop,    *)
(* stopManagedSocket, stopManagedListener).                                *)
THEOREM ClosedIsQuiet == Spec => QuietAfterClose
<1>1. IndInv /\ [Next]_vars => [\A x \in acked : pushed'[x] = pushed[x]]_vars
  BY Zenon, QuietStep
<1>2. QED
  BY <1>1, Inductive, PTL DEF Spec, QuietAfterClose
=============================================================================
