----------------------------- MODULE BsdSockets -----------------------------
(***************************************************************************)
(* The socket tables of the BSD sockets resource service and the threads   *)
(* that work on them (src/resource_service/bsd_sockets):                   *)
(*   - the node's input worker, which handles one request at a time and    *)
(*     may wait in a handler;                                              *)
(*   - the connect workers, one per ConnectTCPRequest in progress;         *)
(*   - the accept thread of every listener;                                *)
(*   - the read thread of every connection with async_data.                *)
(*                                                                         *)
(* A Conn is a TCP connection and the ManagedSocketState made for it, a    *)
(* Listener a ManagedListenerState; each is used once.  A request that is  *)
(* only answered with an error changes nothing and has no action.          *)
(* AcceptTCP is taken when a connection is there: until then it waits in   *)
(* the input worker, for a bounded time, and has no effect.                *)
(* Left out: the destructor, and payloads.                                 *)
(***************************************************************************)
EXTENDS Naturals, Sequences, FiniteSets

CONSTANTS Node,         \* the requesting nodes
          Id,           \* stream ids
          Conn,         \* TCP connections
          Listener,     \* listening sockets
          None,         \* an absent table entry
          SocketModes,  \* the (async_data, share_socket) of the requests
          ListenModes,  \* the flags of the listen requests
          MaxPushed     \* bound on the data messages of one connection

ASSUME NoneAssumption ==
    /\ None \notin Conn \cup Listener \cup Node \cup Id
    /\ Conn \cap Listener = {}
    /\ {"connect", "input"} \cap Listener = {}
ASSUME ModeAssumption ==
    /\ SocketModes \subseteq [async : BOOLEAN, share : BOOLEAN]
    /\ ListenModes \subseteq [asyncAccept : BOOLEAN, share : BOOLEAN,
                              child : [async : BOOLEAN, share : BOOLEAN]]
    /\ MaxPushed \in Nat

VARIABLES sockets,    \* managedSockets_
          listeners,  \* managedListeningSockets_
          conn,       \* conn[c]: ManagedSocketState and its set-up
          lsn,        \* lsn[l]: ManagedListenerState and its set-up
          accepted,   \* accepted[l]: acceptedConnections of l
          reader,     \* reader[c]: readThread of c
          worker,     \* what the input worker is doing
          used,       \* stream ids used so far
          pushed,     \* pushed[x]: unsolicited messages sent about x
          acked       \* connections and listeners whose close was confirmed

vars == <<sockets, listeners, conn, lsn, accepted, reader, worker, used, pushed,
          acked>>

Plain == [async |-> FALSE, share |-> FALSE]
Idle  == [op |-> "idle", obj |-> None]

(* A connection being set up belongs to a connect worker, to the input     *)
(* worker (AcceptTCP) or to the accept thread of a listener.               *)
SetupStages == {"arriving", "admitted", "registered", "replied"}
ReaderRuns  == {"loop", "recv", "data", "ended"}

(* ManagedSocketState and ManagedListenerState, each with the stage of its *)
(* set-up, and what the input worker may be doing.                         *)
SocketState ==
    [stage : SetupStages \cup {"unused", "connecting", "queued", "ready", "gone"},
     id : Id \cup {None}, owner : Node \cup {None},
     mode : [async : BOOLEAN, share : BOOLEAN],
     by : Listener \cup {"connect", "input"},
     open : BOOLEAN, stopping : BOOLEAN]

ListenerState ==
    [stage : {"unused", "opening", "listening", "listed", "undoing", "ready", "gone"},
     id : Id \cup {None}, owner : Node \cup {None},
     mode : ListenModes \cup {None},
     accepting : BOOLEAN, stopping : BOOLEAN]

Task == [op : {"idle", "send", "recv", "accept", "listen", "restore",
               "joinSocket", "joinListener"},
         obj : Conn \cup Listener \cup {None}]

TypeOK ==
    /\ sockets \in [Id -> Conn \cup {None}]
    /\ listeners \in [Id -> Listener \cup {None}]
    /\ conn \in [Conn -> SocketState]
    /\ lsn \in [Listener -> ListenerState]
    /\ accepted \in [Listener -> Seq(Conn)]
    /\ reader \in [Conn -> ReaderRuns \cup {"none", "finished", "joined"}]
    /\ worker \in Task
    /\ used \subseteq Id
    /\ pushed \in [Conn \cup Listener -> Nat]
    /\ acked \subseteq Conn \cup Listener

Init ==
    /\ sockets = [i \in Id |-> None] /\ listeners = [i \in Id |-> None]
    /\ conn = [c \in Conn |-> [stage |-> "unused", id |-> None, owner |-> None,
                               mode |-> Plain, by |-> "connect",
                               open |-> FALSE, stopping |-> FALSE]]
    /\ lsn = [l \in Listener |-> [stage |-> "unused", id |-> None, owner |-> None,
                                  mode |-> None,
                                  accepting |-> FALSE, stopping |-> FALSE]]
    /\ accepted = [l \in Listener |-> <<>>]
    /\ reader = [c \in Conn |-> "none"]
    /\ worker = Idle
    /\ used = {}
    /\ pushed = [x \in Conn \cup Listener |-> 0]
    /\ acked = {}
-----------------------------------------------------------------------------
(* The only handler that waits for another thread while it holds           *)
(* socketsMutex_ is the one that undoes a listener after a failed reply.   *)
MutexFree == \A l \in Listener : lsn[l].stage # "undoing"

InUse(i) == sockets[i] # None \/ listeners[i] # None

(* validateSocketAccess and validateListeningSocketAccess.                 *)
Allowed(n, state) == state.mode.share \/ state.owner = n

StoppedWithoutClose(state) == [state EXCEPT !.stopping = TRUE]

Stopped(state) == [state EXCEPT !.open = FALSE, !.stopping = TRUE]
Erase(table, i) == [table EXCEPT ![i] = None]
Emplace(table, i, x) == IF table[i] = None THEN [table EXCEPT ![i] = x] ELSE table
-----------------------------------------------------------------------------
(* ConnectTCPRequest goes to the connect queue.                            *)
RequestConnect(n, i, m, c) ==
    /\ worker = Idle
    /\ ~(m.share /\ m.async)
    /\ conn[c].stage = "unused"
    /\ conn' = [conn EXCEPT ![c] =
                 [@ EXCEPT !.stage = "connecting", !.id = i, !.owner = n, !.mode = m]]
    /\ used' = used \cup {i}
    /\ UNCHANGED <<sockets, listeners, lsn, accepted, reader, worker, pushed, acked>>

(* createTCPConnection gives up after its attempts.                        *)
ConnectFails(c) ==
    /\ conn[c].stage = "connecting"
    /\ conn' = [conn EXCEPT ![c] = [@ EXCEPT !.stage = "gone"]]
    /\ UNCHANGED <<sockets, listeners, lsn, accepted, reader, worker, used, pushed,
                   acked>>

(* registerConnectedSocket enters the socket unless its id is taken, and   *)
(* does not look whether it was.                                           *)
RegisterConnected(c) ==
    /\ conn[c].stage = "connecting" /\ MutexFree
    /\ sockets' = Emplace(sockets, conn[c].id, c)
    /\ conn' = [conn EXCEPT ![c] = [@ EXCEPT !.stage = "registered",
                                                !.open = TRUE]]
    /\ UNCHANGED <<listeners, lsn, accepted, reader, worker, used, pushed, acked>>

(* A child that an accept thread registers is announced by NEW_CONNECTION. *)
Announced(c) ==
    IF conn[c].by \in Listener THEN [pushed EXCEPT ![conn[c].by] = @ + 1] ELSE pushed

(* The reply about a registered socket, for all three ways to get one.     *)
ReplyRegistered(c) ==
    /\ conn[c].stage = "registered"
    /\ conn' = [conn EXCEPT ![c] = [@ EXCEPT !.stage = "replied"]]
    /\ pushed' = Announced(c)
    /\ UNCHANGED <<sockets, listeners, lsn, accepted, reader, worker, used, acked>>

(* The input worker is done with the AcceptTCP that registered c.          *)
AfterSetup(c) == IF conn[c].by = "input" THEN Idle ELSE worker

(* send failed: erase by id and stop the socket.                           *)
ReplyRegisteredFails(c) ==
    /\ conn[c].stage = "registered" /\ MutexFree
    /\ sockets' = Erase(sockets, conn[c].id)
    /\ conn' = [conn EXCEPT ![c] = [Stopped(@) EXCEPT !.stage = "gone"]]
    /\ worker' = AfterSetup(c)
    /\ UNCHANGED <<listeners, lsn, accepted, reader, used, pushed, acked>>

(* The read thread starts after the reply.                                 *)
StartReader(c) ==
    /\ conn[c].stage = "replied"
    /\ conn' = [conn EXCEPT ![c] = [@ EXCEPT !.stage = "ready"]]
    /\ reader' = IF conn[c].mode.async THEN [reader EXCEPT ![c] = "loop"] ELSE reader
    /\ worker' = AfterSetup(c)
    /\ UNCHANGED <<sockets, listeners, lsn, accepted, used, pushed, acked>>
-----------------------------------------------------------------------------
(* handleListenTCPRequest, in the input worker: look the id up, start to   *)
(* listen, enter the listener, reply.  The lock is released in between.    *)
RequestListen(n, i, m, l) ==
    /\ worker = Idle
    /\ m.asyncAccept \/ m.child = Plain
    /\ ~InUse(i)
    /\ lsn[l].stage = "unused"
    /\ lsn' = [lsn EXCEPT ![l] =
                 [@ EXCEPT !.stage = "opening", !.id = i, !.owner = n, !.mode = m]]
    /\ worker' = [op |-> "listen", obj |-> l]
    /\ used' = used \cup {i}
    /\ UNCHANGED <<sockets, listeners, conn, accepted, reader, pushed, acked>>

ListenFails(l) ==
    /\ lsn[l].stage = "opening"
    /\ lsn' = [lsn EXCEPT ![l] = [@ EXCEPT !.stage = "gone"]]
    /\ worker' = Idle
    /\ UNCHANGED <<sockets, listeners, conn, accepted, reader, used, pushed, acked>>

StartListening(l) ==
    /\ lsn[l].stage = "opening"
    /\ lsn' = [lsn EXCEPT ![l] = [@ EXCEPT !.stage = "listening",
                                           !.accepting = TRUE]]
    /\ UNCHANGED <<sockets, listeners, conn, accepted, reader, worker, used, pushed,
                   acked>>

RegisterListener(l) ==
    /\ lsn[l].stage = "listening" /\ MutexFree
    /\ listeners' = Emplace(listeners, lsn[l].id, l)
    /\ lsn' = [lsn EXCEPT ![l] = [@ EXCEPT !.stage = "listed"]]
    /\ UNCHANGED <<sockets, conn, accepted, reader, worker, used, pushed, acked>>

ReplyListening(l) ==
    /\ lsn[l].stage = "listed"
    /\ lsn' = [lsn EXCEPT ![l] = [@ EXCEPT !.stage = "ready"]]
    /\ worker' = Idle
    /\ UNCHANGED <<sockets, listeners, conn, accepted, reader, used, pushed, acked>>

(* stopManagedListener, first half: no more connections are accepted.      *)
Silenced(state) == [state EXCEPT !.accepting = FALSE, !.stopping = TRUE]

(* send failed: erase and stop the listener with socketsMutex_ held.       *)
ReplyListeningFails(l) ==
    /\ lsn[l].stage = "listed" /\ MutexFree
    /\ listeners' = Erase(listeners, lsn[l].id)
    /\ lsn' = [lsn EXCEPT ![l] = [Silenced(@) EXCEPT !.stage = "undoing"]]
    /\ UNCHANGED <<sockets, conn, accepted, reader, worker, used, pushed, acked>>

(* stopManagedListener, second half: TcpTransport::stop joins the accept   *)
(* thread, then the connections waiting for AcceptTCP are closed.          *)
AcceptThreadNotAwaited(l) == FALSE

AcceptThreadBusy(l) ==
    \E c \in Conn : conn[c].by = l /\ conn[c].stage \in SetupStages

CloseAccepted(l) ==
    /\ accepted' = [accepted EXCEPT ![l] = <<>>]
    /\ conn' = [c \in Conn |->
                  IF \E k \in DOMAIN accepted[l] : accepted[l][k] = c
                  THEN [conn[c] EXCEPT !.stage = "gone", !.open = FALSE]
                  ELSE conn[c]]

ListenUndone(l) ==
    /\ lsn[l].stage = "undoing" /\ ~AcceptThreadBusy(l)
    /\ CloseAccepted(l)
    /\ lsn' = [lsn EXCEPT ![l] = [@ EXCEPT !.stage = "gone"]]
    /\ worker' = Idle
    /\ UNCHANGED <<sockets, listeners, reader, used, pushed, acked>>
-----------------------------------------------------------------------------
(* The accept thread takes a connection, and handleAcceptedConnection      *)
(* looks at stopping once.                                                 *)
AcceptConnection(l, c) ==
    /\ lsn[l].accepting /\ ~AcceptThreadBusy(l)
    /\ conn[c].stage = "unused"
    /\ conn' = [conn EXCEPT ![c] = [@ EXCEPT !.stage = "arriving", !.by = l,
                                             !.open = TRUE]]
    /\ UNCHANGED <<sockets, listeners, lsn, accepted, reader, worker, used, pushed,
                   acked>>

Admit(c) ==
    /\ conn[c].stage = "arriving"
    /\ conn' = [conn EXCEPT ![c] =
                  IF lsn[conn[c].by].stopping
                  THEN [@ EXCEPT !.stage = "gone", !.open = FALSE]
                  ELSE [@ EXCEPT !.stage = "admitted"]]
    /\ UNCHANGED <<sockets, listeners, lsn, accepted, reader, worker, used, pushed,
                   acked>>

QueueAccepted(c) ==
    /\ conn[c].stage = "admitted" /\ ~lsn[conn[c].by].mode.asyncAccept
    /\ accepted' = [accepted EXCEPT ![conn[c].by] = Append(@, c)]
    /\ conn' = [conn EXCEPT ![c] = [@ EXCEPT !.stage = "queued"]]
    /\ UNCHANGED <<sockets, listeners, lsn, reader, worker, used, pushed, acked>>

(* An asynchronous child gets a random id that is in neither table.        *)
RegisterAccepted(c, i) ==
    LET l == conn[c].by
    IN  /\ conn[c].stage = "admitted" /\ lsn[l].mode.asyncAccept
        /\ MutexFree
        /\ i \notin used /\ ~InUse(i)
        /\ sockets' = Emplace(sockets, i, c)
        /\ conn' = [conn EXCEPT ![c] =
                      [@ EXCEPT !.stage = "registered", !.id = i,
                                !.owner = lsn[l].owner, !.mode = lsn[l].mode.child]]
        /\ used' = used \cup {i}
        /\ UNCHANGED <<listeners, lsn, accepted, reader, worker, pushed, acked>>

(* handleAcceptTCP with a connection waiting.                              *)
AcceptTCP(n, l, i, m) ==
    /\ worker = Idle
    /\ \E j \in Id : listeners[j] = l
    /\ Allowed(n, lsn[l]) /\ ~lsn[l].mode.asyncAccept
    /\ accepted[l] # <<>>
    /\ LET c == Head(accepted[l])
       IN  IF InUse(i)
           THEN /\ conn' = [conn EXCEPT ![c] = [@ EXCEPT !.stage = "gone",
                                                         !.open = FALSE]]
                /\ UNCHANGED <<sockets, worker>>
           ELSE /\ sockets' = Emplace(sockets, i, c)
                /\ conn' = [conn EXCEPT ![c] =
                              [@ EXCEPT !.stage = "registered", !.id = i,
                                        !.owner = n, !.mode = m, !.by = "input"]]
                /\ worker' = [op |-> "accept", obj |-> c]
    /\ accepted' = [accepted EXCEPT ![l] = Tail(@)]
    /\ used' = used \cup {i}
    /\ UNCHANGED <<listeners, lsn, reader, pushed, acked>>
-----------------------------------------------------------------------------
(* handleStreamSend and handleStreamRecv: a synchronous call on the        *)
(* connection, during which the input worker handles nothing else.         *)
BeginStream(n, i, op) ==
    /\ worker = Idle
    /\ sockets[i] # None
    /\ Allowed(n, conn[sockets[i]])
    /\ op = "recv" => ~conn[sockets[i]].mode.async
    /\ worker' = [op |-> op, obj |-> sockets[i]]
    /\ UNCHANGED <<sockets, listeners, conn, lsn, accepted, reader, used, pushed,
                   acked>>

EndStream ==
    /\ worker.op \in {"send", "recv"}
    /\ worker' = Idle
    /\ UNCHANGED <<sockets, listeners, conn, lsn, accepted, reader, used, pushed,
                   acked>>

(* handleStreamClose of a listener.  A refused close erases the entry and  *)
(* puts it back, which no other thread can see.                            *)
CloseListener(n, i) ==
    LET l == listeners[i]
    IN  /\ worker = Idle
        /\ l # None /\ Allowed(n, lsn[l])
        /\ listeners' = Erase(listeners, i)
        /\ lsn' = [lsn EXCEPT ![l] = Silenced(@)]
        /\ worker' = [op |-> "joinListener", obj |-> l]
        /\ UNCHANGED <<sockets, conn, accepted, reader, used, pushed, acked>>

ListenerClosed(l) ==
    /\ worker = [op |-> "joinListener", obj |-> l] /\ ~AcceptThreadBusy(l)
    /\ CloseAccepted(l)
    /\ lsn' = [lsn EXCEPT ![l] = [@ EXCEPT !.stage = "gone"]]
    /\ worker' = Idle
    /\ acked' = acked \cup {l}
    /\ UNCHANGED <<sockets, listeners, reader, used, pushed>>

(* handleStreamClose of a connected socket erases the entry first, and     *)
(* puts it back in a later critical section when the sender may not close. *)
CloseSocket(n, i) ==
    LET c == sockets[i]
    IN  /\ worker = Idle
        /\ listeners[i] = None /\ c # None
        /\ sockets' = Erase(sockets, i)
        /\ IF Allowed(n, conn[c])
           THEN /\ conn' = [conn EXCEPT ![c] = Stopped(@)]
                /\ worker' = [op |-> "joinSocket", obj |-> c]
           ELSE /\ worker' = [op |-> "restore", obj |-> c]
                /\ UNCHANGED conn
        /\ UNCHANGED <<listeners, lsn, accepted, reader, used, pushed, acked>>

RestoreForgets(c) ==
    /\ worker = [op |-> "restore", obj |-> c]
    /\ worker' = Idle
    /\ UNCHANGED <<sockets, listeners, conn, lsn, accepted, reader, used, pushed,
                   acked>>

Restore(c) ==
    /\ worker = [op |-> "restore", obj |-> c]
    /\ sockets' = Emplace(sockets, conn[c].id, c)
    /\ worker' = Idle
    /\ UNCHANGED <<listeners, conn, lsn, accepted, reader, used, pushed, acked>>

(* stopManagedSocket joins the read thread if there is one by now.         *)
SocketClosedWithoutJoin(c) ==
    /\ worker = [op |-> "joinSocket", obj |-> c]
    /\ worker' = Idle
    /\ acked' = acked \cup {c}
    /\ UNCHANGED <<sockets, listeners, conn, lsn, accepted, reader, used, pushed>>

SocketClosed(c) ==
    /\ worker = [op |-> "joinSocket", obj |-> c]
    /\ reader[c] \notin ReaderRuns
    /\ reader' = IF reader[c] = "finished" THEN [reader EXCEPT ![c] = "joined"]
                 ELSE reader
    /\ worker' = Idle
    /\ acked' = acked \cup {c}
    /\ UNCHANGED <<sockets, listeners, conn, lsn, accepted, used, pushed>>
-----------------------------------------------------------------------------
(* runAsyncReadLoop.                                                       *)
ReaderGoes(c, from, to) ==
    /\ reader[c] = from
    /\ reader' = [reader EXCEPT ![c] = to]
    /\ UNCHANGED <<sockets, listeners, conn, lsn, accepted, worker, used, acked>>

ReaderLoop(c) ==
    /\ ReaderGoes(c, "loop", IF conn[c].stopping THEN "finished" ELSE "recv")
    /\ UNCHANGED pushed

(* recv returns bytes of an open connection, or 0 or -1.                   *)
ReaderGetsData(c) ==
    /\ conn[c].open /\ pushed[c] < MaxPushed
    /\ ReaderGoes(c, "recv", "data")
    /\ UNCHANGED pushed

ReaderGetsEnd(c) == ReaderGoes(c, "recv", "ended") /\ UNCHANGED pushed

(* STREAM_DATA is sent without another look at stopping; a failed send     *)
(* ends the loop.                                                          *)
ReaderSendsData(c, sent) ==
    /\ ReaderGoes(c, "data", IF sent THEN "loop" ELSE "finished")
    /\ pushed' = IF sent THEN [pushed EXCEPT ![c] = @ + 1] ELSE pushed

(* STREAM_CLOSED or STREAM_ERROR, unless the socket is being stopped.      *)
ReaderSendsEnd(c) ==
    /\ ReaderGoes(c, "ended", "finished")
    /\ pushed' = IF conn[c].stopping THEN pushed ELSE [pushed EXCEPT ![c] = @ + 1]

(* Nobody refers to the ManagedSocketState of c any more.                  *)
Released(c) ==
    /\ conn[c].stage \in {"ready", "gone"}
    /\ \A i \in Id : sockets[i] # c
    /\ worker.obj # c
    /\ reader[c] \notin ReaderRuns

(* The destructor of a std::thread that was never joined ends the process. *)
Aborted == \E c \in Conn : Released(c) /\ reader[c] = "finished"

ReaderStep(c) ==
    \/ ReaderLoop(c)
    \/ ReaderGetsData(c)
    \/ ReaderGetsEnd(c)
    \/ \E sent \in BOOLEAN : ReaderSendsData(c, sent)
    \/ ReaderSendsEnd(c)

SetupStep(c) ==
    \/ ReplyRegistered(c)
    \/ ReplyRegisteredFails(c)
    \/ StartReader(c)
    \/ Admit(c)
    \/ QueueAccepted(c)
    \/ \E i \in Id : RegisterAccepted(c, i)

ListenStep(l) ==
    \/ StartListening(l)
    \/ ListenFails(l)
    \/ RegisterListener(l)
    \/ ReplyListening(l)
    \/ ReplyListeningFails(l)
    \/ ListenUndone(l)
    \/ ListenerClosed(l)

CloseStep(c) == Restore(c) \/ SocketClosed(c)

HandleRequest ==
    \/ \E n \in Node, i \in Id, m \in SocketModes, c \in Conn :
         RequestConnect(n, i, m, c)
    \/ \E n \in Node, i \in Id, m \in ListenModes, l \in Listener :
         RequestListen(n, i, m, l)
    \/ \E n \in Node, l \in Listener, i \in Id, m \in SocketModes :
         AcceptTCP(n, l, i, m)
    \/ \E n \in Node, i \in Id, op \in {"send", "recv"} : BeginStream(n, i, op)
    \/ \E n \in Node, i \in Id : CloseListener(n, i)
    \/ \E n \in Node, i \in Id : CloseSocket(n, i)

Next ==
    /\ ~Aborted
    /\ \/ HandleRequest
       \/ EndStream
       \/ \E c \in Conn : \/ ConnectFails(c)
                          \/ RegisterConnected(c)
                          \/ SetupStep(c)
                          \/ CloseStep(c)
                          \/ ReaderStep(c)
       \/ \E l \in Listener : \/ ListenStep(l)
                              \/ \E c \in Conn : AcceptConnection(l, c)

(* Every thread that can go on does.  Nothing makes a request arrive, or   *)
(* the remote end of a connection send or close.                           *)
Fairness ==
    /\ \A c \in Conn : /\ WF_vars(~Aborted /\ SetupStep(c))
                       /\ WF_vars(~Aborted /\ CloseStep(c))
                       /\ WF_vars(/\ ~Aborted
                                  /\ reader[c] = "recv" => ~conn[c].open
                                  /\ ReaderStep(c))
    /\ \A l \in Listener : WF_vars(~Aborted /\ ListenStep(l))

Spec == Init /\ [][Next]_vars /\ Fairness
-----------------------------------------------------------------------------
(* A node that got a socket keeps it: until a node that may close it does, *)
(* its id leads to it, or the handler of somebody else's refused close is  *)
(* about to put the entry back.  This needs an id that nobody else asks    *)
(* for: registerConnectedSocket does not check for a taken id, and erases  *)
(* by id.                                                                  *)
NobodyElseUses(i, x) ==
    /\ \A c \in Conn : conn[c].id = i => c = x
    /\ \A l \in Listener : lsn[l].id = i => l = x

OwnerKeepsSocket ==
    /\ \A c \in Conn :
         (/\ conn[c].stage \in {"registered", "replied", "ready"}
          /\ ~conn[c].stopping
          /\ NobodyElseUses(conn[c].id, c))
           => \/ sockets[conn[c].id] = c
              \/ worker = [op |-> "restore", obj |-> c]
    /\ \A l \in Listener :
         (/\ lsn[l].stage \in {"listed", "ready"}
          /\ ~lsn[l].stopping
          /\ NobodyElseUses(lsn[l].id, l))
           => listeners[lsn[l].id] = l

(* The tables keep their types, and a                                      *)
(* connection that was accepted and not yet handed out waits in exactly    *)
(* the queue of its listener, and a listener that is gone has none left    *)
(* open: stopManagedListener joins the accept thread before it empties the *)
(* queue.                                                                  *)
AcceptedNotStranded ==
    /\ TypeOK
    /\ \A l \in Listener : \A k \in DOMAIN accepted[l] :
         /\ conn[accepted[l][k]].stage = "queued"
         /\ conn[accepted[l][k]].by = l
         /\ \A j \in DOMAIN accepted[l] : accepted[l][j] = accepted[l][k] => j = k
    /\ \A c \in Conn : conn[c].stage = "queued" =>
         \E k \in DOMAIN accepted[conn[c].by] : accepted[conn[c].by][k] = c
    /\ \A l \in Listener : lsn[l].stage = "gone" => accepted[l] = <<>>

(* After StreamClose was answered with SUCCESS, no STREAM_DATA, no closing *)
(* status and no NEW_CONNECTION of that socket is sent, even if the close  *)
(* overtook the start of the read thread.                                  *)
QuietAfterClose ==
    [][\A x \in acked : pushed'[x] = pushed[x]]_vars

(* handleStreamClose returns: the threads it joins do not wait for it, nor *)
(* for the remote end.                                                     *)
CloseEnds ==
    worker.op \in {"restore", "joinSocket", "joinListener"}
      ~> worker = Idle \/ Aborted
=============================================================================
