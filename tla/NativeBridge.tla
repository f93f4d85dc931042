---------------------------- MODULE NativeBridge ----------------------------
(***************************************************************************)
(* The native sockets of client/cpp/rsp_client.cpp: the client gives the   *)
(* application one end of a socket pair and carries what is written to the *)
(* other end to a remote stream and back.  One stream, and the threads that*)
(* work on it:                                                             *)
(*   opener    the thread that opens the stream and attaches the bridge: a *)
(*             caller of connectTCPSocket (connectSshdSocket, connectHttp- *)
(*             Socket, acceptTCPSocket), or the worker that listenTCPSocket*)
(*             starts                                                      *)
(*   handler   the thread of the input queue, in handleStreamReply         *)
(*   worker    runNativeStreamBridge                                       *)
(*   stopper   removeConnection, which stops the bridges to its node       *)
(* and the application, and the service that holds the remote socket.      *)
(* Every action is one section under stateMutex_, one send or one call on  *)
(* the socket pair.  The k-th payload of the application and the n-th data *)
(* of the service are the numbers k and n.                                 *)
(***************************************************************************)
EXTENDS Naturals, Sequences, FiniteSets

CONSTANT Plans      \* bounded runs: listening or not, the data the service
                    \* sends, the payloads the application writes, the
                    \* connections lost, and whether the bridges are stopped

ASSUME PlansAreBounded ==
    \A p \in Plans : p.data \in Nat /\ p.writes \in Nat /\ p.losses \in Nat

VARIABLES
    plan,
    opener, buffered,
    listener, lstop,                \* the accept loop of listenTCPSocket
    hand,                           \* the reply the handler has yet to write
    worker, payload,
    stopper,
    registered, queue, awaited, route,          \* the tables of the client
    stopping, remoteClosed, sock,               \* NativeStreamBridgeState
    appOpen, wrote, outbox, inbox,              \* the application's end
    link, losses, gaveUp,
    reqs, chan, svc, sent, svcGot               \* the remote side

bridgeVars == <<registered, queue, awaited, route, stopping, remoteClosed, sock>>
appVars    == <<appOpen, wrote, outbox, inbox>>
netVars    == <<link, losses, gaveUp, reqs, chan, svc, sent, svcGot>>
vars == <<plan, opener, buffered, listener, lstop, hand, worker, payload, stopper,
          bridgeVars, appVars, netVars>>

Nothing == [st |-> "none", n |-> 0]
Msg(st, n) == [st |-> st, n |-> n]

Init ==
    /\ plan \in Plans
    /\ opener = "idle" /\ buffered = <<>>
    /\ listener = IF plan.listens THEN "opening" ELSE "off"
    /\ lstop = FALSE
    /\ hand = Nothing /\ worker = "none" /\ payload = 0 /\ stopper = "idle"
    /\ registered = FALSE /\ queue = <<>> /\ awaited = FALSE /\ route = FALSE
    /\ stopping = FALSE /\ remoteClosed = FALSE /\ sock = "open"
    /\ appOpen = TRUE /\ wrote = 0 /\ outbox = <<>> /\ inbox = <<>>
    /\ link = "up" /\ losses = 0 /\ gaveUp = FALSE
    /\ reqs = <<>> /\ chan = <<>> /\ svc = "none" /\ sent = 0 /\ svcGot = <<>>
-----------------------------------------------------------------------------
\* The connection: a lost one takes what is under way with it.
Lose ==
    /\ link = "up" /\ losses < plan.losses /\ link' = "down" /\ losses' = losses + 1
    /\ reqs' = <<>> /\ chan' = <<>>
    /\ UNCHANGED <<opener, buffered, listener, lstop, hand, worker, payload, stopper, bridgeVars, appVars,
                   gaveUp, svc, sent, svcGot>>

Reconnect ==
    /\ link = "down" /\ link' = "up"
    /\ UNCHANGED <<opener, buffered, listener, lstop, hand, worker, payload, stopper, bridgeVars, appVars,
                   losses, gaveUp, reqs, chan, svc, sent, svcGot>>

Replies(m) == chan' = IF link = "up" THEN Append(chan, m) ELSE chan

\* The service: it opens the stream, pushes data, acknowledges payloads in
\* order and closes; a request for a stream that is not open fails.
ServiceAnswers ==
    /\ reqs # <<>> /\ reqs' = Tail(reqs)
    /\ LET q == Head(reqs) IN
       \/ q.st = "open" /\ svc' = "open" /\ Replies(Msg("opened", 0)) /\ UNCHANGED svcGot
       \/ q.st = "open" /\ svc' = svc /\ Replies(Msg("refused", 0)) /\ UNCHANGED svcGot
       \/ /\ q.st = "send" /\ svc = "open" /\ svcGot' = Append(svcGot, q.n)
          /\ Replies(Msg("success", 0)) /\ UNCHANGED svc
       \/ /\ q.st = "close" /\ svc = "open" /\ svc' = "closed"
          /\ Replies(Msg("success", 0)) /\ UNCHANGED svcGot
       \/ /\ q.st \in {"send", "close"} /\ svc = "closed"
          /\ Replies(Msg("error", 0)) /\ UNCHANGED <<svc, svcGot>>
    /\ UNCHANGED <<link, losses, gaveUp, sent>>

ServicePushes ==
    /\ svc = "open"
    /\ \/ /\ sent < plan.data /\ sent' = sent + 1
          /\ Replies(Msg("data", sent + 1)) /\ UNCHANGED svc
       \/ svc' = "closed" /\ Replies(Msg("closed", 0)) /\ UNCHANGED sent
    /\ UNCHANGED <<link, losses, gaveUp, reqs, svcGot>>

Service ==
    /\ ServiceAnswers \/ ServicePushes
    /\ UNCHANGED <<opener, buffered, listener, lstop, hand, worker, payload, stopper, bridgeVars, appVars>>

\* The application writes, or closes its end.
Application ==
    /\ appOpen /\ opener = "done"
    /\ \/ /\ wrote < plan.writes /\ sock = "open"
          /\ wrote' = wrote + 1 /\ outbox' = Append(outbox, wrote + 1) /\ UNCHANGED appOpen
       \/ appOpen' = FALSE /\ UNCHANGED <<wrote, outbox>>
    /\ UNCHANGED <<opener, buffered, listener, lstop, hand, worker, payload, stopper, bridgeVars, inbox,
                   netVars>>
-----------------------------------------------------------------------------
\* sendAllToSocket, and what its callers do when it fails.
WriteOrClose(n) ==
    IF sock = "open" /\ appOpen
    THEN inbox' = Append(inbox, n) /\ UNCHANGED <<sock, stopping>>
    ELSE sock' = "closed" /\ stopping' = TRUE /\ UNCHANGED inbox

\* With a remote and a local listener listenTCPSocket starts the accept loop.
listenTCPSocket ==
    /\ listener = "opening" /\ listener' \in {"accept", "done"}
    /\ UNCHANGED <<opener, buffered, lstop, hand, worker, payload, stopper, bridgeVars, appVars,
                   netVars>>

\* The request for the stream, of a call or of the accept loop.
RequestStream ==
    /\ opener = "idle" /\ link = "up"
    /\ opener' = "asked" /\ reqs' = Append(reqs, Msg("open", 0))
    /\ UNCHANGED <<buffered, listener, lstop, hand, worker, payload, stopper, bridgeVars, appVars,
                   link, losses, gaveUp, chan, svc, sent, svcGot>>

connectTCPSocket  == listener = "off" /\ RequestStream
connectSshdSocket == listener = "off" /\ RequestStream
connectHttpSocket == listener = "off" /\ RequestStream
acceptTCPSocket   == listener = "off" /\ RequestStream
acceptTCPEx       == listener = "accept" /\ ~lstop /\ RequestStream

\* The reply, or the timeout: without a stream both ends of the pair are
\* closed and the caller gets nothing.
OpenReturns ==
    /\ listener = "off"
    /\ \/ opener = "opened" /\ opener' = "attach" /\ route' = TRUE
          /\ UNCHANGED <<sock, appOpen, gaveUp>>
       \/ /\ opener \in {"asked", "refused"} /\ opener' = "failed"
          /\ sock' = "closed" /\ appOpen' = FALSE
          /\ gaveUp' = (gaveUp \/ opener = "asked")
          /\ UNCHANGED route
    /\ UNCHANGED <<buffered, listener, lstop, hand, worker, payload, stopper, registered, queue,
                   awaited, stopping, remoteClosed, wrote, outbox, inbox,
                   link, losses, reqs, chan, svc, sent, svcGot>>

\* The listener's accept: no answer ends the loop, a timeout of the service
\* repeats it, and a new stream is attached, or closed when the application's
\* listener cannot be reached.  A stopped listener drops the answer.
AcceptReturns ==
    /\ listener = "accept" /\ opener \in {"asked", "opened", "refused"}
    /\ route' = (route \/ opener = "opened")
    /\ gaveUp' = (gaveUp \/ opener = "asked")
    /\ \/ opener = "opened" /\ ~lstop /\ opener' = "attach" /\ UNCHANGED <<listener, reqs>>
       \/ /\ opener = "opened" /\ ~lstop /\ opener' = "failed" /\ listener' = "closing"
          /\ reqs' = IF link = "up" THEN Append(reqs, Msg("close", 0)) ELSE reqs
       \/ opener = "refused" /\ ~lstop /\ opener' = "idle" /\ UNCHANGED <<listener, reqs>>
       \/ /\ lstop \/ opener = "asked"
          /\ opener' = "failed" /\ listener' = "closing" /\ UNCHANGED reqs
    /\ UNCHANGED <<buffered, lstop, hand, worker, payload, stopper, registered, queue, awaited,
                   stopping, remoteClosed, sock, appVars, link, losses, chan, svc, sent, svcGot>>

AttachCopyingQueue ==
    /\ opener = "attach" /\ opener' = "fill"
    /\ registered' = TRUE /\ buffered' = queue /\ UNCHANGED queue
    /\ UNCHANGED <<listener, lstop, hand, worker, payload, stopper, awaited, route, stopping,
                   remoteClosed, sock, appVars, netVars>>

\* The bridge is registered and takes the replies queued so far; what follows
\* is outside the lock.
attachNativeStreamBridge ==
    /\ opener = "attach" /\ opener' = "fill"
    /\ registered' = TRUE /\ buffered' = queue /\ queue' = <<>>
    /\ UNCHANGED <<listener, lstop, hand, worker, payload, stopper, awaited, route, stopping, remoteClosed,
                   sock, appVars, netVars>>

FillBuffered ==
    /\ opener = "fill" /\ buffered # <<>>
    /\ IF Head(buffered).st = "data"
       THEN /\ WriteOrClose(Head(buffered).n)
            /\ buffered' = IF stopping' /\ ~stopping THEN <<>> ELSE Tail(buffered)
            /\ UNCHANGED remoteClosed
       ELSE /\ remoteClosed' = TRUE /\ stopping' = TRUE /\ sock' = "closed"
            /\ buffered' = <<>> /\ UNCHANGED inbox
    /\ UNCHANGED <<opener, listener, lstop, hand, worker, payload, stopper, registered, queue, awaited,
                   route, appOpen, wrote, outbox, netVars>>

startNativeStreamBridgeWorker ==
    /\ opener = "fill" /\ buffered = <<>> /\ opener' = "done"
    /\ worker' = "check"
    /\ UNCHANGED <<buffered, listener, lstop, hand, payload, stopper, bridgeVars, appVars, netVars>>

\* After the bridge is attached the listener goes on until it is stopped, an
\* accept is not answered, or the listening stream is closed; then it closes
\* the listening stream.
runNativeListenSocketBridge ==
    /\ \/ listener = "accept" /\ opener \in {"idle", "done"} /\ listener' = "closing"
       \/ listener = "closing" /\ listener' = "done"
    /\ UNCHANGED <<opener, buffered, lstop, hand, worker, payload, stopper, bridgeVars, appVars,
                   netVars>>
-----------------------------------------------------------------------------
DataWhenNobodyWaits(m) ==
    registered /\ m.st \in {"data", "closed", "error"} /\ ~awaited

\* handleStreamReply: whom a reply on the stream is for, under the lock.
ForBridge(m) ==
    registered /\ (m.st = "data" \/ (m.st \in {"closed", "error"} /\ ~awaited))

handleStreamReply ==
    /\ hand = Nothing /\ chan # <<>> /\ chan' = Tail(chan)
    /\ LET m == Head(chan) IN
       IF m.st \in {"opened", "refused"} /\ opener = "asked"
       THEN opener' = m.st /\ UNCHANGED <<hand, queue, awaited, stopping, remoteClosed>>
       ELSE IF ForBridge(m)
       THEN /\ hand' = m
            /\ stopping' = (stopping \/ m.st # "data")
            /\ remoteClosed' = (remoteClosed \/ m.st # "data")
            /\ UNCHANGED <<opener, queue, awaited>>
       ELSE /\ queue' = Append(queue, m) /\ awaited' = FALSE
            /\ UNCHANGED <<opener, hand, stopping, remoteClosed>>
    /\ UNCHANGED <<buffered, listener, lstop, worker, payload, stopper, registered, route, sock, appVars,
                   link, losses, gaveUp, reqs, svc, sent, svcGot>>

\* ... and the write or the close, after the lock.
HandlerWrites ==
    /\ hand # Nothing /\ hand' = Nothing
    /\ IF hand.st = "data" THEN WriteOrClose(hand.n)
                           ELSE sock' = "closed" /\ UNCHANGED <<inbox, stopping>>
    /\ UNCHANGED <<opener, buffered, listener, lstop, worker, payload, stopper, registered, queue, awaited,
                   route, remoteClosed, appOpen, wrote, outbox, netVars>>
-----------------------------------------------------------------------------
\* The worker.
Goes(to) == worker' = to

WorkerChecks ==
    /\ worker = "check" /\ Goes(IF stopping THEN "closing" ELSE "recv")
    /\ UNCHANGED <<payload, outbox, bridgeVars, reqs, gaveUp>>

WorkerIgnoresShutdown ==
    /\ worker = "recv"
    /\ \/ /\ sock = "open" /\ outbox # <<>>
          /\ payload' = Head(outbox) /\ outbox' = Tail(outbox) /\ Goes("mark")
       \/ ~appOpen /\ outbox = <<>> /\ Goes("closing") /\ UNCHANGED <<payload, outbox>>
    /\ UNCHANGED <<bridgeVars, reqs, gaveUp>>

\* recvSocket; closeSocket shuts the socket down, which ends a recv.
WorkerReceives ==
    /\ worker = "recv"
    /\ \/ /\ sock = "open" /\ outbox # <<>>
          /\ payload' = Head(outbox) /\ outbox' = Tail(outbox) /\ Goes("mark")
       \/ /\ sock = "closed" \/ (~appOpen /\ outbox = <<>>)
          /\ Goes("closing") /\ UNCHANGED <<payload, outbox>>
    /\ UNCHANGED <<bridgeVars, reqs, gaveUp>>

\* streamSend and streamClose mark the stream as awaited, send their request
\* and wait.  The mark stays when the send fails.
streamSend ==
    /\ \/ /\ worker = "mark" /\ route /\ awaited' = TRUE /\ Goes("send") /\ UNCHANGED reqs
       \/ worker = "mark" /\ ~route /\ Goes("closing") /\ UNCHANGED <<awaited, reqs>>
       \/ /\ worker = "send" /\ link = "up" /\ reqs' = Append(reqs, Msg("send", payload))
          /\ Goes("wait") /\ UNCHANGED awaited
       \/ worker = "send" /\ link = "down" /\ Goes("closing") /\ UNCHANGED <<awaited, reqs>>
    /\ UNCHANGED <<payload, outbox, registered, queue, route, stopping, remoteClosed, sock, gaveUp>>

WaitGoesOn ==
    /\ worker = "wait" /\ awaited' = FALSE
    /\ \/ queue # <<>> /\ queue' = Tail(queue) /\ UNCHANGED gaveUp
       \/ queue = <<>> /\ gaveUp' = TRUE /\ UNCHANGED queue
    /\ Goes("check")
    /\ UNCHANGED <<payload, outbox, registered, route, stopping, remoteClosed, sock, reqs>>

\* waitForStreamReply for a payload: anything but an acknowledgement, the
\* timeout included, ends the worker's loop.
SendReturns ==
    /\ worker = "wait" /\ awaited' = FALSE
    /\ \/ /\ queue # <<>> /\ queue' = Tail(queue)
          /\ Goes(IF Head(queue).st = "success" THEN "check" ELSE "closing")
          /\ UNCHANGED gaveUp
       \/ queue = <<>> /\ gaveUp' = TRUE /\ Goes("closing") /\ UNCHANGED queue
    /\ UNCHANGED <<payload, outbox, registered, route, stopping, remoteClosed, sock, reqs>>

WorkerCloses ==
    /\ worker = "closing" /\ stopping' = TRUE /\ sock' = "closed"
    /\ Goes(IF remoteClosed THEN "done" ELSE "cmark")
    /\ UNCHANGED <<payload, outbox, registered, queue, awaited, route, remoteClosed, reqs, gaveUp>>

streamClose ==
    /\ \/ /\ worker = "cmark" /\ route /\ awaited' = TRUE /\ Goes("csend")
          /\ UNCHANGED <<route, reqs>>
       \/ worker = "cmark" /\ ~route /\ Goes("done") /\ UNCHANGED <<awaited, route, reqs>>
       \/ /\ worker = "csend" /\ link = "up" /\ reqs' = Append(reqs, Msg("close", 0))
          /\ Goes("cwait") /\ UNCHANGED <<awaited, route>>
       \/ /\ worker = "csend" /\ link = "down" /\ route' = FALSE /\ Goes("done")
          /\ UNCHANGED <<awaited, reqs>>
    /\ UNCHANGED <<payload, outbox, registered, queue, stopping, remoteClosed, sock, gaveUp>>

\* Data and new connections are passed over; an error leaves the route.
CloseReturns ==
    /\ worker = "cwait" /\ awaited' = FALSE
    /\ \/ queue = <<>> /\ gaveUp' = TRUE /\ Goes("done") /\ route' = FALSE /\ UNCHANGED queue
       \/ /\ queue # <<>> /\ queue' = Tail(queue) /\ UNCHANGED gaveUp
          /\ LET st == Head(queue).st IN
             /\ Goes(IF st = "data" THEN "cwait" ELSE "done")
             /\ route' = (route /\ st \notin {"success", "closed"})
    /\ UNCHANGED <<payload, outbox, registered, stopping, remoteClosed, sock, reqs>>

runNativeStreamBridge ==
    /\ \/ WorkerChecks \/ WorkerReceives \/ streamSend \/ SendReturns
       \/ WorkerCloses \/ streamClose \/ CloseReturns
    /\ UNCHANGED <<opener, buffered, listener, lstop, hand, stopper, appOpen, wrote, inbox,
                   link, losses, chan, svc, sent, svcGot>>
-----------------------------------------------------------------------------
\* removeConnection: stop the listener to the node and join it, then unregister
\* the bridge, stop it and join its worker if it has one.  The destructor does
\* the same with every listener and bridge.
stopNativeListenBridgesForNode ==
    /\ stopper = "idle" /\ plan.stops /\ stopper' = "listen"
    /\ lstop' = (listener \notin {"off", "opening"})
    /\ UNCHANGED <<opener, buffered, listener, hand, worker, payload, bridgeVars, appVars, netVars>>

ListenersJoined == lstop => listener = "done"

StopBridge == remoteClosed' = TRUE /\ stopping' = TRUE /\ sock' = "closed"

\* The bridges whose stream has a route to the node.
stopNativeSocketBridgesForNode ==
    /\ \/ /\ stopper = "listen" /\ ListenersJoined
          /\ stopper' = IF registered /\ route THEN "stop" ELSE "done"
          /\ registered' = (registered /\ ~route)
          /\ UNCHANGED <<remoteClosed, stopping, sock>>
       \/ /\ stopper = "stop" /\ stopper' = "join"
          /\ StopBridge /\ UNCHANGED registered
       \/ /\ stopper = "join" /\ worker \in {"none", "done"} /\ stopper' = "done"
          /\ UNCHANGED <<registered, remoteClosed, stopping, sock>>
    /\ UNCHANGED <<opener, buffered, listener, lstop, hand, worker, payload, queue, awaited, route, appVars,
                   netVars>>
-----------------------------------------------------------------------------
Opener == OpenReturns \/ AcceptReturns \/ attachNativeStreamBridge \/ FillBuffered
              \/ startNativeStreamBridgeWorker
Handler == handleStreamReply \/ HandlerWrites
OpenStream == connectTCPSocket \/ connectSshdSocket \/ connectHttpSocket \/ acceptTCPSocket
                  \/ acceptTCPEx
Stopper == stopNativeSocketBridgesForNode

Next ==
    /\ \/ Lose \/ Reconnect \/ Service \/ Application
       \/ OpenStream \/ Opener \/ listenTCPSocket \/ runNativeListenSocketBridge
       \/ Handler \/ runNativeStreamBridge
       \/ stopNativeListenBridgesForNode \/ Stopper
    /\ UNCHANGED plan

\* The threads of the client run and their waits time out; nothing is assumed
\* of the application, the service or the connection.
Spec ==
    /\ Init /\ [][Next]_vars
    /\ WF_vars(Opener /\ UNCHANGED plan) /\ WF_vars(Handler /\ UNCHANGED plan)
    /\ WF_vars(runNativeStreamBridge /\ UNCHANGED plan)
    /\ WF_vars(runNativeListenSocketBridge /\ UNCHANGED plan)
    /\ WF_vars(Stopper /\ UNCHANGED plan)
-----------------------------------------------------------------------------
Message == [st : {"open", "opened", "refused", "send", "close", "success", "data", "closed",
                  "error", "none"}, n : 0 .. plan.data + plan.writes]

TypeOK ==
    /\ opener \in {"idle", "asked", "opened", "refused", "attach", "fill", "done", "failed"}
    /\ listener \in {"off", "opening", "accept", "closing", "done"}
    /\ worker \in {"none", "check", "recv", "mark", "send", "wait", "closing", "cmark", "csend",
                   "cwait", "done"}
    /\ stopper \in {"idle", "listen", "stop", "join", "done"}
    /\ hand \in Message /\ payload \in 0 .. plan.writes
    /\ \A q \in {buffered, queue, reqs, chan} : q \in Seq(Message)
    /\ {registered, awaited, route, stopping, remoteClosed, appOpen, gaveUp, lstop} \subseteq BOOLEAN
    /\ sock \in {"open", "closed"} /\ link \in {"up", "down"} /\ svc \in {"none", "open", "closed"}
    /\ wrote \in 0 .. plan.writes /\ sent \in 0 .. plan.data /\ losses \in 0 .. plan.losses
    /\ {outbox, svcGot} \subseteq Seq(1 .. plan.writes) /\ inbox \in Seq(1 .. plan.data)

\* The data on their way to the application: where they are, at which position
\* there, and their number.
DataIn(stage, q) ==
    {[at |-> stage, pos |-> i, n |-> q[i].n] : i \in {j \in DOMAIN q : q[j].st = "data"}}
Carried ==
    DataIn("network", chan) \cup DataIn("queue", queue) \cup DataIn("buffered", buffered)
        \cup DataIn("handler", <<hand>>)
        \cup {[at |-> "application", pos |-> i, n |-> inbox[i]] : i \in DOMAIN inbox}

\* The state keeps its types, and
\* as long as the bridge runs and the connection held, every data reply of the
\* service is in exactly one place on its way to the application: under way,
\* queued before the bridge was attached, in the hands of the attaching thread
\* or of the handler, or written to the socket pair; and there are no others.
\* In particular the worker that waits for an acknowledgement takes none of
\* them for it.
DataOnce ==
    /\ TypeOK
    /\ (losses = 0 /\ ~stopping /\ opener # "failed" /\ stopper = "idle") =>
         LET carried == Carried IN
         /\ {data.n : data \in carried} = 1 .. sent
         /\ \A one, other \in carried : one.n = other.n => one = other

Payloads(n) == [i \in 1 .. n |-> i]

\* The application's payloads reach the service through a pipe: in order,
\* none twice and none left out before a later one, whatever sends fail or
\* time out (the worker ends at the first payload that is not acknowledged).
Up == INSTANCE Pipe WITH Item <- UNION {1 .. p.writes : p \in Plans},
                         written <- Payloads(wrote), delivered <- svcGot
PayloadsInOrder == Up!Spec

\* Data of the service reach the application although the worker waits for an
\* acknowledgement that the service sends later or never ("STREAM_DATA must
\* always reach the bridge immediately even while we are awaiting a SUCCESS
\* reply"), unless someone closes the stream or a wait times out.  And when the
\* service closes the stream, the application's socket is closed, whether the
\* close finds the worker waiting for a reply, the bridge idle, or the bridge
\* not yet attached.
DataAndCloseArrive ==
    /\ \A n \in 1 .. 2 :
         sent >= n ~> \/ \E i \in DOMAIN inbox : inbox[i] = n
                      \/ losses > 0 \/ ~appOpen \/ svc = "closed" \/ gaveUp \/ stopper # "idle"
                      \/ opener = "failed"
    /\ (svc = "closed" /\ losses = 0 /\ opener = "done") ~> (sock = "closed" \/ losses > 0)

\* Stopping the bridges ends: the listener and the worker that are joined run
\* to their ends.
StopEnds == stopper # "idle" ~> stopper = "done"
=============================================================================
