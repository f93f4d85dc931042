----------------------------- MODULE CppClient -----------------------------
(***************************************************************************)
(* client/cpp/rsp_client.cpp.  Calls run on threads of the application and *)
(* every action is one section under stateMutex_, or a send.  A waiting    *)
(* call sleeps on stateChanged_ and looks at the table again: a reply is   *)
(* left in the table (sig of the entry, results of a slot, the queue of a  *)
(* stream), and the end of a wait and the removal of the entry are one     *)
(* section.  awaited[s] is <<>> or the call that put stream s into         *)
(* awaitedStreamReplies_, a set that any call on s removes s from; soon is *)
(* pendingStreamResults_, which the application polls.                     *)
(***************************************************************************)
EXTENDS ClientCalls

\* The connection itself is the subject of ClientReconnect.
connectToResourceManager ==
    /\ link = "closed" /\ link' = "up"
    /\ UNCHANGED <<heard, stopping, auto, task, oldLoop, losses>>

ConnectionLost ==
    /\ \/ link = "up" /\ losses < plan.losses /\ link' = "lost" /\ losses' = losses + 1
       \/ link = "lost" /\ link' = "closed" /\ UNCHANGED losses
    /\ UNCHANGED <<heard, stopping, auto, task, oldLoop>>
-----------------------------------------------------------------------------
\* The entry under the fresh nonce or stream id, before the request is sent.
Keyed(c, k) ==
    /\ Calls(c, k)
    /\ on' = [on EXCEPT ![c] = c]
    /\ pend' = pend \cup {c}
    /\ pc' = [pc EXCEPT ![c] = "sending"]
    /\ UNCHANGED <<got, awaited, slot, results>>

ping(c)          == Keyed(c, "ping")
connectTCPEx(c)  == Keyed(c, "connect")
connectSshdEx(c) == Keyed(c, "connect")
connectHttpEx(c) == Keyed(c, "connect")
listenTCPEx(c)   == Keyed(c, "listen")

\* A call on a stream without a route returns at once; another one marks the
\* stream as awaited.
OnStream(c, k) ==
    /\ Calls(c, k)
    /\ \E s \in 0 .. c - 1 :
          /\ on' = [on EXCEPT ![c] = s]
          /\ IF s \in routes
             THEN /\ awaited' = [awaited EXCEPT ![s] = IF @ = <<>> THEN <<c>> ELSE @]
                  /\ pc' = [pc EXCEPT ![c] = "sending"] /\ UNCHANGED got
             ELSE Returned(c, Failed) /\ UNCHANGED awaited
    /\ UNCHANGED <<pend, slot, results>>

acceptTCPEx(c)  == OnStream(c, "accept")
streamSend(c)   == OnStream(c, "send")
streamRecvEx(c) == OnStream(c, "recv")
streamClose(c)  == OnStream(c, "close")

\* nameReplyPending_ or resourceListPending_ is set and the result forgotten,
\* whoever is waiting.
Occupy(c, k) ==
    /\ Calls(c, k)
    /\ slot' = [slot EXCEPT ![k] = c] /\ results' = [results EXCEPT ![k] = None]
    /\ pc' = [pc EXCEPT ![c] = "sending"]
    /\ UNCHANGED <<on, got, pend, awaited>>

resourceList(c)        == Occupy(c, "list")
sendNameRequestImpl(c) == Occupy(c, "name")

\* One request per node is pending at a time.
beginEndorsementRequest(c) ==
    /\ Calls(c, "endorse")
    /\ IF slot["endorse"] # None
       THEN Returned(c, Failed) /\ UNCHANGED slot
       ELSE /\ slot' = [slot EXCEPT !["endorse"] = c]
            /\ pc' = [pc EXCEPT ![c] = "sending"] /\ UNCHANGED got
    /\ UNCHANGED <<on, pend, awaited, results>>
-----------------------------------------------------------------------------
Vacated(k) == IF k \in SharedKind THEN [slot EXCEPT ![k] = None] ELSE slot

\* A failed send leaves the mark of a send, a receive and a close in
\* awaitedStreamReplies_.
SendFails(c) ==
    /\ pend' = pend \ {c} /\ slot' = Vacated(kind[c])
    /\ awaited' = IF kind[c] = "accept" THEN [awaited EXCEPT ![on[c]] = <<>>] ELSE awaited
    /\ routes' = IF kind[c] = "close" THEN routes \ {on[c]} ELSE routes
    /\ Returned(c, Failed)
    /\ UNCHANGED asked

Sent(c) ==
    /\ asked' = IF link = "up" THEN asked \cup {c} ELSE asked
    /\ pc' = [pc EXCEPT ![c] = "waiting"]
    /\ UNCHANGED <<got, pend, awaited, slot, routes>>

\* messageClient_->send: a message queued for a lost connection is lost.
send(c) ==
    /\ pc[c] = "sending"
    /\ (link # "closed" /\ Sent(c)) \/ (link # "up" /\ SendFails(c))
    /\ UNCHANGED <<sig, repaired, queue, soon, taken, results>>

\* The entry is complete, or the wait timed out.
WaitForEntry(c, k) ==
    /\ pc[c] = "waiting" /\ kind[c] = k
    /\ pend' = pend \ {c} /\ sig' = [sig EXCEPT ![c] = None]
    /\ LET r == IF sig[c] = None THEN TimedOut ELSE sig[c] IN
       /\ Returned(c, r)
       /\ routes' = IF k # "ping" /\ r.st = "success" THEN routes \cup {c} ELSE routes
    /\ UNCHANGED <<repaired, awaited, slot, results, queue, soon, taken, asked>>

pingReturns(c)    == WaitForEntry(c, "ping")
connectReturns(c) == WaitForEntry(c, "connect")
listenReturns(c)  == WaitForEntry(c, "listen")

\* Every waiter sees that the flag is down; the first one takes the result.
waitForResult(c) ==
    LET k == kind[c] IN
    /\ pc[c] = "waiting" /\ k \in {"name", "list"}
    /\ slot' = Vacated(k)
    /\ Returned(c, IF slot[k] # None THEN TimedOut
                   ELSE IF results[k] = None THEN Failed ELSE results[k])
    /\ results' = IF slot[k] = None THEN [results EXCEPT ![k] = None] ELSE results
    /\ UNCHANGED <<sig, repaired, pend, awaited, queue, soon, routes, taken, asked>>

waitForPendingEndorsement(c) ==
    /\ pc[c] = "waiting" /\ kind[c] = "endorse"
    /\ got' = [got EXCEPT ![c] = IF sig[c] = None THEN TimedOut ELSE sig[c]]
    /\ sig' = [sig EXCEPT ![c] = None]
    /\ pc' = [pc EXCEPT ![c] = "answered"]
    /\ UNCHANGED <<repaired, waitVars, results, queue, soon, routes, taken, asked>>

\* An unknown identity is repaired once: the identity is sent, which may fail.
EndorsementAnswered(c) ==
    /\ pc[c] = "answered"
    /\ \/ /\ got[c].st = "unknown" /\ c \notin repaired /\ link # "closed"
          /\ repaired' = repaired \cup {c} /\ pc' = [pc EXCEPT ![c] = "sending"]
          /\ UNCHANGED <<got, slot>>
       \/ /\ got[c].st = "unknown" /\ c \notin repaired => link # "up"
          /\ slot' = Vacated("endorse")
          /\ Returned(c, IF c \in repaired THEN got[c] ELSE
                             IF got[c].st = "unknown" THEN Failed ELSE got[c])
          /\ UNCHANGED repaired
    /\ UNCHANGED <<sig, pend, awaited, results, queue, soon, routes, taken, asked>>

\* The first entry for the same stream with the same status.
removeBufferedReply(rs, r) ==
    LET same == {i \in DOMAIN rs : rs[i].on = r.on /\ rs[i].st = r.st}
        i == CHOOSE i \in same : \A j \in same : i <= j
    IN  IF same = {} THEN rs ELSE SubSeq(rs, 1, i - 1) \o SubSeq(rs, i + 1, Len(rs))

\* A close goes on waiting past data and new connections.
KeepsWaiting(c, r) == kind[c] = "close" /\ r.st \in {"data", "new"}

waitForStreamReply(c) ==
    LET s == on[c]
        r == IF queue[s] = <<>> THEN TimedOut ELSE Head(queue[s])
    IN  /\ pc[c] = "waiting" /\ kind[c] \in StreamKind
        /\ awaited' = [awaited EXCEPT ![s] = <<>>]
        /\ queue' = IF queue[s] = <<>> THEN queue ELSE [queue EXCEPT ![s] = Tail(@)]
        /\ soon' = removeBufferedReply(soon, r)
        /\ taken' = taken \o TakenBy(c, r)
        /\ IF KeepsWaiting(c, r) THEN UNCHANGED <<pc, got>> ELSE Returned(c, r)
        /\ routes' = IF kind[c] = "close" /\ r.st \in {"success", "closed", "timeout"}
                     THEN routes \ {s}
                     ELSE IF kind[c] = "accept" /\ r.st = "new" THEN routes \cup {r.of} ELSE routes
        /\ UNCHANGED <<sig, repaired, pend, slot, results, asked>>
-----------------------------------------------------------------------------
handlePingReply(r) ==
    /\ sig' = IF r.of \in pend THEN [sig EXCEPT ![r.of] = r] ELSE sig
    /\ UNCHANGED <<awaited, slot, results, queue, soon, routes>>

\* The reply completes a pending connect or listen; otherwise it is queued,
\* also for the poller if nobody awaits it.
handleStreamReply(r) ==
    LET s == r.on IN
    IF r.of # None /\ r.of \in pend /\ sig[r.of] = None
    THEN sig' = [sig EXCEPT ![r.of] = r] /\ UNCHANGED <<awaited, slot, results, queue, soon, routes>>
    ELSE /\ routes' = IF r.st = "new" THEN routes \cup {r.of} ELSE routes
         /\ queue' = [queue EXCEPT ![s] = Append(@, r)]
         /\ awaited' = [awaited EXCEPT ![s] = <<>>]
         /\ soon' = IF awaited[s] = <<>> THEN Append(soon, r) ELSE soon
         /\ UNCHANGED <<sig, slot, results>>

handleEndorsementDone(r) ==
    /\ sig' = IF slot["endorse"] # None /\ sig[slot["endorse"]] = None
              THEN [sig EXCEPT ![slot["endorse"]] = r] ELSE sig
    /\ UNCHANGED <<awaited, slot, results, queue, soon, routes>>

\* handleNameServiceReply and handleResourceQueryReply; a reply that nobody
\* waits for is dropped, or put aside for the application to poll.
handleSlotReply(r, k) ==
    /\ results' = IF slot[k] = None THEN results ELSE [results EXCEPT ![k] = r]
    /\ slot' = [slot EXCEPT ![k] = None]
    /\ UNCHANGED <<sig, awaited, queue, soon, routes>>

\* The receive thread puts what is for this node into the input queue, whose
\* worker handles it; neither changes what a call reads.
receiveLoop(r) == Arrives(r)

handleNodeSpecificMessage ==
    \E r \in Incoming :
        /\ receiveLoop(r)
        /\ IF r.of = None THEN handleStreamReply(r)
           ELSE \/ kind[r.of] = "ping" /\ handlePingReply(r)
                \/ kind[r.of] \in StreamKind \cup {"connect", "listen"} /\ handleStreamReply(r)
                \/ kind[r.of] = "endorse" /\ handleEndorsementDone(r)
                \/ kind[r.of] \in {"name", "list"} /\ handleSlotReply(r, kind[r.of])
        /\ UNCHANGED <<kind, on, pc, got, repaired, pend, taken>>

tryDequeueStreamResult ==
    /\ soon # <<>> /\ soon' = Tail(soon)
    /\ taken' = taken \o DataOf(<<Head(soon)>>)
    /\ UNCHANGED <<callVars, waitVars, results, queue, routes, peerVars>>
-----------------------------------------------------------------------------
Begin(c) ==
    /\ \/ ping(c) \/ connectTCPEx(c) \/ connectSshdEx(c) \/ connectHttpEx(c) \/ listenTCPEx(c)
       \/ acceptTCPEx(c) \/ streamSend(c) \/ streamRecvEx(c) \/ streamClose(c)
       \/ resourceList(c) \/ sendNameRequestImpl(c) \/ beginEndorsementRequest(c)
    /\ UNCHANGED <<sig, repaired, out, retried, joined, streamVars, peerVars, linkVars>>

\* The thread of a call runs, or its wait times out.
Proceed(c) ==
    /\ \/ send(c) \/ pingReturns(c) \/ connectReturns(c) \/ listenReturns(c) \/ waitForResult(c)
       \/ waitForPendingEndorsement(c) \/ EndorsementAnswered(c) \/ waitForStreamReply(c)
    /\ UNCHANGED <<kind, on, out, retried, joined, handlers, data, linkVars>>

Next ==
    \/ /\ connectToResourceManager \/ ConnectionLost
       /\ UNCHANGED <<callVars, waitVars, results, streamVars, peerVars>>
    \/ handleNodeSpecificMessage /\ UNCHANGED <<out, retried, joined, handlers, linkVars>>
    \/ tryDequeueStreamResult /\ UNCHANGED <<handlers, linkVars>>
    \/ \E c \in Call : Begin(c) \/ Proceed(c)
=============================================================================
