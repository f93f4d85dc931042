----------------------------- MODULE NodeClient -----------------------------
(***************************************************************************)
(* client/nodejs/rsp_client.js.  One thread: an action is one callback,    *)
(* from an event to the next await that suspends.  Timers are armed when a *)
(* call registers; a request may still be on its way (out) while its call  *)
(* waits, is settled or has timed out.                                     *)
(***************************************************************************)
EXTENDS ClientCalls

WantsAny(c, r) == TRUE

\* Replies a call on a stream is waiting for.
Wants(c, r) == kind[c] \in {"send", "close"} => r.st \notin {"data", "new"}

\* The promises of the calls cs are rejected.
Rejected(cs) ==
    /\ pc' = [c \in Call |-> IF c \in cs THEN "done" ELSE pc[c]]
    /\ got' = [c \in Call |-> IF c \in cs THEN Failed ELSE got[c]]

rejectAllPending ==
    /\ Rejected(pend \cup Awaiting \cup Unless(slot["endorse"]))
    /\ pend' = {} /\ awaited' = [s \in Stream |-> <<>>]
    /\ slot' = [slot EXCEPT !["endorse"] = None]

teardownConnection ==
    /\ rejectAllPending
    /\ link' = "closed" /\ heard' = {}
    /\ handlers' = {} /\ routes' = {} /\ queue' = [s \in Stream |-> <<>>]
    /\ UNCHANGED <<kind, on, sig, repaired, soon, taken, peerVars>>

\* The application's connect, without its failures.
connect ==
    /\ link = "closed" /\ losses = 0 /\ ~stopping /\ task = "none"
    /\ link' = "up"
    /\ UNCHANGED <<callVars, waitVars, streamVars, peerVars, heard, stopping, auto, task,
                   oldLoop, losses>>

\* close leaves a reconnect in flight to finish by itself.
close ==
    /\ ~stopping /\ link # "closed" /\ losses < plan.losses
    /\ stopping' = TRUE /\ auto' = FALSE /\ losses' = losses + 1
    /\ teardownConnection
    /\ UNCHANGED <<out, retried, joined, task, oldLoop>>

ConnectionLost ==
    /\ link = "up" /\ losses < plan.losses
    /\ link' = "lost" /\ losses' = losses + 1
    /\ UNCHANGED <<callVars, waitVars, streamVars, peerVars, heard, stopping, auto, task, oldLoop>>

CanReconnect == auto /\ ~stopping

\* reconnect joins the reconnect in flight, or tears the connection down and
\* starts one.
reconnect ==
    IF task = "none" /\ CanReconnect
    THEN task' = "loop" /\ teardownConnection
    ELSE UNCHANGED <<kind, on, pc, sig, got, repaired, waitVars, streamVars, peerVars, link,
                     heard, task>>

\* The receive loop of this connection, or of one given up by a sender, fails.
receiveLoop ==
    /\ \/ link = "lost" /\ task = "none" /\ CanReconnect /\ reconnect /\ UNCHANGED oldLoop
       \/ oldLoop /\ reconnect /\ oldLoop' = FALSE
    /\ UNCHANGED <<out, retried, joined, stopping, auto, losses>>

\* The loop of reconnect, and connectTransport inside it.
connectTransport ==
    /\ \/ /\ task = "loop" /\ task' = IF CanReconnect THEN "dial" ELSE "none"
          /\ UNCHANGED <<link, heard, losses>>
       \/ /\ task = "dial" /\ task' = "auth" /\ link' = "auth" /\ heard' = {}
          /\ UNCHANGED losses
       \/ /\ task = "dial" /\ losses < plan.losses
          /\ task' = "loop" /\ losses' = losses + 1 /\ UNCHANGED <<link, heard>>
    /\ UNCHANGED <<callVars, waitVars, streamVars, peerVars, stopping, auto, oldLoop>>

\* A failing read ends the attempt.  A failing write of the exchange retries
\* like any send, which waits for the reconnect it is a part of.
performInitialIdentityExchange ==
    /\ task = "auth"
    /\ \/ /\ link = "auth" /\ "spoiled" \notin heard
          /\ \E m \in {"challenge", "identity"} \ heard : heard' = heard \cup {m}
          /\ IF Cardinality(heard') = 2
             THEN link' = "up" /\ task' = "none" /\ stopping' = FALSE
             ELSE UNCHANGED <<link, task, stopping>>
          /\ UNCHANGED losses
       \/ /\ link = "auth" /\ ("spoiled" \in heard \/ losses < plan.losses)
          /\ link' = "lost" /\ task' = "loop"
          /\ losses' = IF "spoiled" \in heard THEN losses ELSE losses + 1
          /\ UNCHANGED <<heard, stopping>>
       \/ /\ link = "auth" /\ losses < plan.losses /\ CanReconnect
          /\ link' = "lost" /\ task' = "hung" /\ losses' = losses + 1
          /\ UNCHANGED <<heard, stopping>>
       \/ /\ link = "closed" /\ task' = "loop"
          /\ UNCHANGED <<link, heard, stopping, losses>>
    /\ UNCHANGED <<callVars, waitVars, streamVars, peerVars, auto, oldLoop>>
-----------------------------------------------------------------------------
\* Calls: the timer, the entry and the request come first.
Keyed(c, k) ==
    /\ Calls(c, k)
    /\ on' = [on EXCEPT ![c] = c] /\ pend' = pend \cup {c}
    /\ pc' = [pc EXCEPT ![c] = "waiting"] /\ out' = out \cup {c}
    /\ UNCHANGED <<got, slot>>

ping(c)         == Keyed(c, "ping")
connectTCPEx(c) == Keyed(c, "connect")
listenTCPEx(c)  == Keyed(c, "listen")

OnStream(c, k) ==
    /\ Calls(c, k)
    /\ \E s \in 0 .. c - 1 :
          /\ on' = [on EXCEPT ![c] = s]
          /\ IF s \in routes
             THEN pc' = [pc EXCEPT ![c] = "sending"] /\ out' = out \cup {c} /\ UNCHANGED got
             ELSE Returned(c, Failed) /\ UNCHANGED out
    /\ UNCHANGED <<pend, slot>>

acceptTCPEx(c)  == OnStream(c, "accept")
streamSend(c)   == OnStream(c, "send")
streamRecvEx(c) == OnStream(c, "recv")
streamClose(c)  == OnStream(c, "close")

Occupy(c, k) ==
    /\ slot' = [slot EXCEPT ![k] = c]
    /\ pc' = [pc EXCEPT ![c] = "waiting"] /\ out' = out \cup {c}
    /\ UNCHANGED <<on, got, pend>>

resourceList(c) == Calls(c, "list") /\ Occupy(c, "list")

\* nameCreate, nameRead, nameUpdate, nameDelete and nameQuery.
nameRequest(c)     == Calls(c, "name")
sendNameRequest(c) == nameRequest(c) /\ Occupy(c, "name")

sendEndorsementRequest(c) == Occupy(c, "endorse")

beginEndorsementRequest(c) ==
    /\ Calls(c, "endorse")
    /\ IF slot["endorse"] = None THEN sendEndorsementRequest(c)
       ELSE Returned(c, Failed) /\ UNCHANGED <<on, out, pend, slot>>

\* The request again, after the identity was sent.
RequestAgain(c) ==
    /\ pc[c] = "checked" /\ ~(link = "closed" /\ task # "none" /\ CanReconnect)
    /\ sendEndorsementRequest(c) /\ retried' = retried \ {c} /\ UNCHANGED kind

Begin(c) ==
    /\ \/ /\ \/ ping(c) \/ connectTCPEx(c) \/ listenTCPEx(c)
             \/ acceptTCPEx(c) \/ streamSend(c) \/ streamRecvEx(c) \/ streamClose(c)
             \/ resourceList(c) \/ sendNameRequest(c) \/ beginEndorsementRequest(c)
          /\ UNCHANGED retried
       \/ RequestAgain(c)
    /\ UNCHANGED <<sig, repaired, joined, awaited, streamVars, peerVars, linkVars>>
-----------------------------------------------------------------------------
\* What a call does with its reply.
Settle(c, r, known) ==
    /\ IF kind[c] = "endorse" /\ r.st = "unknown" /\ c \notin repaired
       THEN /\ pc' = [pc EXCEPT ![c] = "checked"] /\ repaired' = repaired \cup {c}
            /\ UNCHANGED got
       ELSE Returned(c, r) /\ UNCHANGED repaired
    /\ routes' = CASE kind[c] \in {"connect", "listen"} /\ r.st = "success" -> known \cup {on[c]}
                   [] kind[c] = "close" -> known \ {on[c]}
                   [] OTHER -> known

\* The request is written: a call on a stream looks for its reply in the
\* queue, or becomes the one waiter of the stream.
waitForStreamReply(c) ==
    LET s == on[c]
        I == {i \in DOMAIN queue[s] : Wants(c, queue[s][i])}
        i == CHOOSE i \in I : \A j \in I : i <= j
    IN  IF I # {}
        THEN /\ Settle(c, queue[s][i], routes)
             /\ queue' = [queue EXCEPT ![s] = SubSeq(@, 1, i - 1) \o SubSeq(@, i + 1, Len(@))]
             /\ taken' = taken \o TakenBy(c, queue[s][i])
             /\ UNCHANGED awaited
        ELSE /\ awaited' = [awaited EXCEPT ![s] = <<c>>]
             /\ pc' = [pc EXCEPT ![c] = "waiting"]
             /\ UNCHANGED <<got, repaired, routes, queue, taken>>

Written(c) ==
    /\ out' = out \ {c}
    /\ IF kind[c] \in StreamKind THEN waitForStreamReply(c)
       ELSE UNCHANGED <<pc, got, repaired, routes, queue, taken, awaited>>
    /\ UNCHANGED <<kind, on, sig, retried, pend, slot, handlers, soon, data>>

\* The request cannot be written: the entry is deleted by its key.  The list
\* request reports nothing to its call.
SendFails(c) ==
    LET k == kind[c] IN
    /\ out' = out \ {c}
    /\ pend' = pend \ {c}
    /\ slot' = IF k \in {"endorse", "name"} THEN [slot EXCEPT ![k] = None] ELSE slot
    /\ IF k = "list" \/ pc[c] = "done" THEN UNCHANGED <<pc, got>> ELSE Returned(c, Failed)
    /\ routes' = IF k = "close" THEN routes \ {on[c]} ELSE routes
    /\ UNCHANGED <<kind, on, sig, repaired, retried, awaited, queue, handlers, soon, taken,
                   peerVars>>

ensureConnectedForSend(c) ==
    /\ link = "closed"
    /\ \/ CanReconnect /\ reconnect /\ joined' = joined \cup {c} /\ UNCHANGED <<out, retried>>
       \/ /\ ~CanReconnect /\ SendFails(c) /\ joined' = joined \ {c}
          /\ UNCHANGED <<link, heard, task>>
    /\ UNCHANGED oldLoop

\* The write, in one of two attempts.  A request written while a reconnect
\* authenticates spoils the exchange.
Write(c) ==
    /\ link # "closed" /\ Written(c)
    /\ asked' = IF link = "up" THEN asked \cup {c} ELSE asked
    /\ heard' = IF link = "auth" THEN heard \cup {"spoiled"} ELSE heard
    /\ joined' = joined \ {c} /\ UNCHANGED <<link, task, oldLoop>>

WriteFails(c) ==
    /\ link = "lost"
    /\ IF CanReconnect /\ c \notin retried
       THEN /\ retried' = retried \cup {c} /\ joined' = joined \cup {c} /\ UNCHANGED out
            /\ oldLoop' = (oldLoop \/ task = "none") /\ reconnect
       ELSE /\ SendFails(c) /\ joined' = joined \ {c}
            /\ UNCHANGED <<link, heard, task, oldLoop>>

sendRawMessage(c) ==
    /\ c \in out /\ (c \in joined => task = "none")
    /\ ensureConnectedForSend(c) \/ Write(c) \/ WriteFails(c)
    /\ UNCHANGED <<stopping, auto, losses>>

\* The timer of a call fires: the entry under its key is deleted, whoever it
\* belongs to.
TimerFires(c) ==
    LET k == kind[c] IN
    /\ pc[c] = "waiting" /\ Returned(c, TimedOut)
    /\ pend' = pend \ {c}
    /\ awaited' = IF k \in StreamKind THEN [awaited EXCEPT ![on[c]] = <<>>] ELSE awaited
    /\ slot' = IF k \in SharedKind THEN [slot EXCEPT ![k] = None] ELSE slot
    /\ routes' = IF k = "close" THEN routes \ {on[c]} ELSE routes
    /\ UNCHANGED <<kind, on, sig, repaired, out, retried, joined, queue, handlers, soon, taken,
                   peerVars, linkVars>>
-----------------------------------------------------------------------------
attachStreamHandler ==
    /\ plan.data > 0 /\ handlers = {} /\ handlers' = {0}
    /\ taken' = taken \o DataOf(queue[0]) /\ queue' = [queue EXCEPT ![0] = <<>>]
    /\ UNCHANGED <<callVars, waitVars, soon, routes, peerVars, linkVars>>

detachStreamHandler ==
    /\ handlers # {} /\ handlers' = {}
    /\ UNCHANGED <<callVars, waitVars, queue, soon, routes, taken, peerVars, linkVars>>

\* The entry under the key of a reply, with the reply's call as the key.
HandleKeyed(r) ==
    /\ pend' = pend \ {r.of}
    /\ IF r.of \in pend THEN Settle(r.of, r, routes) ELSE UNCHANGED <<pc, got, repaired, routes>>
    /\ UNCHANGED <<awaited, slot, queue, taken>>

handleStreamReply(r) ==
    LET s == r.on
        known == IF r.st = "new" THEN routes \cup {r.of} ELSE routes
    IN  /\ IF awaited[s] # <<>> /\ Wants(Head(awaited[s]), r)
           THEN /\ awaited' = [awaited EXCEPT ![s] = <<>>]
                /\ Settle(Head(awaited[s]), r, known)
                /\ taken' = taken \o TakenBy(Head(awaited[s]), r) /\ UNCHANGED queue
           ELSE /\ routes' = known /\ UNCHANGED <<awaited, pc, got, repaired>>
                /\ IF s \in handlers
                   THEN taken' = taken \o DataOf(<<r>>) /\ UNCHANGED queue
                   ELSE queue' = [queue EXCEPT ![s] = Append(@, r)] /\ UNCHANGED taken
        /\ UNCHANGED <<pend, slot>>

HandleShared(r, k) ==
    /\ slot' = [slot EXCEPT ![k] = None]
    /\ IF slot[k] = None THEN UNCHANGED <<pc, got, repaired, routes>> ELSE Settle(slot[k], r, routes)
    /\ UNCHANGED <<pend, awaited, queue, taken>>

dispatchMessage ==
    \E r \in Incoming :
        /\ Arrives(r)
        /\ IF r.of = None THEN handleStreamReply(r)
           ELSE \/ kind[r.of] \in KeyedKind /\ HandleKeyed(r)
                \/ kind[r.of] \in StreamKind /\ handleStreamReply(r)
                \/ kind[r.of] \in SharedKind /\ HandleShared(r, kind[r.of])
        /\ UNCHANGED <<kind, on, sig, out, retried, joined, handlers, soon, linkVars>>

Next ==
    \/ connect \/ close \/ ConnectionLost \/ receiveLoop \/ connectTransport
    \/ performInitialIdentityExchange
    \/ attachStreamHandler \/ detachStreamHandler \/ dispatchMessage
    \/ \E c \in Call : Begin(c) \/ sendRawMessage(c) \/ TimerFires(c)
=============================================================================
