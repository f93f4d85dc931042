---------------------------- MODULE PythonClient ----------------------------
(***************************************************************************)
(* client/python/rsp_client.py.  One event loop: an action runs from one   *)
(* suspension to the next.  A call registers its future and writes its     *)
(* request in its first step, waits until the request is drained, and only *)
(* then waits for the future with a timeout.  sig[c] is the result of the  *)
(* future; the call goes on in a later step.                               *)
(***************************************************************************)
EXTENDS ClientCalls

\* The futures of the calls cs fail, unless they are done.
Fail(cs) == [c \in Call |-> IF c \in cs /\ sig[c] = None THEN Failed ELSE sig[c]]

\* The writer is set before the identity exchange, and stays after a failure.
connect ==
    /\ link \in {"closed", "lost"} /\ link' = "auth" /\ heard' = {}
    /\ losses = 0
    /\ UNCHANGED <<callVars, waitVars, streamVars, peerVars, stopping, auto, task, oldLoop, losses>>

perform_initial_identity_exchange ==
    /\ link = "auth"
    /\ \/ /\ "spoiled" \notin heard
          /\ \E m \in {"challenge", "identity"} \ heard : heard' = heard \cup {m}
          /\ IF Cardinality(heard') = 2 THEN link' = "up" /\ stopping' = FALSE
                                        ELSE UNCHANGED <<link, stopping>>
          /\ UNCHANGED losses
       \/ /\ "spoiled" \in heard \/ losses < plan.losses
          /\ link' = "lost" /\ losses' = IF "spoiled" \in heard THEN losses ELSE losses + 1
          /\ UNCHANGED <<heard, stopping>>
    /\ UNCHANGED <<callVars, waitVars, streamVars, peerVars, auto, task, oldLoop>>

close ==
    /\ link # "closed" /\ losses < plan.losses /\ losses' = losses + 1
    /\ link' = "closed" /\ heard' = {} /\ stopping' = TRUE
    /\ sig' = Fail(pend \cup Awaiting \cup Unless(slot["endorse"]))
    /\ pend' = {} /\ awaited' = [s \in Stream |-> <<>>]
    /\ slot' = [slot EXCEPT !["endorse"] = None]
    /\ handlers' = {}
    /\ UNCHANGED <<kind, on, pc, got, repaired, out, retried, joined, queue, soon, routes, taken,
                   peerVars, auto, task, oldLoop>>

\* The receive loop raises: nobody is told.
receive_loop ==
    /\ link = "up" /\ losses < plan.losses
    /\ link' = "lost" /\ losses' = losses + 1
    /\ UNCHANGED <<callVars, waitVars, streamVars, peerVars, heard, stopping, auto, task, oldLoop>>
-----------------------------------------------------------------------------
\* The write of a request.  Without a writer it raises.
send_raw_message(c) ==
    /\ asked' = IF link = "up" THEN asked \cup {c} ELSE asked
    /\ heard' = IF link = "auth" THEN heard \cup {"spoiled"} ELSE heard
    /\ IF link = "closed" THEN Returned(c, Failed)
       ELSE pc' = [pc EXCEPT ![c] = "sending"] /\ UNCHANGED got

Keyed(c, k) ==
    /\ Calls(c, k) /\ send_raw_message(c)
    /\ on' = [on EXCEPT ![c] = c]
    /\ pend' = IF link = "closed" THEN pend ELSE pend \cup {c}
    /\ UNCHANGED <<sig, slot, routes>>

ping(c)           == Keyed(c, "ping")
connect_tcp_ex(c) == Keyed(c, "connect")
listen_tcp_ex(c)  == Keyed(c, "listen")

OnStream(c, k) ==
    /\ Calls(c, k)
    /\ \E s \in 0 .. c - 1 :
          /\ on' = [on EXCEPT ![c] = s]
          /\ IF s \in routes THEN send_raw_message(c)
             ELSE Returned(c, Failed) /\ UNCHANGED <<asked, heard>>
          /\ routes' = IF k = "close" /\ link = "closed" THEN routes \ {s} ELSE routes
    /\ UNCHANGED <<sig, pend, slot>>

accept_tcp_ex(c)  == OnStream(c, "accept")
socket_send(c)    == OnStream(c, "send")
socket_recv_ex(c) == OnStream(c, "recv")
socket_close(c)   == OnStream(c, "close")

\* A failing write empties the slot, whoever was in it before.
Occupy(c, k) ==
    /\ send_raw_message(c)
    /\ slot' = [slot EXCEPT ![k] = IF link = "closed" THEN None ELSE c]
    /\ sig' = [sig EXCEPT ![c] = None]
    /\ UNCHANGED <<on, pend, routes>>

resource_list(c) == Calls(c, "list") /\ Occupy(c, "list")

\* name_create, name_read, name_update, name_delete and name_query.
name_request(c)      == Calls(c, "name")
send_name_request(c) == name_request(c) /\ Occupy(c, "name")

begin_endorsement_request(c) ==
    /\ Calls(c, "endorse")
    /\ IF slot["endorse"] = None THEN Occupy(c, "endorse")
       ELSE Returned(c, Failed) /\ UNCHANGED <<sig, on, pend, routes, slot, asked, heard>>

\* The request again, after the identity was sent.
send_endorsement_request(c) ==
    pc[c] = "checked" /\ Occupy(c, "endorse") /\ UNCHANGED kind

Begin(c) ==
    /\ \/ ping(c) \/ connect_tcp_ex(c) \/ listen_tcp_ex(c)
       \/ accept_tcp_ex(c) \/ socket_send(c) \/ socket_recv_ex(c) \/ socket_close(c)
       \/ resource_list(c) \/ send_name_request(c) \/ begin_endorsement_request(c)
    /\ UNCHANGED <<repaired, out, retried, joined, awaited, queue, handlers, soon, taken, data,
                   link, stopping, auto, task, oldLoop, losses>>
-----------------------------------------------------------------------------
\* An entry is popped by its key, whoever it belongs to.
Leave(c) ==
    /\ pend' = pend \ {c}
    /\ slot' = IF kind[c] \in SharedKind THEN [slot EXCEPT ![kind[c]] = None] ELSE slot
    /\ routes' = IF kind[c] = "close" THEN routes \ {on[c]} ELSE routes

Drained(c) ==
    /\ pc[c] = "sending"
    /\ \/ /\ pc' = [pc EXCEPT ![c] = IF kind[c] \in StreamKind THEN "lookup" ELSE "waiting"]
          /\ UNCHANGED <<got, pend, slot, routes>>
       \/ link # "up" /\ Leave(c) /\ Returned(c, Failed)
    /\ UNCHANGED <<sig, repaired, awaited, queue, taken>>

\* What a call does with its reply.
Settle(c, r) ==
    /\ IF kind[c] = "endorse" /\ r.st = "unknown" /\ c \notin repaired
       THEN /\ pc' = [pc EXCEPT ![c] = "checked"] /\ repaired' = repaired \cup {c}
            /\ UNCHANGED got
       ELSE IF kind[c] \in {"send", "close"} /\ r.st \in {"data", "new"}
       THEN pc' = [pc EXCEPT ![c] = "lookup"] /\ UNCHANGED <<got, repaired>>
       ELSE Returned(c, r) /\ UNCHANGED repaired
    /\ routes' = CASE kind[c] \in {"connect", "listen"} /\ r.st = "success" -> routes \cup {on[c]}
                   [] kind[c] = "accept" /\ r.st = "new" -> routes \cup {r.of}
                   [] kind[c] = "close" /\ r.st \notin {"data", "new"} -> routes \ {on[c]}
                   [] OTHER -> routes

wait_for_socket_reply(c) ==
    LET s == on[c] IN
    /\ pc[c] = "lookup"
    /\ IF queue[s] # <<>>
       THEN /\ Settle(c, Head(queue[s])) /\ queue' = [queue EXCEPT ![s] = Tail(@)]
            /\ taken' = taken \o TakenBy(c, Head(queue[s])) /\ UNCHANGED <<sig, awaited>>
       ELSE /\ awaited' = [awaited EXCEPT ![s] = <<c>>] /\ sig' = [sig EXCEPT ![c] = None]
            /\ pc' = [pc EXCEPT ![c] = "waiting"]
            /\ UNCHANGED <<got, repaired, queue, taken, routes>>
    /\ UNCHANGED <<pend, slot>>

\* wait_for gives up, and the call pops its entry when it runs again.
Expire(c) ==
    /\ pc[c] = "waiting" /\ sig[c] = None
    /\ pc' = [pc EXCEPT ![c] = "expired"]
    /\ UNCHANGED <<got, sig, repaired, waitVars, queue, taken, routes>>

AfterExpiry(c) ==
    /\ pc[c] = "expired" /\ Leave(c) /\ Returned(c, TimedOut)
    /\ awaited' = IF kind[c] \in StreamKind THEN [awaited EXCEPT ![on[c]] = <<>>] ELSE awaited
    /\ UNCHANGED <<sig, repaired, queue, taken>>

WaitEnds(c) ==
    /\ pc[c] = "waiting" /\ sig[c] # None
    /\ Settle(c, sig[c]) /\ sig' = [sig EXCEPT ![c] = None]
    /\ UNCHANGED <<waitVars, queue, taken>>

Proceed(c) ==
    \/ /\ send_endorsement_request(c)
       /\ UNCHANGED <<repaired, out, retried, joined, awaited, queue, handlers, soon, taken, data,
                      link, stopping, auto, task, oldLoop, losses>>
    \/ /\ \/ Drained(c) \/ wait_for_socket_reply(c)
          \/ Expire(c) \/ AfterExpiry(c) \/ WaitEnds(c)
       /\ UNCHANGED <<kind, on, out, retried, joined, handlers, soon, peerVars, linkVars>>
-----------------------------------------------------------------------------
\* The queued replies reach the handler in later steps of the event loop.
attach_socket_handler ==
    /\ plan.data > 0 /\ handlers = {} /\ handlers' = {0} /\ soon' = soon \o queue[0] /\ queue' = [queue EXCEPT ![0] = <<>>]
    /\ UNCHANGED <<callVars, waitVars, routes, taken, peerVars, linkVars>>

HandlerRuns ==
    /\ soon # <<>> /\ soon' = Tail(soon) /\ taken' = taken \o DataOf(<<Head(soon)>>)
    /\ UNCHANGED <<callVars, waitVars, queue, handlers, routes, peerVars, linkVars>>

detach_socket_handler ==
    /\ handlers # {} /\ handlers' = {}
    /\ UNCHANGED <<callVars, waitVars, queue, soon, routes, taken, peerVars, linkVars>>

\* A result set in a future whose call has expired is lost.
SetResult(c, r) == [sig EXCEPT ![c] = IF @ = None THEN r ELSE @]

HandleKeyed(r) ==
    /\ pend' = pend \ {r.of}
    /\ sig' = IF r.of \in pend THEN SetResult(r.of, r) ELSE sig
    /\ UNCHANGED <<awaited, slot, queue, routes, taken>>

handle_stream_reply(r) ==
    LET s == r.on IN
    /\ routes' = IF r.st = "new" THEN routes \cup {r.of} ELSE routes
    /\ IF s \in handlers
       THEN taken' = taken \o DataOf(<<r>>) /\ UNCHANGED <<sig, awaited, queue>>
       ELSE IF awaited[s] # <<>>
       THEN LET w == Head(awaited[s]) IN
            /\ awaited' = [awaited EXCEPT ![s] = <<>>] /\ sig' = SetResult(w, r)
            /\ taken' = IF pc[w] = "waiting" THEN taken \o TakenBy(w, r) ELSE taken
            /\ UNCHANGED queue
       ELSE queue' = [queue EXCEPT ![s] = Append(@, r)] /\ UNCHANGED <<sig, awaited, taken>>
    /\ UNCHANGED <<pend, slot>>

HandleShared(r, k) ==
    /\ slot' = [slot EXCEPT ![k] = None]
    /\ sig' = IF slot[k] = None THEN sig ELSE SetResult(slot[k], r)
    /\ UNCHANGED <<pend, awaited, queue, routes, taken>>

\* The list waits for an advertisement; a query reply is not dispatched.
ResourceAdvertisement ==
    /\ link = "up" /\ slot["list"] # None
    /\ HandleShared(Reply(None, 0, "ok", 0), "list")
    /\ UNCHANGED <<kind, on, pc, got, repaired, out, retried, joined, handlers, soon, peerVars,
                   linkVars>>

dispatch_message ==
    \E r \in Incoming :
        /\ Arrives(r)
        /\ IF r.of = None THEN handle_stream_reply(r)
           ELSE \/ kind[r.of] \in KeyedKind /\ HandleKeyed(r)
                \/ kind[r.of] \in StreamKind /\ handle_stream_reply(r)
                \/ kind[r.of] \in {"endorse", "name"} /\ HandleShared(r, kind[r.of])
                \/ kind[r.of] = "list" /\ UNCHANGED <<sig, waitVars, queue, routes, taken>>
        /\ UNCHANGED <<kind, on, pc, got, repaired, out, retried, joined, handlers, soon, linkVars>>

Next ==
    \/ connect \/ perform_initial_identity_exchange \/ close \/ receive_loop
    \/ attach_socket_handler \/ HandlerRuns \/ detach_socket_handler
    \/ dispatch_message \/ ResourceAdvertisement
    \/ \E c \in Call : Begin(c) \/ Proceed(c)
=============================================================================
