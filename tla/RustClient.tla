----------------------------- MODULE RustClient -----------------------------
(***************************************************************************)
(* client/rust/src/client.rs.  Calls run on the threads of the runtime;    *)
(* every action is one section under the mutex of ClientState or of the    *)
(* writer.  A waiting call holds the receiving end of a channel: sig[c] is *)
(* what was sent into it, and an entry that leaves a table without an      *)
(* answer drops the sending end, which ends the wait with an error.        *)
(***************************************************************************)
EXTENDS ClientCalls

\* The channels of the calls cs are closed without an answer.
Dropped(cs) ==
    [c \in Call |-> IF c \in cs /\ sig[c] = None THEN Failed ELSE sig[c]]

Occupant(k) == Unless(slot[k])

new == Start

\* connect: handshake, then the identity exchange until the peer's challenge
\* was answered and its identity was verified, then the receive task.
connect ==
    /\ link = "closed" /\ link' = "auth" /\ heard' = {}
    /\ UNCHANGED <<callVars, waitVars, streamVars, peerVars, stopping, auto, task, oldLoop, losses>>

perform_initial_identity_exchange ==
    /\ link = "auth"
    /\ \/ \E m \in {"challenge", "identity"} :
             /\ heard' = heard \cup {m}
             /\ link' = IF heard' = {"challenge", "identity"} THEN "up" ELSE "auth"
             /\ stopping' = IF link' = "up" THEN FALSE ELSE stopping
             /\ UNCHANGED losses
       \/ /\ losses < plan.losses /\ losses' = losses + 1
          /\ link' = "closed" /\ UNCHANGED <<heard, stopping>>
    /\ UNCHANGED <<callVars, waitVars, streamVars, peerVars, auto, task, oldLoop>>

\* close takes &mut self: no call is in progress.
close ==
    /\ link \in {"up", "lost"} /\ losses < plan.losses
    /\ \A c \in Call : pc[c] \in {"idle", "done"}
    /\ link' = "closed" /\ heard' = {} /\ losses' = losses + 1
    /\ UNCHANGED <<callVars, waitVars, streamVars, peerVars, stopping, auto, task, oldLoop>>

\* The read of the receive loop fails.
receive_loop_fails ==
    /\ link = "up" /\ losses < plan.losses
    /\ link' = "lost" /\ losses' = losses + 1
    /\ task' = "reject"
    /\ UNCHANGED <<callVars, waitVars, streamVars, peerVars, heard, stopping, auto, oldLoop>>

reject_all_pending ==
    /\ task = "reject" /\ task' = "none"
    /\ sig' = Dropped(pend \cup Awaiting \cup UNION {Occupant(k) : k \in SharedKind})
    /\ pend' = {} /\ awaited' = [s \in Stream |-> <<>>]
    /\ slot' = [k \in SharedKind |-> None]
    /\ UNCHANGED <<kind, on, pc, got, repaired, out, retried, joined, streamVars, peerVars,
                   link, heard, stopping, auto, oldLoop, losses>>
-----------------------------------------------------------------------------
\* The channel is stored under the fresh nonce or stream id before the
\* request is sent.
Keyed(c, k) ==
    /\ Calls(c, k)
    /\ on' = [on EXCEPT ![c] = c]
    /\ pend' = pend \cup {c}
    /\ pc' = [pc EXCEPT ![c] = "sending"]
    /\ UNCHANGED <<sig, got, repaired, out, retried, joined, awaited, slot>>

ping(c)           == Keyed(c, "ping")
connect_tcp_ex(c) == Keyed(c, "connect")
listen_tcp_ex(c)  == Keyed(c, "listen")

\* A call on a stream without a route returns at once.
OnStream(c, k) ==
    /\ Calls(c, k)
    /\ \E s \in 0 .. c - 1 :
          /\ on' = [on EXCEPT ![c] = s]
          /\ IF s \in routes
             THEN pc' = [pc EXCEPT ![c] = "sending"] /\ UNCHANGED got
             ELSE Returned(c, Failed)
    /\ UNCHANGED <<sig, repaired, out, retried, joined, waitVars>>

accept_tcp_ex(c)  == OnStream(c, "accept")
stream_send(c)    == OnStream(c, "send")
stream_recv_ex(c) == OnStream(c, "recv")
stream_close(c)   == OnStream(c, "close")

\* A call that waits in a slot of its kind overwrites the slot.
Occupy(c, k) ==
    /\ slot' = [slot EXCEPT ![k] = c]
    /\ sig' = [Dropped(Occupant(k)) EXCEPT ![c] = None]
    /\ pc' = [pc EXCEPT ![c] = "sending"]
    /\ UNCHANGED <<on, got, repaired, out, retried, joined, pend, awaited>>

resource_list(c) == Calls(c, "list") /\ Occupy(c, "list")

\* name_create, name_read, name_update, name_delete and name_query.
name_request(c)      == Calls(c, "name")
send_name_request(c) == name_request(c) /\ Occupy(c, "name")

\* begin_endorsement_request looks whether one is pending, and takes the lock
\* again to store its own.
begin_endorsement_request(c) ==
    /\ Calls(c, "endorse")
    /\ IF slot["endorse"] # None THEN Returned(c, Failed)
                                 ELSE pc' = [pc EXCEPT ![c] = "checked"] /\ UNCHANGED got
    /\ UNCHANGED <<on, sig, repaired, out, retried, joined, waitVars>>

send_endorsement_request(c) ==
    /\ pc[c] = "checked" /\ Occupy(c, "endorse") /\ UNCHANGED kind
-----------------------------------------------------------------------------
\* The call gives up its place, by its key: a slot is emptied whoever is in it.
Leave(c) ==
    LET k == kind[c]
        others == IF k \in SharedKind THEN Occupant(k) \ {c} ELSE {}
    IN  /\ pend' = pend \ {c}
        /\ slot' = IF k \in SharedKind THEN [slot EXCEPT ![k] = None] ELSE slot
        /\ sig' = Dropped(others)

\* A write to a lost connection may still succeed.
send_raw_message_inner(c) ==
    /\ link \in {"up", "lost"}
    /\ asked' = IF link = "up" THEN asked \cup {c} ELSE asked
    /\ pc' = [pc EXCEPT ![c] = IF kind[c] \in StreamKind THEN "lookup" ELSE "waiting"]
    /\ UNCHANGED <<got, sig, pend, slot, routes>>

send_fails(c) ==
    /\ link # "up" /\ Leave(c) /\ Returned(c, Failed)
    /\ routes' = IF kind[c] = "close" THEN routes \ {on[c]} ELSE routes
    /\ UNCHANGED asked

send_signed_message(c) ==
    /\ pc[c] = "sending" /\ (send_raw_message_inner(c) \/ send_fails(c))
    /\ UNCHANGED <<kind, on, repaired, out, retried, joined, awaited, queue, handlers, soon, taken,
                   data>>

\* wait_for_stream_reply: the queue is looked at, and the waiter is added
\* under the lock taken once more.
wait_for_stream_reply(c) ==
    LET s == on[c]
    IN  \/ /\ pc[c] = "lookup"
           /\ IF queue[s] = <<>>
              THEN pc' = [pc EXCEPT ![c] = "register"] /\ UNCHANGED <<sig, queue, awaited, taken>>
              ELSE /\ sig' = [sig EXCEPT ![c] = Head(queue[s])]
                   /\ queue' = [queue EXCEPT ![s] = Tail(@)]
                   /\ taken' = taken \o TakenBy(c, Head(queue[s]))
                   /\ pc' = [pc EXCEPT ![c] = "waiting"]
                   /\ UNCHANGED awaited
        \/ /\ pc[c] = "register"
           /\ awaited' = [awaited EXCEPT ![s] = Append(@, c)]
           /\ pc' = [pc EXCEPT ![c] = "waiting"] /\ sig' = [sig EXCEPT ![c] = None]
           /\ UNCHANGED <<queue, taken>>

ExpireKeyed(c) ==
    /\ pc[c] = "waiting" /\ sig[c] = None /\ kind[c] \in KeyedKind
    /\ pc' = [pc EXCEPT ![c] = "expired"]
    /\ UNCHANGED <<got, sig, pend, slot, awaited, routes>>

\* The timeout of a wait: the receiving end is gone, and the entry is removed
\* under the lock afterwards.
Expire(c) ==
    /\ pc[c] = "waiting" /\ sig[c] = None
    /\ pc' = [pc EXCEPT ![c] = "expired"]
    /\ UNCHANGED <<got, sig, pend, slot, awaited, routes>>

LeaveStreamWaiter(c) == UNCHANGED awaited

remove_stream_waiter(c) ==
    awaited' = [awaited EXCEPT ![on[c]] = SelectSeq(@, LAMBDA d : d # c)]

AfterExpiry(c) ==
    /\ pc[c] = "expired"
    /\ IF kind[c] \in StreamKind THEN remove_stream_waiter(c) ELSE UNCHANGED awaited
    /\ Leave(c) /\ Returned(c, TimedOut)
    /\ routes' = IF kind[c] = "close" THEN routes \ {on[c]} ELSE routes
-----------------------------------------------------------------------------
\* What each call does with what it waited for.
connect_returns(c, r) ==
    /\ Returned(c, r) /\ UNCHANGED repaired
    /\ routes' = IF r.st = "success" THEN routes \cup {on[c]} ELSE routes

listen_returns(c, r) == connect_returns(c, r)

accept_returns(c, r) ==
    /\ Returned(c, r) /\ UNCHANGED repaired
    /\ routes' = IF r.st = "new" THEN routes \cup {r.of} ELSE routes

send_returns(c, r) ==
    /\ IF r.st \in {"data", "new"} THEN pc' = [pc EXCEPT ![c] = "lookup"] /\ UNCHANGED got
                                   ELSE Returned(c, r)
    /\ UNCHANGED <<routes, repaired>>

close_returns(c, r) ==
    /\ IF r.st \in {"data", "new"} THEN pc' = [pc EXCEPT ![c] = "lookup"] /\ UNCHANGED got
                                   ELSE Returned(c, r)
    /\ routes' = IF r.st \in {"success", "closed", "failed"} THEN routes \ {on[c]} ELSE routes
    /\ UNCHANGED repaired

\* An unknown identity is repaired once: the identity is sent, which may fail,
\* and the request is made again.
endorsement_returns(c, r) ==
    /\ IF r.st = "unknown" /\ c \notin repaired
       THEN repaired' = repaired \cup {c} /\ pc' = [pc EXCEPT ![c] = "checked"] /\ UNCHANGED got
       ELSE Returned(c, r) /\ UNCHANGED repaired
    /\ UNCHANGED routes

other_returns(c, r) == Returned(c, r) /\ UNCHANGED <<routes, repaired>>

WaitEnds(c) ==
    /\ pc[c] = "waiting" /\ sig[c] # None /\ sig' = [sig EXCEPT ![c] = None]
    /\ LET r == sig[c] IN
       CASE kind[c] = "connect" -> connect_returns(c, r)
         [] kind[c] = "listen"  -> listen_returns(c, r)
         [] kind[c] = "accept"  -> accept_returns(c, r)
         [] kind[c] = "send"    -> send_returns(c, r)
         [] kind[c] = "close"   -> close_returns(c, r)
         [] kind[c] = "endorse" -> endorsement_returns(c, r)
         [] OTHER               -> other_returns(c, r)
-----------------------------------------------------------------------------
\* The receive task hands a message to whoever waits for it.
\* Status codes that do not end a connect or a listen are not sent to one.
handle_keyed(r) ==
    /\ pend' = pend \ {r.of}
    /\ sig' = IF r.of \in pend THEN [sig EXCEPT ![r.of] = r] ELSE sig
    /\ UNCHANGED <<awaited, slot, queue, routes, taken>>

\* A reply on a stream: the first waiter, or the queue.
handle_stream_reply(r) ==
    LET s == r.on IN
    /\ routes' = IF r.st = "new" THEN routes \cup {r.of} ELSE routes
    /\ IF awaited[s] # <<>>
       THEN LET w == Head(awaited[s]) IN
            /\ awaited' = [awaited EXCEPT ![s] = Tail(@)]
            /\ sig' = [sig EXCEPT ![w] = r]
            /\ taken' = IF pc[w] = "waiting" THEN taken \o TakenBy(w, r) ELSE taken
            /\ UNCHANGED queue
       ELSE /\ queue' = [queue EXCEPT ![s] = Append(@, r)]
            /\ UNCHANGED <<awaited, sig, taken>>
    /\ UNCHANGED <<pend, slot>>

handle_slot(r, k) ==
    /\ slot' = [slot EXCEPT ![k] = None]
    /\ sig' = IF slot[k] = None THEN sig ELSE [sig EXCEPT ![slot[k]] = r]
    /\ UNCHANGED <<pend, awaited, queue, routes, taken>>

dispatch_message ==
    \E r \in Incoming :
        /\ Arrives(r)
        /\ IF r.of = None THEN handle_stream_reply(r)
           ELSE \/ kind[r.of] \in KeyedKind /\ handle_keyed(r)
                \/ kind[r.of] \in StreamKind /\ handle_stream_reply(r)
                \/ kind[r.of] \in SharedKind /\ handle_slot(r, kind[r.of])
        /\ UNCHANGED <<kind, on, pc, got, repaired, out, retried, joined, handlers, soon>>

Begin(c) ==
    /\ \/ ping(c) \/ connect_tcp_ex(c) \/ listen_tcp_ex(c)
       \/ accept_tcp_ex(c) \/ stream_send(c) \/ stream_recv_ex(c) \/ stream_close(c)
       \/ resource_list(c) \/ send_name_request(c) \/ begin_endorsement_request(c)
    /\ UNCHANGED <<streamVars, peerVars, linkVars>>

\* The thread of a call runs, or its timer fires.
Proceed(c) ==
    /\ \/ send_endorsement_request(c) /\ UNCHANGED <<streamVars, peerVars>>
       \/ send_signed_message(c)
       \/ /\ wait_for_stream_reply(c)
          /\ UNCHANGED <<kind, on, got, repaired, out, retried, joined, pend, slot, handlers, soon,
                         routes, peerVars>>
       \/ /\ Expire(c) \/ AfterExpiry(c)
          /\ UNCHANGED <<kind, on, repaired, out, retried, joined, queue, handlers, soon, taken, peerVars>>
       \/ /\ WaitEnds(c)
          /\ UNCHANGED <<kind, on, out, retried, joined, waitVars, queue, handlers, soon, taken,
                         peerVars>>
    /\ UNCHANGED linkVars

Next ==
    \/ connect \/ perform_initial_identity_exchange \/ close
    \/ receive_loop_fails \/ reject_all_pending
    \/ dispatch_message /\ UNCHANGED linkVars
    \/ \E c \in Call : Begin(c) \/ Proceed(c)
=============================================================================
