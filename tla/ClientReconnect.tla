--------------------------- MODULE ClientReconnect ---------------------------
(* One connection of a client to a resource manager (ClientConnectionState)  *)
(* with its automatic reconnect.  The full client tries again after a failed *)
(* handshake; RSPClientMessage gives up, and has no other steps than it.     *)
(*                                                                           *)
(* A session is a transport connection with the encoding and the signing     *)
(* queue made for it.  The threads are the read thread of every session, the *)
(* reconnect threads, a caller of enableReconnect and one of                 *)
(* removeConnection (or stop, which removes every connection).               *)
EXTENDS Naturals

CONSTANTS Session, Thread, NoSession, NoThread

ASSUME NoneAssumption == NoSession \notin Session /\ NoThread \notin Thread

VARIABLES
    table,          \* session of the connection in connections_, or NoSession
    registered,     \* connectToResourceManager has entered the connection
    active,         \* activeConnection_ of the transport
    transportStop,  \* stopping_ of the transport
    link,           \* the socket of a session
    reader,         \* its read thread
    running,        \* sessions whose encoding has running_ set
    callback,       \* sessions whose encoding has a disconnectCallback_
    signing,        \* sessions whose signing queue runs
    stopping, inProgress, handle,  \* ReconnectContext, its thread
    pc, new, old,   \* reconnect threads and their locals
    enabling,       \* encoding that enableReconnect is about to watch
    remover, removed

sessionVars == <<link, running, reader, callback, signing>>
contextVars == <<stopping, inProgress, handle>>
threadVars  == <<pc, new, old>>
removerVars == <<remover, removed>>
vars == <<table, registered, active, transportStop, sessionVars, contextVars, threadVars,
          enabling, removerVars>>

Init ==
    /\ table = NoSession /\ registered = FALSE
    /\ active = NoSession /\ transportStop = FALSE
    /\ link = [s \in Session |-> "none"]
    /\ reader = [s \in Session |-> "none"]
    /\ running = {} /\ callback = {} /\ signing = {}
    /\ stopping = TRUE /\ inProgress = FALSE /\ handle = NoThread
    /\ pc = [t \in Thread |-> "idle"]
    /\ new = [t \in Thread |-> NoSession]
    /\ old = [t \in Thread |-> NoSession]
    /\ enabling = NoSession
    /\ remover = "idle" /\ removed = NoSession

(* connectionsMutex_ is held by a thread that stops a session in the swap,   *)
(* threadMutex by the remover while it joins the reconnect thread.           *)
ConnectionsMutexFree == \A t \in Thread : pc[t] # "abandon"
ThreadMutexFree == remover # "joining"

(* connect of the transport: a new connection replaces and closes the last.  *)
Connected(s) ==
    /\ link[s] = "none"
    /\ link' = [x \in Session |-> CASE x = s -> "up"
                                    [] x = active -> "down"
                                    [] OTHER -> link[x]]
    /\ active' = s

(* The encoding and the signing queue of session s start.                    *)
StartSession(s) ==
    /\ running' = running \cup {s}
    /\ reader' = [reader EXCEPT ![s] = "reading"]
    /\ signing' = signing \cup {s}

(* Encoding::stop up to the join: running_ is cleared, the socket closed.    *)
StopEncoding(s) ==
    /\ running' = running \ {s}
    /\ link' = [link EXCEPT ![s] = "down"]

(* Encoding::stop joins the read thread.                                     *)
JoinReader(s) ==
    /\ reader[s] = "finished"
    /\ reader' = [reader EXCEPT ![s] = "joined"]
-----------------------------------------------------------------------------
(* A connection with its handshakes done and its encoding started.           *)
Established(s) == Connected(s) /\ StartSession(s)

(* connectToResourceManager starts a session, which the peer may drop, and   *)
(* enters it with reconnect disabled.  A failed attempt leaves nothing.      *)
Connect(s) ==
    /\ active = NoSession /\ ~registered /\ link[s] = "none"
    /\ Established(s)
    /\ UNCHANGED <<table, registered, transportStop, callback, contextVars, threadVars,
                   enabling, removerVars>>

Register ==
    /\ active # NoSession /\ ~registered
    /\ table' = active /\ registered' = TRUE
    /\ UNCHANGED <<active, transportStop, sessionVars, contextVars, threadVars, enabling,
                   removerVars>>

(* enableReconnect: under the lock it clears stopping and copies the         *)
(* encoding, and sets the callback after the lock.                           *)
EnableReconnect ==
    /\ table # NoSession /\ enabling = NoSession /\ ConnectionsMutexFree
    /\ stopping' = FALSE
    /\ enabling' = table
    /\ UNCHANGED <<table, registered, active, transportStop, sessionVars, inProgress,
                   handle, threadVars, removerVars>>

WatchEnabled ==
    /\ enabling # NoSession
    /\ callback' = callback \cup {enabling}
    /\ enabling' = NoSession
    /\ UNCHANGED <<table, registered, active, transportStop, link, running, reader, signing,
                   contextVars, threadVars, removerVars>>
-----------------------------------------------------------------------------
(* The peer or the network drops a connection.                               *)
Drop(s) ==
    /\ link[s] = "up"
    /\ link' = [link EXCEPT ![s] = "down"]
    /\ UNCHANGED <<table, registered, active, transportStop, running, reader, callback,
                   signing, contextVars, threadVars, enabling, removerVars>>

Reads(s, next) == reader' = [reader EXCEPT ![s] = next]

(* Mutant: running_ is read after it has been cleared.                       *)
ReadLoopEndsUnnoticed(s) ==
    /\ reader[s] = "reading" /\ (link[s] = "down" \/ s \notin running)
    /\ Reads(s, "finished")
    /\ running' = running \ {s}
    /\ UNCHANGED <<table, registered, active, transportStop, link, callback, signing,
                   contextVars, threadVars, enabling, removerVars>>

(* readLoop ends: a failed read of a running encoding is a lost connection.  *)
ReadLoopEnds(s) ==
    /\ reader[s] = "reading" /\ (link[s] = "down" \/ s \notin running)
    /\ Reads(s, IF s \in running THEN "lost" ELSE "finished")
    /\ running' = running \ {s}
    /\ UNCHANGED <<table, registered, active, transportStop, link, callback, signing,
                   contextVars, threadVars, enabling, removerVars>>

ReportLost(s) ==
    /\ reader[s] = "lost"
    /\ Reads(s, IF s \in callback THEN "trigger" ELSE "finished")
    /\ UNCHANGED <<table, registered, active, transportStop, link, running, callback,
                   signing, contextVars, threadVars, enabling, removerVars>>

(* triggerReconnect: a test of stopping, ...                                 *)
TriggerReconnect(s) ==
    /\ reader[s] = "trigger"
    /\ Reads(s, IF stopping THEN "finished" ELSE "claim")
    /\ UNCHANGED <<table, registered, active, transportStop, link, running, callback,
                   signing, contextVars, threadVars, enabling, removerVars>>

(* Mutant: the flag is set without a look at its last value.                 *)
ClaimUnchecked(s) ==
    /\ reader[s] = "claim"
    /\ Reads(s, "launch")
    /\ inProgress' = TRUE
    /\ UNCHANGED <<table, registered, active, transportStop, link, running, callback,
                   signing, stopping, handle, threadVars, enabling, removerVars>>

(* ... the compare-and-swap of inProgress, ...                               *)
ClaimReconnect(s) ==
    /\ reader[s] = "claim"
    /\ Reads(s, IF inProgress THEN "finished" ELSE "launch")
    /\ inProgress' = TRUE
    /\ UNCHANGED <<table, registered, active, transportStop, link, running, callback,
                   signing, stopping, handle, threadVars, enabling, removerVars>>

(* ... and under threadMutex the start of a thread, after the last one has   *)
(* been detached.                                                            *)
LaunchReconnect(s, t) ==
    /\ reader[s] = "launch" /\ pc[t] = "idle" /\ ThreadMutexFree
    /\ Reads(s, "finished")
    /\ handle' = t
    /\ pc' = [pc EXCEPT ![t] = "lookup"]
    /\ UNCHANGED <<table, registered, active, transportStop, link, running, callback,
                   signing, stopping, inProgress, new, old, enabling, removerVars>>

ReaderStep(s) ==
    \/ ReadLoopEnds(s) \/ ReportLost(s) \/ TriggerReconnect(s) \/ ClaimReconnect(s)
    \/ \E t \in Thread : LaunchReconnect(s, t)
-----------------------------------------------------------------------------
Goto(t, next) == pc' = [pc EXCEPT ![t] = next]

(* doReconnect of thread t returns.                                          *)
Finish(t) == Goto(t, "idle") /\ inProgress' = FALSE

(* Continue with next unless the connection is being removed.                *)
UnlessStopping(t, next) ==
    \/ stopping /\ Finish(t)
    \/ ~stopping /\ Goto(t, next) /\ UNCHANGED inProgress

Lookup(t) ==
    /\ pc[t] = "lookup" /\ ConnectionsMutexFree
    /\ IF table = NoSession THEN Finish(t) ELSE UnlessStopping(t, "connect")
    /\ UNCHANGED <<table, registered, active, transportStop, sessionVars, stopping, handle,
                   new, old, enabling, removerVars>>

(* TcpTransport::reconnect gives up once it is stopped ...                   *)
TransportReconnect(t) ==
    /\ pc[t] = "connect"
    /\ \/ transportStop /\ Finish(t)
       \/ ~transportStop /\ Goto(t, "connecting") /\ UNCHANGED inProgress
    /\ UNCHANGED <<table, registered, active, transportStop, sessionVars, stopping, handle,
                   new, old, enabling, removerVars>>

(* ... and backs off after a failed attempt.                                 *)
ConnectFails(t) ==
    /\ pc[t] = "connecting"
    /\ Goto(t, "connect")
    /\ UNCHANGED <<table, registered, active, transportStop, sessionVars, contextVars,
                   new, old, enabling, removerVars>>

ConnectSucceeds(t, s) ==
    /\ pc[t] = "connecting"
    /\ Connected(s)
    /\ new' = [new EXCEPT ![t] = s]
    /\ Goto(t, "connected")
    /\ UNCHANGED <<table, registered, transportStop, running, reader, callback, signing,
                   contextVars, old, enabling, removerVars>>

CheckConnected(t) ==
    /\ pc[t] = "connected"
    /\ UnlessStopping(t, "handshake")
    /\ UNCHANGED <<table, registered, active, transportStop, sessionVars, stopping, handle,
                   new, old, enabling, removerVars>>

(* ASCII handshake and identity exchange of the new connection need it up.   *)
PerformClientHandshake(s) == link[s] = "up"

HandshakeSucceeds(t) ==
    /\ pc[t] = "handshake" /\ PerformClientHandshake(new[t])
    /\ Goto(t, "start")
    /\ UNCHANGED <<table, registered, active, transportStop, sessionVars, contextVars,
                   new, old, enabling, removerVars>>

(* The full client tries again, the other one gives up.                      *)
HandshakeFails(t) ==
    /\ pc[t] = "handshake"
    /\ \/ Goto(t, "delay") /\ UNCHANGED inProgress
       \/ Finish(t)
    /\ UNCHANGED <<table, registered, active, transportStop, sessionVars, stopping, handle,
                   new, old, enabling, removerVars>>

(* The full client waits with stopCondition, for which it takes threadMutex, *)
(* gives it up unless it is told to stop, and takes it again.                *)
BeginDelay(t) ==
    /\ pc[t] = "delay" /\ ThreadMutexFree
    /\ UnlessStopping(t, "delaying")
    /\ UNCHANGED <<table, registered, active, transportStop, sessionVars, stopping, handle,
                   new, old, enabling, removerVars>>

EndDelay(t) ==
    /\ pc[t] = "delaying" /\ ThreadMutexFree
    /\ UnlessStopping(t, "connect")
    /\ UNCHANGED <<table, registered, active, transportStop, sessionVars, stopping, handle,
                   new, old, enabling, removerVars>>

StartNew(t) ==
    /\ pc[t] = "start"
    /\ \/ /\ stopping /\ Finish(t)
          /\ UNCHANGED <<running, reader, signing>>
       \/ /\ ~stopping /\ StartSession(new[t])
          /\ Goto(t, "swap") /\ UNCHANGED inProgress
    /\ UNCHANGED <<table, registered, active, transportStop, link, callback, stopping,
                   handle, new, old, enabling, removerVars>>

(* Mutant: a session that finds its connection removed is not stopped.       *)
SwapLeaks(t) ==
    /\ pc[t] = "swap" /\ ConnectionsMutexFree
    /\ \/ /\ table = NoSession \/ stopping
          /\ Finish(t)
          /\ UNCHANGED <<table, old>>
       \/ /\ table # NoSession /\ ~stopping
          /\ old' = [old EXCEPT ![t] = table]
          /\ table' = new[t]
          /\ Goto(t, "stopOld")
          /\ UNCHANGED inProgress
    /\ UNCHANGED <<registered, active, transportStop, sessionVars, stopping, handle, new,
                   enabling, removerVars>>

(* The new session replaces the old one, or is stopped inside the lock when  *)
(* the connection has been removed.                                          *)
Swap(t) ==
    /\ pc[t] = "swap" /\ ConnectionsMutexFree
    /\ \/ /\ table = NoSession \/ stopping
          /\ StopEncoding(new[t])
          /\ Goto(t, "abandon")
          /\ UNCHANGED <<table, old>>
       \/ /\ table # NoSession /\ ~stopping
          /\ old' = [old EXCEPT ![t] = table]
          /\ table' = new[t]
          /\ Goto(t, "stopOld")
          /\ UNCHANGED <<running, link>>
    /\ UNCHANGED <<registered, active, transportStop, reader, callback, signing,
                   contextVars, new, enabling, removerVars>>

Abandon(t) ==
    /\ pc[t] = "abandon"
    /\ JoinReader(new[t])
    /\ signing' = signing \ {new[t]}
    /\ Finish(t)
    /\ UNCHANGED <<table, registered, active, transportStop, link, running, callback,
                   stopping, handle, new, old, enabling, removerVars>>

StopOld(t) ==
    /\ pc[t] = "stopOld"
    /\ signing' = signing \ {old[t]}
    /\ StopEncoding(old[t])
    /\ Goto(t, "joinOld")
    /\ UNCHANGED <<table, registered, active, transportStop, reader, callback, contextVars,
                   new, old, enabling, removerVars>>

JoinOld(t) ==
    /\ pc[t] = "joinOld"
    /\ JoinReader(old[t])
    /\ Goto(t, "watch")
    /\ UNCHANGED <<table, registered, active, transportStop, link, running, callback,
                   signing, contextVars, new, old, enabling, removerVars>>

WatchNew(t) ==
    /\ pc[t] = "watch"
    /\ callback' = callback \cup {new[t]}
    /\ Goto(t, "notify")
    /\ UNCHANGED <<table, registered, active, transportStop, link, running, reader, signing,
                   contextVars, new, old, enabling, removerVars>>

(* onReconnected, after which another reconnect may start.                   *)
OnReconnected(t) ==
    /\ pc[t] = "notify"
    /\ Finish(t)
    /\ UNCHANGED <<table, registered, active, transportStop, sessionVars, stopping, handle,
                   new, old, enabling, removerVars>>

ReconnectStep(t) ==
    \/ Lookup(t) \/ TransportReconnect(t) \/ ConnectFails(t) \/ CheckConnected(t)
    \/ BeginDelay(t) \/ EndDelay(t) \/ StartNew(t) \/ Swap(t) \/ Abandon(t)
    \/ StopOld(t) \/ JoinOld(t) \/ WatchNew(t) \/ OnReconnected(t)
-----------------------------------------------------------------------------
Proceed(from, to) == remover = from /\ remover' = to

(* removeConnection takes the connection out of the table, ...               *)
RemoveConnection ==
    /\ table # NoSession /\ ConnectionsMutexFree
    /\ Proceed("idle", "abort")
    /\ removed' = table /\ table' = NoSession
    /\ UNCHANGED <<registered, active, transportStop, sessionVars, contextVars, threadVars,
                   enabling>>

(* ... tells a reconnect to stop, ...                                        *)
AbortReconnect ==
    /\ Proceed("abort", "stopTransport")
    /\ stopping' = TRUE
    /\ UNCHANGED <<table, registered, active, transportStop, sessionVars, inProgress, handle,
                   threadVars, enabling, removed>>

(* ... stops the transport: first its retry loop, then its connection, ...   *)
StopTransport ==
    /\ Proceed("stopTransport", "closeActive")
    /\ transportStop' = TRUE
    /\ UNCHANGED <<table, registered, active, sessionVars, contextVars, threadVars, enabling,
                   removed>>

(* Mutant: the connection is left to a handshake that waits for the peer.    *)
CloseNothing ==
    /\ Proceed("closeActive", "lock")
    /\ active' = NoSession
    /\ UNCHANGED <<table, registered, transportStop, sessionVars, contextVars, threadVars,
                   enabling, removed>>

CloseActive ==
    /\ Proceed("closeActive", "lock")
    /\ link' = [s \in Session |-> IF s = active THEN "down" ELSE link[s]]
    /\ active' = NoSession
    /\ UNCHANGED <<table, registered, transportStop, running, reader, callback, signing,
                   contextVars, threadVars, enabling, removed>>

(* Mutant: the thread is left alone.                                         *)
LockThreadSkipsJoin ==
    /\ Proceed("lock", "stop")
    /\ UNCHANGED <<table, registered, active, transportStop, sessionVars, contextVars,
                   threadVars, enabling, removed>>

(* ... joins the reconnect thread, if there is one, holding threadMutex, ... *)
LockThread ==
    /\ Proceed("lock", IF handle = NoThread THEN "stop" ELSE "joining")
    /\ UNCHANGED <<table, registered, active, transportStop, sessionVars, contextVars,
                   threadVars, enabling, removed>>

JoinThread ==
    /\ Proceed("joining", "stop")
    /\ pc[handle] = "idle"
    /\ handle' = NoThread
    /\ UNCHANGED <<table, registered, active, transportStop, sessionVars, stopping,
                   inProgress, threadVars, enabling, removed>>

(* ... and stops the encoding and the signing queue.                         *)
StopRemoved ==
    /\ Proceed("stop", "joinReader")
    /\ StopEncoding(removed)
    /\ UNCHANGED <<table, registered, active, transportStop, reader, callback, signing,
                   contextVars, threadVars, enabling, removed>>

JoinRemoved ==
    /\ Proceed("joinReader", "done")
    /\ JoinReader(removed)
    /\ signing' = signing \ {removed}
    /\ UNCHANGED <<table, registered, active, transportStop, link, running, callback,
                   contextVars, threadVars, enabling, removed>>

RemoverStep ==
    \/ AbortReconnect \/ StopTransport \/ CloseActive \/ LockThread \/ JoinThread
    \/ StopRemoved \/ JoinRemoved

Next ==
    \/ \E s \in Session : Connect(s) \/ Drop(s) \/ ReaderStep(s)
    \/ Register \/ EnableReconnect \/ WatchEnabled
    \/ \E t \in Thread :
         \/ ReconnectStep(t) \/ HandshakeSucceeds(t) \/ HandshakeFails(t)
         \/ \E s \in Session : ConnectSucceeds(t, s)
    \/ RemoveConnection \/ RemoverStep

(* Threads run.  A handshake need not end while its connection is up: the    *)
(* peer may be silent.                                                       *)
Fairness ==
    /\ WF_vars(RemoverStep) /\ WF_vars(WatchEnabled)
    /\ \A s \in Session : WF_vars(ReaderStep(s))
    /\ \A t \in Thread : /\ WF_vars(ReconnectStep(t))
                         /\ WF_vars(new[t] # NoSession /\ link[new[t]] = "down"
                                    /\ HandshakeFails(t))

Spec == Init /\ [][Next]_vars /\ Fairness
-----------------------------------------------------------------------------
ReaderState == {"none", "reading", "lost", "trigger", "claim", "launch", "finished",
                "joined"}
ThreadState == {"idle", "lookup", "connect", "connecting", "connected", "handshake",
                "delay", "delaying", "start", "swap", "abandon", "stopOld", "joinOld",
                "watch", "notify"}
RemoverState == {"idle", "abort", "stopTransport", "closeActive", "lock", "joining", "stop",
                 "joinReader", "done"}

TypeOK ==
    /\ table \in Session \cup {NoSession} /\ registered \in BOOLEAN
    /\ active \in Session \cup {NoSession} /\ transportStop \in BOOLEAN
    /\ link \in [Session -> {"none", "up", "down"}]
    /\ reader \in [Session -> ReaderState]
    /\ running \subseteq Session /\ callback \subseteq Session /\ signing \subseteq Session
    /\ stopping \in BOOLEAN /\ inProgress \in BOOLEAN
    /\ handle \in Thread \cup {NoThread}
    /\ pc \in [Thread -> ThreadState]
    /\ new \in [Thread -> Session \cup {NoSession}]
    /\ old \in [Thread -> Session \cup {NoSession}]
    /\ enabling \in Session \cup {NoSession}
    /\ remover \in RemoverState
    /\ removed \in Session \cup {NoSession}

(* Who will stop session s: the connection in the table, the thread that     *)
(* set it up, the thread that replaced it, the remover, the first connect.   *)
ByThread(t, s) ==
    \/ new[t] = s /\ pc[t] \in {"swap", "abandon"}
    \/ old[t] = s /\ pc[t] \in {"stopOld", "joinOld"}

Owners(s) ==
    {o \in {<<"table", NoThread>>, <<"connect", NoThread>>, <<"remover", NoThread>>} :
        \/ o[1] = "table" /\ table = s
        \/ o[1] = "connect" /\ ~registered /\ active = s
        \/ o[1] = "remover" /\ removed = s /\ remover # "done"}
    \cup {<<"thread", t>> : t \in {u \in Thread : ByThread(u, s)}}

(* The read thread of session s has been started and not joined.             *)
Alive(s) == reader[s] \notin {"none", "joined"}

(* A session whose read thread has been started and not joined is owned by   *)
(* exactly one of the parties that stop sessions, however a removal, a drop  *)
(* and a reconnect interleave: none leaks, and none is joined twice.  What   *)
(* send takes from the table is a running signing queue.                     *)
EverySessionIsOwned ==
    /\ \A s \in Session : IF Alive(s) THEN \E o \in Owners(s) : Owners(s) = {o}
                                      ELSE Owners(s) = {}
    /\ table # NoSession => table \in signing

(* At most one reconnect of the connection runs, and it is the one whose     *)
(* thread a removal would join: triggerReconnect detaches finished threads.  *)
OneReconnect ==
    \A t \in Thread : pc[t] # "idle" => inProgress /\ handle = t

(* When removeConnection has returned, no encoding, read thread or signing   *)
(* queue of the connection runs, or ever will.                               *)
RemovedIsQuiet ==
    remover = "done" =>
        \A s \in Session : /\ s \notin running /\ s \notin signing
                           /\ reader[s] \in {"none", "joined"}

(* A reconnect in the delay that follows a failed handshake needs the mutex  *)
(* that the remover holds while it joins.                                    *)
WaitForEachOther == remover = "joining" /\ pc[handle] \in {"delay", "delaying"}

(* removeConnection returns, also from the middle of a reconnect with a      *)
(* silent peer, unless it meets the full client's delay.                     *)
RemovalEnds == remover # "idle" ~> (remover = "done" \/ WaitForEachOther)

(* A drop of a watched session, while no reconnect is under way, starts one. *)
DropIsNoticed ==
    \A s \in Session :
        (table = s /\ s \in callback /\ s \in running /\ link[s] = "down" /\ ~inProgress)
            ~> (inProgress \/ table # s)
=============================================================================
