-------------------------- MODULE NameRegistration --------------------------
(***************************************************************************)
(* The names a C++ client keeps registered (client/cpp/rsp_client.cpp):    *)
(* registerNameWithRefresh, the refresh thread, and the events that a name *)
(* service has connected; together with the name service, and with the     *)
(* faults that come between: a restart of the service, a crash of an       *)
(* owner, lost requests, replies, pings and events.                        *)
(*                                                                         *)
(* Each owner is one client with one entry in refreshRegistrations_.  Its  *)
(* application and its refresh thread wait for name replies in the same    *)
(* slot (nameReplyPending_ and nameReplyResult_).                          *)
(***************************************************************************)
EXTENDS NameService

CONSTANT
    Plans       \* bounded runs: the owners that take part, the calls an
                \* application makes, and the number of faults

VARIABLES
    plan,
    up,                     \* the client process runs
    registered,             \* refreshRegistrations_ has the entry
    refresher,              \* the refresh thread
    application,            \* the application's name call
    pending, result,        \* the slot for name replies
    pendingRereg, failed,   \* pendingReregistrations_, failedRegistrations_
    bootSeen,               \* nsBootIds_
    event,                  \* a NodeConnectedEvent on its way
    since,                  \* time since the refresh thread last ran
    boot,                   \* the boot id of the name service
    calls, faults

clientVars == <<up, registered, refresher, application, pending, result, pendingRereg, failed,
                bootSeen, event, since>>
vars == <<plan, nsVars, clientVars, boot, calls, faults>>

MaxInFlight == 2        \* requests and replies of one owner under way

Init ==
    /\ plan \in Plans
    /\ NsInit
    /\ up = [o \in Owner |-> o \in plan.owners] /\ registered = [o \in Owner |-> FALSE]
    /\ refresher = [o \in Owner |-> "off"] /\ application = [o \in Owner |-> "idle"]
    /\ pending = [o \in Owner |-> FALSE] /\ result = [o \in Owner |-> None]
    /\ pendingRereg = [o \in Owner |-> FALSE] /\ failed = [o \in Owner |-> FALSE]
    /\ bootSeen = [o \in Owner |-> None] /\ event = [o \in Owner |-> None]
    /\ since = [o \in Owner |-> 0]
    /\ boot = 0 /\ calls = 0 /\ faults = 0

Fault == faults < plan.faults /\ faults' = faults + 1

InFlight(o) ==
    Len(SelectSeq(reqs, LAMBDA q : q.from = o)) + Len(replies[o])

\* sendNameRequestImpl: the slot is taken and the request sent.  A send that
\* fails is a lost request whose wait ends at once.
sendNameRequestImpl(o, op) ==
    /\ InFlight(o) < MaxInFlight
    /\ pending' = [pending EXCEPT ![o] = TRUE] /\ result' = [result EXCEPT ![o] = None]
    /\ \/ reqs' = Append(reqs, Request(o, op)) /\ UNCHANGED faults
       \/ Fault /\ UNCHANGED reqs

\* The wait ends when the flag is down, with whatever reply is in the slot, or
\* times out; a timeout with the answer still under way is a fault.
WaitIsOver(o) == ~pending[o] \/ InFlight(o) = 0

WaitTimesOut(o) ==
    /\ pending[o] /\ InFlight(o) > 0 /\ Fault
    /\ pending' = [pending EXCEPT ![o] = FALSE]
    /\ UNCHANGED <<nsVars, up, registered, refresher, application, result, pendingRereg, failed,
                   bootSeen, event, since, boot, calls>>

NameReturns(o) ==
    /\ pending' = [pending EXCEPT ![o] = FALSE]
    /\ result' = IF pending[o] THEN result ELSE [result EXCEPT ![o] = None]

Returned(o) == IF pending[o] \/ result[o] = None THEN "none" ELSE result[o].st

handleNameServiceReply(o) ==
    /\ up[o] /\ replies[o] # <<>> /\ replies' = [replies EXCEPT ![o] = Tail(@)]
    /\ \/ /\ UNCHANGED faults
          /\ pending' = [pending EXCEPT ![o] = FALSE]
          /\ result' = IF pending[o] THEN [result EXCEPT ![o] = Head(replies[o])] ELSE result
       \/ Fault /\ UNCHANGED <<pending, result>>
    /\ UNCHANGED <<recs, pingQueue, pinging, verdict, reqs, up, registered, refresher, application,
                   pendingRereg, failed, bootSeen, event, since, boot, calls>>
-----------------------------------------------------------------------------
\* The application registers its name, and then makes other calls.
Apply(o, op) ==
    /\ up[o] /\ application[o] = "idle"
    /\ application' = [application EXCEPT ![o] = op]
    /\ UNCHANGED <<recs, pingQueue, pinging, verdict, replies, up, registered, refresher,
                   pendingRereg, failed, bootSeen, event, since, boot>>

registerNameWithRefresh(o) ==
    /\ ~registered[o] /\ Apply(o, "register") /\ sendNameRequestImpl(o, "create")
    /\ UNCHANGED calls

NameCall(o) ==
    /\ registered[o] /\ calls < plan.calls /\ calls' = calls + 1
    /\ \E op \in {"read", "query", "update", "delete"} :
          Apply(o, op) /\ sendNameRequestImpl(o, op)

\* Anything but success marks the name service for another registration.
CallReturns(o) ==
    /\ application[o] # "idle" /\ WaitIsOver(o) /\ NameReturns(o)
    /\ application' = [application EXCEPT ![o] = "idle"]
    /\ IF application[o] = "register"
       THEN /\ registered' = [registered EXCEPT ![o] = TRUE]
            /\ refresher' = [refresher EXCEPT ![o] = "sleep"]
            /\ since' = [since EXCEPT ![o] = 0]
            /\ pendingRereg' = [pendingRereg EXCEPT ![o] = @ \/ Returned(o) # "success"]
       ELSE UNCHANGED <<registered, refresher, since, pendingRereg>>
    /\ UNCHANGED <<nsVars, up, failed, bootSeen, event, boot, calls, faults>>
-----------------------------------------------------------------------------
\* runRefreshThread wakes up for a pending registration, after the retry
\* interval if one failed, or after the refresh interval.
RefreshWakes(o) ==
    /\ up[o] /\ refresher[o] = "sleep"
    /\ pendingRereg[o] \/ failed[o] \/ since[o] > 0
    /\ LET op == IF pendingRereg[o] \/ failed[o] THEN "create" ELSE "refresh" IN
       /\ refresher' = [refresher EXCEPT ![o] = op]
       /\ sendNameRequestImpl(o, op)
    /\ pendingRereg' = [pendingRereg EXCEPT ![o] = FALSE]
    /\ failed' = [failed EXCEPT ![o] = FALSE]
    /\ UNCHANGED <<recs, pingQueue, pinging, verdict, replies, up, registered, application, bootSeen,
                   event, since, boot, calls>>

Sleeps(o) ==
    /\ refresher' = [refresher EXCEPT ![o] = "sleep"] /\ since' = [since EXCEPT ![o] = 0]

RefreshTrusts(o) ==
    /\ refresher[o] = "refresh" /\ WaitIsOver(o) /\ Sleeps(o) /\ NameReturns(o)
    /\ UNCHANGED <<nsVars, up, registered, application, pendingRereg, failed, bootSeen, event, boot,
                   calls, faults>>

\* A refresh without an answer, or of a record that is gone, creates it again.
RefreshReturns(o) ==
    /\ refresher[o] = "refresh" /\ WaitIsOver(o)
    /\ IF Returned(o) \in {"none", "notfound"}
       THEN /\ refresher' = [refresher EXCEPT ![o] = "create"]
            /\ sendNameRequestImpl(o, "create") /\ UNCHANGED since
       ELSE Sleeps(o) /\ NameReturns(o) /\ UNCHANGED <<reqs, faults>>
    /\ UNCHANGED <<recs, pingQueue, pinging, verdict, replies, up, registered, application,
                   pendingRereg, failed, bootSeen, event, boot, calls>>

\* A duplicate counts as registered; no answer is tried again.
CreateReturns(o) ==
    /\ refresher[o] = "create" /\ WaitIsOver(o) /\ Sleeps(o) /\ NameReturns(o)
    /\ failed' = [failed EXCEPT ![o] = @ \/ Returned(o) = "none"]
    /\ UNCHANGED <<nsVars, up, registered, application, pendingRereg, bootSeen, event, boot, calls,
                   faults>>

\* handleLogRecord: a name service with the boot id seen last has only
\* reconnected.
handleLogRecord(o) ==
    /\ up[o] /\ event[o] # None /\ event' = [event EXCEPT ![o] = None]
    /\ \/ /\ registered[o] /\ bootSeen[o] # event[o]
          /\ bootSeen' = [bootSeen EXCEPT ![o] = event[o]]
          /\ pendingRereg' = [pendingRereg EXCEPT ![o] = TRUE] /\ UNCHANGED faults
       \/ /\ registered[o] => bootSeen[o] = event[o]
          /\ UNCHANGED <<bootSeen, pendingRereg, faults>>
       \/ Fault /\ UNCHANGED <<bootSeen, pendingRereg>>
    /\ UNCHANGED <<nsVars, up, registered, refresher, application, pending, result, failed, since,
                   boot, calls>>
-----------------------------------------------------------------------------
\* The log subscriptions of the clients tell them that the service connected.
Announce(b) == event' = [o \in Owner |-> IF up[o] /\ registered[o] THEN b ELSE event[o]]

NameServiceReconnects ==
    /\ Fault /\ Announce(boot)
    /\ UNCHANGED <<nsVars, up, registered, refresher, application, pending, result, pendingRereg,
                   failed, bootSeen, since, boot, calls>>

NameServiceRestarts ==
    /\ Fault /\ NsRestart /\ boot' = boot + 1 /\ Announce(boot + 1)
    /\ UNCHANGED <<up, registered, refresher, application, pending, result, pendingRereg, failed,
                   bootSeen, since, calls>>

\* An owner ends or starts again; its client keeps nothing.
OwnerCrashes(o) ==
    /\ up[o] /\ Fault /\ up' = [up EXCEPT ![o] = FALSE]
    /\ registered' = [registered EXCEPT ![o] = FALSE]
    /\ refresher' = [refresher EXCEPT ![o] = "off"]
    /\ application' = [application EXCEPT ![o] = "idle"]
    /\ pending' = [pending EXCEPT ![o] = FALSE] /\ result' = [result EXCEPT ![o] = None]
    /\ pendingRereg' = [pendingRereg EXCEPT ![o] = FALSE] /\ failed' = [failed EXCEPT ![o] = FALSE]
    /\ bootSeen' = [bootSeen EXCEPT ![o] = None] /\ event' = [event EXCEPT ![o] = None]
    /\ since' = [since EXCEPT ![o] = 0] /\ replies' = [replies EXCEPT ![o] = <<>>]
    /\ UNCHANGED <<recs, pingQueue, pinging, verdict, reqs, boot, calls>>

OwnerStarts(o) ==
    /\ o \in plan.owners /\ ~up[o] /\ up' = [up EXCEPT ![o] = TRUE]
    /\ UNCHANGED <<nsVars, registered, refresher, application, pending, result, pendingRereg, failed,
                   bootSeen, event, since, boot, calls, faults>>

NameServiceRuns ==
    /\ \/ handleNodeSpecificMessage \/ runSweepThread \/ PingStarts \/ ExpireOld
    /\ UNCHANGED <<clientVars, boot, calls, faults>>

\* An owner that runs answers a ping, unless the ping or its reply is lost.
Pings ==
    /\ \/ pinging # None /\ PingReturns(up[pinging]) /\ UNCHANGED faults
       \/ PingReturns(FALSE) /\ Fault
    /\ UNCHANGED <<clientVars, boot, calls>>

\* A call lasts at most 5 s and a retry comes after 15 s: both are over before
\* a unit of time has passed, and so is a ping.
Idle(o) ==
    /\ application[o] = "idle" /\ refresher[o] \in {"off", "sleep"}
    /\ ~pendingRereg[o] /\ ~failed[o] /\ since[o] = 0

Tick ==
    /\ \A o \in Owner : Idle(o)
    /\ pinging = None /\ pingQueue = <<>> /\ reqs = <<>>
    /\ Ages
    /\ since' = [o \in Owner |-> IF refresher[o] = "sleep" THEN 1 ELSE 0]
    /\ UNCHANGED <<pingQueue, pinging, verdict, reqs, replies, up, registered, refresher, application,
                   pending, result, pendingRereg, failed, bootSeen, event, boot, calls, faults>>

Client(o) ==
    \/ handleNameServiceReply(o) \/ WaitTimesOut(o) \/ CallReturns(o) \/ handleLogRecord(o)
    \/ RefreshWakes(o) \/ RefreshReturns(o) \/ CreateReturns(o)

Next ==
    /\ \/ NameServiceRuns \/ Pings \/ Tick \/ NameServiceReconnects \/ NameServiceRestarts
       \/ \E o \in Owner : Client(o) \/ registerNameWithRefresh(o) \/ NameCall(o)
                               \/ OwnerCrashes(o) \/ OwnerStarts(o)
    /\ UNCHANGED plan

\* Threads run, messages that are not lost arrive, and time passes.
restVars == <<plan, clientVars, boot, calls, faults>>

Spec ==
    /\ Init /\ [][Next]_vars
    /\ WF_vars(handleNodeSpecificMessage /\ UNCHANGED restVars)
    /\ WF_vars(runSweepThread /\ UNCHANGED restVars)
    /\ WF_vars(PingStarts /\ UNCHANGED restVars) /\ WF_vars(ExpireOld /\ UNCHANGED restVars)
    /\ WF_vars(Pings /\ UNCHANGED plan) /\ WF_vars(Tick /\ UNCHANGED plan)
    /\ \A o \in Owner :
          /\ WF_vars(handleNameServiceReply(o) /\ UNCHANGED plan)
          /\ WF_vars(CallReturns(o) /\ UNCHANGED plan)
          /\ WF_vars(handleLogRecord(o) /\ UNCHANGED plan)
          /\ WF_vars(RefreshWakes(o) /\ UNCHANGED plan)
          /\ WF_vars(RefreshReturns(o) /\ UNCHANGED plan)
          /\ WF_vars(CreateReturns(o) /\ UNCHANGED plan)
-----------------------------------------------------------------------------
Op == {"create", "read", "query", "update", "delete", "refresh"}

TypeOK ==
    /\ recs \in [Owner -> Absent .. TTL] /\ pingQueue \in Seq(Owner)
    /\ pinging \in Owner \cup {None} /\ verdict \in {"none", "alive", "dead"}
    /\ reqs \in Seq([from : Owner, op : Op])
    /\ \A o \in Owner : replies[o] \in Seq([op : Op, st : {"success", "duplicate", "notfound"}])
    /\ {registered, up, pending, pendingRereg, failed} \subseteq [Owner -> BOOLEAN]
    /\ refresher \in [Owner -> {"off", "sleep", "create", "refresh"}]
    /\ application \in [Owner -> {"idle", "register"} \cup Op]
    /\ boot \in 0 .. plan.faults /\ calls \in 0 .. plan.calls /\ faults \in 0 .. plan.faults
    /\ \A o \in Owner :
          /\ bootSeen[o] \in 0 .. boot \cup {None} /\ event[o] \in 0 .. boot \cup {None}
          /\ since[o] \in 0 .. 1 /\ InFlight(o) <= MaxInFlight
          /\ refresher[o] # "off" <=> registered[o]

\* The state keeps its types, and without faults a registered name stays visible for as long as its owner
\* runs, although records expire, owners of the same name are pinged, and the
\* application's own name calls share the slot for replies with the refresh
\* thread: the refresh interval is half the time to live.
StaysRegistered ==
    /\ TypeOK
    /\ \A o \in Owner :
         (/\ faults = 0 /\ calls = 0 /\ registered[o] /\ refresher[o] = "sleep"
          /\ ~pendingRereg[o] /\ ~failed[o])
             => Visible(o)

\* A name whose owner stays up becomes visible again and again, whatever was
\* lost before: the records of a name service that restarted, the event that
\* says so, a request or a reply, a record that expired, was swept, or was
\* declared dead after a lost ping, or an answer that went to another call.
NameComesBack ==
    \A o \in Owner : <>[](up[o] /\ registered[o]) => []<>Visible(o)
=============================================================================
