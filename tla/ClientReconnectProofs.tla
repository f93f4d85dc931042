----------------------- MODULE ClientReconnectProofs ------------------------
(* Proofs about ClientReconnect for any number of sessions and threads.     *)
EXTENDS ClientReconnect, TLAPS

USE SMTT(30)

(* A reader that is about to start a thread has claimed the reconnect, alone.*)
Launching ==
  \A s \in Session : reader[s] = "launch" =>
    /\ inProgress
    /\ \A t \in Thread : pc[t] = "idle"
    /\ \A r \in Session : reader[r] = "launch" => r = s

ReconnectInv == TypeOK /\ OneReconnect /\ Launching

LEMMA ReconnectInit == Init => OneReconnect /\ Launching
  BY Zenon DEF Init, OneReconnect, Launching

(* Steps that change no thread, claim or handle.                            *)
LEMMA ReconnectFrame ==
  ASSUME ReconnectInv, UNCHANGED <<pc, inProgress, handle>>,
         \A s \in Session : reader'[s] = "launch" => reader[s] = "launch"
  PROVE  OneReconnect' /\ Launching'
  BY Zenon DEF ReconnectInv, OneReconnect, Launching

(* Steps of the thread that has the reconnect, up to its end.               *)
LEMMA ReconnectThread ==
  ASSUME ReconnectInv, NEW t \in Thread, pc[t] # "idle",
         \A u \in Thread : u # t => pc'[u] = pc[u], handle' = handle,
         \/ inProgress' = inProgress
         \/ inProgress' = FALSE /\ pc'[t] = "idle",
         \A s \in Session : reader'[s] = "launch" => reader[s] = "launch"
  PROVE  OneReconnect' /\ Launching'
  BY Zenon DEF ReconnectInv, OneReconnect, Launching, TypeOK

LEMMA ReconnectNext == ReconnectInv /\ [Next]_vars => OneReconnect' /\ Launching'
  <1> SUFFICES ASSUME ReconnectInv, [Next]_vars PROVE OneReconnect' /\ Launching'
    BY Zenon
  <1>t. TypeOK
    BY Zenon DEF ReconnectInv
  <1>1. ASSUME NEW s \in Session, Connect(s) \/ Drop(s) PROVE OneReconnect' /\ Launching'
    BY Zenon, <1>1, <1>t, ReconnectFrame DEF Connect, Established, Drop, StartSession, TypeOK, contextVars,
       threadVars
  <1>2. ASSUME NEW s \in Session, ReadLoopEnds(s) \/ ReportLost(s) \/ TriggerReconnect(s)
        PROVE  OneReconnect' /\ Launching'
    BY Zenon, <1>2, <1>t, ReconnectFrame DEF ReadLoopEnds, ReportLost, TriggerReconnect, Reads,
       TypeOK, contextVars, threadVars
  <1>3. ASSUME NEW s \in Session, ClaimReconnect(s) PROVE OneReconnect' /\ Launching'
    BY Zenon, <1>3 DEF ClaimReconnect, Reads, ReconnectInv, TypeOK, OneReconnect, Launching,
       threadVars
  <1>4. ASSUME NEW s \in Session, NEW t \in Thread, LaunchReconnect(s, t)
        PROVE  OneReconnect' /\ Launching'
    BY Zenon, <1>4 DEF LaunchReconnect, Reads, ReconnectInv, TypeOK, OneReconnect, Launching
  <1>5. CASE Register \/ EnableReconnect \/ WatchEnabled
    BY Zenon, <1>5, ReconnectFrame DEF Register, EnableReconnect, WatchEnabled, contextVars,
       threadVars, sessionVars
  <1>f. ASSUME NEW t \in Thread, Finish(t)
        PROVE  /\ \A u \in Thread : u # t => pc'[u] = pc[u]
               /\ pc'[t] = "idle" /\ inProgress' = FALSE
    BY Zenon, <1>f, <1>t DEF Finish, Goto, TypeOK
  <1>g. ASSUME NEW t \in Thread, NEW next, Goto(t, next)
        PROVE  \A u \in Thread : u # t => pc'[u] = pc[u]
    BY Zenon, <1>g, <1>t DEF Goto, TypeOK
  <1>6. ASSUME NEW t \in Thread,
               \/ Lookup(t) \/ TransportReconnect(t) \/ ConnectFails(t)
               \/ CheckConnected(t) \/ HandshakeSucceeds(t) \/ HandshakeFails(t)
               \/ BeginDelay(t) \/ EndDelay(t) \/ OnReconnected(t)
        PROVE  OneReconnect' /\ Launching'
    <2>1. pc[t] # "idle" /\ handle' = handle /\ reader' = reader
      BY Zenon, <1>6 DEF Lookup, TransportReconnect, ConnectFails, CheckConnected,
         HandshakeSucceeds, PerformClientHandshake, HandshakeFails, BeginDelay,
         EndDelay, OnReconnected,
         sessionVars, contextVars
    <2>2. Finish(t) \/ (inProgress' = inProgress /\ \E next : Goto(t, next))
      BY Zenon, <1>6 DEF Lookup, TransportReconnect, ConnectFails, CheckConnected,
         HandshakeSucceeds, PerformClientHandshake, HandshakeFails, BeginDelay,
         EndDelay, OnReconnected,
         UnlessStopping, contextVars
    <2>5. \A u \in Thread : u # t => pc'[u] = pc[u]
      BY Zenon, <2>2, <1>f, <1>g
    <2>6. inProgress' = inProgress \/ (inProgress' = FALSE /\ pc'[t] = "idle")
      BY Zenon, <2>2, <1>f
    <2>7. QED
      BY Zenon, <2>1, <2>5, <2>6, ReconnectThread
  <1>7. ASSUME NEW t \in Thread, NEW s \in Session, ConnectSucceeds(t, s)
        PROVE  OneReconnect' /\ Launching'
    <2>1. /\ pc[t] # "idle" /\ handle' = handle /\ reader' = reader
          /\ inProgress' = inProgress /\ Goto(t, "connected")
      BY Zenon, <1>7 DEF ConnectSucceeds, contextVars
    <2>2. QED
      BY Zenon, <2>1, <1>g, ReconnectThread
  <1>8. ASSUME NEW t \in Thread,
               \/ StartNew(t) \/ Swap(t) \/ Abandon(t) \/ StopOld(t) \/ JoinOld(t)
               \/ WatchNew(t)
        PROVE  OneReconnect' /\ Launching'
    <2>1. pc[t] # "idle" /\ handle' = handle
      BY Zenon, <1>8 DEF StartNew, Swap, Abandon, StopOld, JoinOld, WatchNew, contextVars
    <2>2. Finish(t) \/ (inProgress' = inProgress /\ \E next : Goto(t, next))
      BY Zenon, <1>8 DEF StartNew, Swap, Abandon, StopOld, JoinOld, WatchNew, contextVars
    <2>3. \A s \in Session : reader'[s] = "launch" => reader[s] = "launch"
      BY Zenon, <1>8, <1>t DEF StartNew, Swap, Abandon, StopOld, JoinOld, WatchNew,
         StartSession, JoinReader, TypeOK
    <2>5. \A u \in Thread : u # t => pc'[u] = pc[u]
      BY Zenon, <2>2, <1>f, <1>g
    <2>6. inProgress' = inProgress \/ (inProgress' = FALSE /\ pc'[t] = "idle")
      BY Zenon, <2>2, <1>f
    <2>7. QED
      BY Zenon, <2>1, <2>3, <2>5, <2>6, ReconnectThread
  <1>9. CASE RemoveConnection \/ RemoverStep
    <2>1. CASE JoinThread
      BY Zenon, <2>1 DEF JoinThread, ReconnectInv, OneReconnect, Launching, sessionVars, threadVars
    <2>2. CASE \/ RemoveConnection \/ AbortReconnect \/ StopTransport \/ CloseActive
               \/ LockThread \/ StopRemoved \/ JoinRemoved
      BY Zenon, <2>2, <1>t, ReconnectFrame DEF RemoveConnection, AbortReconnect, StopTransport,
         CloseActive, LockThread, StopRemoved, JoinRemoved, JoinReader, TypeOK, contextVars,
         threadVars, sessionVars
    <2>3. QED
      BY Zenon, <1>9, <2>1, <2>2 DEF RemoverStep
  <1>10. CASE UNCHANGED vars
    BY Zenon, <1>10, ReconnectFrame DEF vars, contextVars, threadVars, sessionVars
  <1>11. QED
    BY Zenon, <1>1, <1>2, <1>3, <1>4, <1>5, <1>6, <1>7, <1>8, <1>9, <1>10
       DEF Next, ReaderStep, ReconnectStep

-----------------------------------------------------------------------------
(* A thread past connect has a new session, and past the swap an old one.  *)
Working ==
  \A t \in Thread :
    /\ pc[t] \in {"connected", "handshake", "start", "swap", "abandon", "stopOld", "joinOld",
                  "watch", "notify"} => new[t] \in Session
    /\ pc[t] \in {"stopOld", "joinOld"} => old[t] \in Session

(* The two halves of TypeOK: the flags, and everything else.                *)
Flags ==
  /\ registered \in BOOLEAN /\ transportStop \in BOOLEAN
  /\ stopping \in BOOLEAN /\ inProgress \in BOOLEAN

Shape ==
  /\ table \in Session \cup {NoSession} /\ active \in Session \cup {NoSession}
  /\ link \in [Session -> {"none", "up", "down"}]
  /\ reader \in [Session -> ReaderState]
  /\ running \subseteq Session /\ callback \subseteq Session /\ signing \subseteq Session
  /\ handle \in Thread \cup {NoThread}
  /\ pc \in [Thread -> ThreadState]
  /\ new \in [Thread -> Session \cup {NoSession}]
  /\ old \in [Thread -> Session \cup {NoSession}]
  /\ enabling \in Session \cup {NoSession}
  /\ remover \in RemoverState /\ removed \in Session \cup {NoSession}

LEMMA TypeHalves == TypeOK <=> Flags /\ Shape
  BY Zenon DEF TypeOK, Flags, Shape

LEMMA FlagsNext == Flags /\ [Next]_vars => Flags'
  <1> SUFFICES ASSUME Flags, [Next]_vars PROVE Flags'
    BY Zenon
  <1> USE DEF Flags, sessionVars, contextVars, threadVars, removerVars
  <1>1. ASSUME NEW s \in Session, Connect(s) \/ Drop(s) \/ ReaderStep(s) PROVE Flags'
    BY Zenon, <1>1 DEF Connect, Established, Drop, ReaderStep, ReadLoopEnds, ReportLost,
       TriggerReconnect, ClaimReconnect, LaunchReconnect
  <1>2. CASE Register \/ EnableReconnect \/ WatchEnabled
    BY Zenon, <1>2 DEF Register, EnableReconnect, WatchEnabled
  <1>3. ASSUME NEW t \in Thread,
               \/ ReconnectStep(t) \/ HandshakeSucceeds(t) \/ HandshakeFails(t)
               \/ \E s \in Session : ConnectSucceeds(t, s)
        PROVE  Flags'
    BY Zenon, <1>3 DEF ReconnectStep, Lookup, TransportReconnect, ConnectFails,
       CheckConnected, HandshakeSucceeds, PerformClientHandshake, HandshakeFails, BeginDelay,
       EndDelay,
       OnReconnected, StartNew, Swap, Abandon, StopOld, JoinOld, WatchNew,
       ConnectSucceeds, UnlessStopping, Finish
  <1>4. CASE RemoveConnection \/ RemoverStep
    BY Zenon, <1>4 DEF RemoveConnection, RemoverStep, AbortReconnect, StopTransport,
       CloseActive, LockThread, JoinThread, StopRemoved, JoinRemoved
  <1>5. CASE UNCHANGED vars
    BY Zenon, <1>5 DEF vars
  <1>6. QED
    BY Zenon, <1>1, <1>2, <1>3, <1>4, <1>5 DEF Next

LEMMA TypeInit == Init => TypeOK /\ Working
  <1> SUFFICES ASSUME Init PROVE TypeOK /\ Working
    BY Zenon
  <1>1. Flags
    BY Zenon DEF Init, Flags
  <1>2. Shape /\ Working
    BY Zenon, NoneAssumption DEF Init, Shape, ReaderState, ThreadState, RemoverState, Working
  <1>3. QED
    BY Zenon, <1>1, <1>2, TypeHalves

LEMMA ShapeNext == Shape /\ Working /\ [Next]_vars => Shape' /\ Working'
  <1> SUFFICES ASSUME Shape, Working, [Next]_vars PROVE Shape' /\ Working'
    BY Zenon
  <1> USE DEF ReaderState, ThreadState, RemoverState, sessionVars, contextVars, threadVars,
              removerVars
  <1>1. ASSUME NEW s \in Session, Connect(s) \/ Drop(s) PROVE Shape' /\ Working'
    BY <1>1 DEF Connect, Established, Drop, Connected, StartSession, Shape, Working
  <1>2. ASSUME NEW s \in Session,
               \/ ReadLoopEnds(s) \/ ReportLost(s) \/ TriggerReconnect(s)
               \/ ClaimReconnect(s)
        PROVE  Shape' /\ Working'
    BY <1>2 DEF ReadLoopEnds, ReportLost, TriggerReconnect, ClaimReconnect, Reads, Shape,
         Working
  <1>4. ASSUME NEW s \in Session, NEW t \in Thread, LaunchReconnect(s, t)
        PROVE  Shape' /\ Working'
    BY Zenon, <1>4 DEF LaunchReconnect, Reads, Shape, Working
  <1>5. CASE Register \/ EnableReconnect \/ WatchEnabled
    BY Zenon, <1>5 DEF Register, EnableReconnect, WatchEnabled, Shape, Working
  <1>6. ASSUME NEW t \in Thread,
               \/ Lookup(t) \/ TransportReconnect(t) \/ ConnectFails(t)
               \/ CheckConnected(t) \/ HandshakeSucceeds(t) \/ HandshakeFails(t)
               \/ BeginDelay(t) \/ EndDelay(t) \/ OnReconnected(t)
        PROVE  Shape' /\ Working'
    BY <1>6 DEF Lookup, TransportReconnect, ConnectFails, CheckConnected,
         HandshakeSucceeds, PerformClientHandshake, HandshakeFails, BeginDelay,
         EndDelay, OnReconnected,
         UnlessStopping, Finish, Goto, Shape, Working
  <1>7. ASSUME NEW t \in Thread, NEW s \in Session, ConnectSucceeds(t, s)
        PROVE  Shape' /\ Working'
    BY Zenon, <1>7 DEF ConnectSucceeds, Connected, Goto, Shape, Working
  <1>8. ASSUME NEW t \in Thread,
               \/ StartNew(t) \/ Swap(t) \/ Abandon(t) \/ StopOld(t) \/ JoinOld(t)
               \/ WatchNew(t)
        PROVE  Shape' /\ Working'
    BY <1>8 DEF StartNew, Swap, Abandon, StopOld, JoinOld, WatchNew, StartSession,
         StopEncoding, JoinReader, Finish, Goto, Shape, Working
  <1>9. CASE RemoveConnection \/ RemoverStep
    BY <1>9 DEF RemoveConnection, RemoverStep, AbortReconnect, StopTransport, CloseActive,
         LockThread, JoinThread, StopRemoved, JoinRemoved, StopEncoding, JoinReader,
         Proceed, Shape, Working
  <1>10. CASE UNCHANGED vars
    BY Zenon, <1>10 DEF vars, Shape, Working
  <1>11. QED
    BY Zenon, <1>1, <1>2, <1>4, <1>5, <1>6, <1>7, <1>8, <1>9, <1>10
       DEF Next, ReaderStep, ReconnectStep

-----------------------------------------------------------------------------
(* Before the connection is entered, and once it is being removed.          *)
Entering ==
  ~registered =>
    /\ table = NoSession /\ remover = "idle" /\ callback = {} /\ enabling = NoSession
    /\ \A t \in Thread : pc[t] = "idle"
    /\ \A s \in Session : reader[s] \in {"none", "reading", "lost", "finished"}
    /\ active # NoSession => active \in signing

Removing ==
  /\ remover = "idle" => removed = NoSession
  /\ remover # "idle" => table = NoSession /\ removed \in Session
  /\ remover \in {"stop", "joinReader", "done"} => \A t \in Thread : pc[t] \in {"idle", "lookup"}

(* A session that no transport has connected yet, and one that a reconnect   *)
(* has connected and not started.                                           *)
Fresh ==
  /\ \A s \in Session : link[s] = "none" => reader[s] = "none"
  /\ \A t \in Thread : pc[t] \in {"connected", "handshake", "start"} =>
       reader[new[t]] = "none" /\ link[new[t]] # "none"

(* What runs belongs to a live session.                                     *)
Lively ==
  /\ \A s \in running : reader[s] = "reading"
  /\ \A s \in signing : Alive(s)
  /\ table # NoSession => table \in signing
  /\ \A t \in Thread : /\ pc[t] = "swap" => new[t] \in signing
                       /\ pc[t] = "joinOld" => old[t] \notin signing

ByConnect(s) == ~registered /\ active = s
ByRemover(s) == removed = s /\ remover # "done"

(* EverySessionIsOwned, said without a set of owners.                       *)
Owned ==
  \A s \in Session :
    /\ Alive(s) <=> (table = s \/ ByConnect(s) \/ ByRemover(s) \/ \E t \in Thread : ByThread(t, s))
    /\ table = s => ~ByConnect(s) /\ ~ByRemover(s) /\ \A t \in Thread : ~ByThread(t, s)
    /\ ByConnect(s) => ~ByRemover(s) /\ \A t \in Thread : ~ByThread(t, s)
    /\ ByRemover(s) => \A t \in Thread : ~ByThread(t, s)

OwnerInv == Entering /\ Removing /\ Fresh /\ Lively /\ Owned

LEMMA OwnerInit == Init => OwnerInv
  BY NoneAssumption DEF Init, OwnerInv, Entering, Removing, Fresh, Lively, Owned, Alive,
     ByConnect, ByRemover, ByThread

LEMMA OwnerNext == ReconnectInv /\ Working /\ OwnerInv /\ [Next]_vars => OwnerInv'
  <1> SUFFICES ASSUME ReconnectInv, Working, OwnerInv, [Next]_vars PROVE OwnerInv'
    BY Zenon
  <1> USE NoneAssumption
      DEF sessionVars, contextVars, threadVars, removerVars, OwnerInv, Entering, Removing, Fresh,
          Lively, Owned, Alive, ByConnect, ByRemover, ByThread, Goto, Finish, UnlessStopping,
          Proceed, Reads
  <1>t. Shape /\ OneReconnect /\ Working
    BY Zenon, TypeHalves DEF ReconnectInv
  <1>1. ASSUME NEW s \in Session, Connect(s) PROVE OwnerInv'
    BY <1>t, <1>1 DEF Connect, Established, Connected, StartSession, Shape
  <1>2. ASSUME NEW s \in Session, Drop(s) PROVE OwnerInv'
    BY <1>t, <1>2 DEF Drop, Shape
  <1>3. ASSUME NEW s \in Session, ReadLoopEnds(s) PROVE OwnerInv'
    BY <1>t, <1>3 DEF ReadLoopEnds, Shape
  <1>4. ASSUME NEW s \in Session, ReportLost(s) PROVE OwnerInv'
    BY <1>t, <1>4 DEF ReportLost, Shape, Working
  <1>5. ASSUME NEW s \in Session, TriggerReconnect(s) PROVE OwnerInv'
    BY <1>t, <1>5 DEF TriggerReconnect, Shape, Working
  <1>6. ASSUME NEW s \in Session, ClaimReconnect(s) PROVE OwnerInv'
    BY <1>t, <1>6 DEF ClaimReconnect, Shape
  <1>7. ASSUME NEW s \in Session, NEW t \in Thread, LaunchReconnect(s, t) PROVE OwnerInv'
    BY <1>t, <1>7 DEF LaunchReconnect, Shape
  <1>8. CASE Register \/ EnableReconnect \/ WatchEnabled
    <2>1. CASE Register
      BY <1>t, <2>1 DEF Register, Shape
    <2>2. CASE EnableReconnect
      BY <1>t, <2>2 DEF EnableReconnect, Shape
    <2>3. CASE WatchEnabled
      BY <1>t, <2>3 DEF WatchEnabled, Shape
    <2> QED
      BY Zenon, <1>8, <2>1, <2>2, <2>3
  <1>9. ASSUME NEW t \in Thread,
               \/ Lookup(t) \/ TransportReconnect(t) \/ ConnectFails(t)
               \/ CheckConnected(t) \/ HandshakeSucceeds(t) \/ HandshakeFails(t)
               \/ BeginDelay(t) \/ EndDelay(t) \/ OnReconnected(t)
        PROVE  OwnerInv'
    <2>1. CASE Lookup(t) \/ TransportReconnect(t) \/ ConnectFails(t) \/ CheckConnected(t)
      BY <1>t, <2>1 DEF Lookup, TransportReconnect, ConnectFails, CheckConnected, Shape
    <2>2. CASE HandshakeSucceeds(t) \/ HandshakeFails(t)
      BY <1>t, <2>2 DEF HandshakeSucceeds, PerformClientHandshake, HandshakeFails, Shape
    <2>3. CASE BeginDelay(t) \/ EndDelay(t) \/ OnReconnected(t)
      BY <1>t, <2>3 DEF BeginDelay, EndDelay, OnReconnected, Shape
    <2> QED
      BY Zenon, <1>9, <2>1, <2>2, <2>3
  <1>10. ASSUME NEW t \in Thread, NEW s \in Session, ConnectSucceeds(t, s) PROVE OwnerInv'
    BY <1>t, <1>10 DEF ConnectSucceeds, Connected, Shape, OneReconnect, Working
  <1>11. ASSUME NEW t \in Thread, StartNew(t) PROVE OwnerInv'
    BY <1>t, <1>11 DEF StartNew, StartSession, Shape, OneReconnect, Working
  <1>12. ASSUME NEW t \in Thread, Swap(t) PROVE OwnerInv'
    BY <1>t, <1>12 DEF Swap, StopEncoding, Shape, OneReconnect, Working
  <1>13. ASSUME NEW t \in Thread, Abandon(t) PROVE OwnerInv'
    BY <1>t, <1>13 DEF Abandon, JoinReader, Shape, OneReconnect, Working
  <1>14. ASSUME NEW t \in Thread, StopOld(t) PROVE OwnerInv'
    BY <1>t, <1>14 DEF StopOld, StopEncoding, Shape, OneReconnect, Working
  <1>15. ASSUME NEW t \in Thread, JoinOld(t) PROVE OwnerInv'
    BY <1>t, <1>15 DEF JoinOld, JoinReader, Shape, OneReconnect, Working
  <1>16. ASSUME NEW t \in Thread, WatchNew(t) PROVE OwnerInv'
    BY <1>t, <1>16 DEF WatchNew, Shape
  <1>17. CASE RemoveConnection
    BY <1>t, <1>17 DEF RemoveConnection, Shape
  <1>18. CASE AbortReconnect \/ StopTransport
    BY <1>t, <1>18 DEF AbortReconnect, StopTransport, Shape
  <1>19. CASE CloseActive
    BY <1>t, <1>19 DEF CloseActive, Shape, Working
  <1>20. CASE LockThread \/ JoinThread
    BY <1>t, <1>20 DEF LockThread, JoinThread, Shape, OneReconnect
  <1>21. CASE StopRemoved
    BY <1>t, <1>21 DEF StopRemoved, StopEncoding, Shape
  <1>22. CASE JoinRemoved
    BY <1>t, <1>22 DEF JoinRemoved, JoinReader, Shape
  <1>23. CASE UNCHANGED vars
    BY <1>23 DEF vars
  <1> HIDE DEF OwnerInv
  <1> QED
    BY Zenon, <1>1, <1>2, <1>3, <1>4, <1>5, <1>6, <1>7, <1>8, <1>9, <1>10, <1>11, <1>12,
       <1>13, <1>14, <1>15, <1>16, <1>17, <1>18, <1>19, <1>20, <1>21, <1>22, <1>23
       DEF Next, ReaderStep, ReconnectStep, RemoverStep
-----------------------------------------------------------------------------
(* The inductive invariant says what the run checks.                        *)
LEMMA OwnedIsOwned ==
  ASSUME Owned, OneReconnect, TypeOK, NEW s \in Session
  PROVE  IF Alive(s) THEN \E o \in Owners(s) : Owners(s) = {o} ELSE Owners(s) = {}
  <1>1. \A o : o \in Owners(s) <=>
           \/ o = <<"table", NoThread>> /\ table = s
           \/ o = <<"connect", NoThread>> /\ ByConnect(s)
           \/ o = <<"remover", NoThread>> /\ ByRemover(s)
           \/ \E t \in Thread : o = <<"thread", t>> /\ ByThread(t, s)
    BY DEF Owners, ByConnect, ByRemover
  <1>2. \A t, u \in Thread : ByThread(t, s) /\ ByThread(u, s) => t = u
    BY Zenon DEF ByThread, OneReconnect
  <1> HIDE DEF Owners
  <1>3. CASE table = s
    <2>1. Owners(s) = {<<"table", NoThread>>} /\ Alive(s)
      BY Zenon, <1>1, <1>3 DEF Owned
    <2> QED
      BY Zenon, <2>1
  <1>4. CASE ByConnect(s)
    <2>1. Owners(s) = {<<"connect", NoThread>>} /\ Alive(s)
      BY Zenon, <1>1, <1>4 DEF Owned
    <2> QED
      BY Zenon, <2>1
  <1>5. CASE ByRemover(s)
    <2>1. Owners(s) = {<<"remover", NoThread>>} /\ Alive(s)
      BY Zenon, <1>1, <1>5 DEF Owned
    <2> QED
      BY Zenon, <2>1
  <1>6. ASSUME NEW t \in Thread, ByThread(t, s)
        PROVE  IF Alive(s) THEN \E o \in Owners(s) : Owners(s) = {o} ELSE Owners(s) = {}
    <2>1. Owners(s) = {<<"thread", t>>} /\ Alive(s)
      BY Zenon, <1>1, <1>2, <1>6 DEF Owned
    <2> QED
      BY Zenon, <2>1
  <1>7. CASE ~(table = s \/ ByConnect(s) \/ ByRemover(s) \/ \E t \in Thread : ByThread(t, s))
    <2>1. Owners(s) = {} /\ ~Alive(s)
      BY Zenon, <1>1, <1>7 DEF Owned
    <2> QED
      BY Zenon, <2>1
  <1> QED
    BY Zenon, <1>3, <1>4, <1>5, <1>6, <1>7

(* ... and after a removal nobody owns a session any more.                  *)
LEMMA NobodyOwnsAfterRemoval ==
  ASSUME TypeOK, OwnerInv PROVE RemovedIsQuiet
  <1> SUFFICES ASSUME remover = "done", NEW s \in Session
               PROVE  s \notin running /\ s \notin signing /\ ~Alive(s)
    BY Zenon DEF RemovedIsQuiet, Alive
  <1>1. registered /\ table = NoSession
    BY Zenon DEF OwnerInv, Entering, Removing
  <1>2. \A t \in Thread : ~ByThread(t, s)
    BY Zenon DEF OwnerInv, Removing, ByThread
  <1>3. ~Alive(s)
    BY Zenon, <1>1, <1>2, NoneAssumption DEF OwnerInv, Owned, ByConnect, ByRemover
  <1> QED
    BY Zenon, <1>3 DEF OwnerInv, Lively, Alive

LEMMA InductiveInvariant == Spec => [](ReconnectInv /\ Working /\ OwnerInv)
  <1>1. Init => ReconnectInv /\ Working /\ OwnerInv
    BY Zenon, TypeInit, ReconnectInit, OwnerInit DEF ReconnectInv
  <1>2. ReconnectInv /\ Working /\ OwnerInv /\ [Next]_vars => (ReconnectInv /\ Working /\ OwnerInv)'
    <2> SUFFICES ASSUME ReconnectInv, Working, OwnerInv, [Next]_vars
                 PROVE  TypeOK' /\ OneReconnect' /\ Launching' /\ Working' /\ OwnerInv'
      BY Zenon DEF ReconnectInv
    <2>1. Flags /\ Shape
      BY Zenon, TypeHalves DEF ReconnectInv
    <2>2. Flags' /\ Shape' /\ Working'
      BY Zenon, <2>1, FlagsNext, ShapeNext
    <2>3. TypeOK'
      BY Zenon, <2>2 DEF TypeOK, Flags, Shape
    <2>4. QED
      BY Zenon, <2>2, <2>3, ReconnectNext, OwnerNext
  <1>3. QED
    BY <1>1, <1>2, PTL DEF Spec

(* The states of connection, encodings, reconnect threads and remover stay  *)
(* in their sets; in particular no thread starts, stops or watches an       *)
(* encoding before it has one (doReconnect dereferences both).              *)
THEOREM TypeCorrect == Spec => []TypeOK
  <1>1. ReconnectInv /\ Working /\ OwnerInv => TypeOK
    BY Zenon DEF ReconnectInv
  <1>2. QED
    BY <1>1, InductiveInvariant, PTL

(* The compare-and-swap of inProgress in triggerReconnect lets at most one  *)
(* reconnect of a connection run, and its thread is the one the context     *)
(* holds, so that detaching the last thread never detaches a running one    *)
(* and removeConnection joins the one that runs.                            *)
THEOREM SingleReconnect == Spec => []OneReconnect
  <1>1. ReconnectInv /\ Working /\ OwnerInv => OneReconnect
    BY Zenon DEF ReconnectInv
  <1>2. QED
    BY <1>1, InductiveInvariant, PTL

(* However a removal, a drop and a reconnect interleave, exactly one of      *)
(* connectToResourceManager, the connection table, doReconnect and           *)
(* removeConnection is to stop and join a session that was started: no       *)
(* session leaks and none is joined twice.                                   *)
THEOREM SessionsAreOwned == Spec => []EverySessionIsOwned
  <1>1. ReconnectInv /\ Working /\ OwnerInv => EverySessionIsOwned
    <2> SUFFICES ASSUME ReconnectInv, Working, OwnerInv PROVE EverySessionIsOwned
      BY Zenon
    <2>1. TypeOK /\ OneReconnect /\ Owned
      BY Zenon DEF ReconnectInv, OwnerInv
    <2>2. table # NoSession => table \in signing
      BY Zenon DEF OwnerInv, Lively
    <2> QED
      BY Zenon, <2>1, <2>2, OwnedIsOwned DEF EverySessionIsOwned
  <1>2. QED
    BY <1>1, InductiveInvariant, PTL

(* After removeConnection has returned, nothing of the connection runs: a    *)
(* reconnect that was triggered before and starts later finds no connection. *)
THEOREM RemovedStaysQuiet == Spec => []RemovedIsQuiet
  <1>1. ReconnectInv /\ Working /\ OwnerInv => RemovedIsQuiet
    <2> SUFFICES ASSUME ReconnectInv, Working, OwnerInv PROVE RemovedIsQuiet
      BY Zenon
    <2>1. TypeOK
      BY Zenon DEF ReconnectInv
    <2> QED
      BY Zenon, <2>1, NobodyOwnsAfterRemoval
  <1>2. QED
    BY <1>1, InductiveInvariant, PTL
=============================================================================
