SPECIFICATION Spec
CONSTANTS
    Session = {s1, s2, s3}
    Thread = {t1, t2}
    NoSession = NoSession
    NoThread = NoThread
INVARIANT EverySessionIsOwned
INVARIANT OneReconnect
INVARIANT RemovedIsQuiet
PROPERTY RemovalEnds
PROPERTY DropIsNoticed
CHECK_DEADLOCK FALSE
