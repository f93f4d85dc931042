CONSTANTS
    Node = {n1, n2}
    Id = {i1, i2}
    Conn = {c1}
    Listener = {l1}
    None = None
    SocketModes <- AllSockets
    ListenModes <- BothListen
    MaxPushed = 1
SPECIFICATION Spec
PROPERTIES CloseEnds
CHECK_DEADLOCK FALSE
