CONSTANTS
    Node = {n1, n2}
    Id = {i1, i2, i3}
    Conn = {c1, c2}
    Listener = {l1}
    None = None
    SocketModes <- AsyncOrShared
    ListenModes <- BothListen
    MaxPushed = 1
SYMMETRY Symmetry
SPECIFICATION Spec
INVARIANTS AcceptedNotStranded OwnerKeepsSocket
 
CHECK_DEADLOCK FALSE
