---------------------------- MODULE MCBsdSockets ----------------------------
(* Instances of BsdSockets: flags of the requests, and symmetry between    *)
(* connections and between ids.                                            *)
EXTENDS BsdSockets, TLC

Sync   == [async |-> FALSE, share |-> FALSE]
Async  == [async |-> TRUE, share |-> FALSE]
Shared == [async |-> FALSE, share |-> TRUE]

SyncListen  == [asyncAccept |-> FALSE, share |-> FALSE, child |-> Sync]
AsyncListen == [asyncAccept |-> TRUE, share |-> FALSE, child |-> Async]

AllSockets  == {Sync, Async, Shared}
AsyncOrShared == {Async, Shared}
BothListen  == {SyncListen, AsyncListen}

Symmetry == Permutations(Conn) \cup Permutations(Id) \cup Permutations(Node)
=============================================================================
