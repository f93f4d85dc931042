--------------------------- MODULE MCClientCalls ---------------------------
(***************************************************************************)
(* The four clients side by side: the plan of a run chooses one.           *)
(***************************************************************************)
EXTENDS ClientCalls

\* Calls of the same kind meet in one table or slot; calls on streams meet
\* with the data pushed on stream 0, and with the call that opens a stream.
Plan(l, ks, d, n) == [lang |-> l, kinds |-> ks, data |-> d, losses |-> n]

MCPlans ==
    UNION {{Plan(l, {"ping"}, 0, 1), Plan(l, {"connect", "close"}, 0, 1),
            Plan(l, {"listen", "accept"}, 0, 1), Plan(l, {"recv", "send"}, 1, 0),
            Plan(l, {"recv", "send"}, 0, 1),
            Plan(l, {"endorse"}, 0, 1), Plan(l, {"name"}, 0, 1), Plan(l, {"list"}, 0, 1)} :
                l \in {"cpp", "rust", "node", "python"}}
        \cup {Plan("node", {"recv", "send"}, 2, 0), Plan("node", {"ping"}, 0, 2),
              Plan("cpp", {"recv"}, 2, 0)}

Cpp    == INSTANCE CppClient
Rust   == INSTANCE RustClient
Node   == INSTANCE NodeClient
Python == INSTANCE PythonClient

Init == Start

Next ==
    /\ \/ lang = "cpp" /\ Cpp!Next
       \/ lang = "rust" /\ Rust!Next /\ UNCHANGED results
       \/ lang = "node" /\ Node!Next /\ UNCHANGED results
       \/ lang = "python" /\ Python!Next /\ UNCHANGED results
    /\ UNCHANGED plan

\* The threads and event loops run the calls and the timers fire; nothing is
\* assumed of the application, the peer or the connection.
Runs(c) ==
    /\ \/ lang = "cpp" /\ Cpp!Proceed(c)
       \/ lang = "rust" /\ Rust!Proceed(c) /\ UNCHANGED results
       \/ lang = "node" /\ Node!TimerFires(c) /\ UNCHANGED results
       \/ lang = "python" /\ Python!Proceed(c) /\ UNCHANGED results
    /\ UNCHANGED plan

Spec == Init /\ [][Next]_vars /\ \A c \in Call : WF_vars(Runs(c))
=============================================================================
