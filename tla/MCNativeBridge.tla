--------------------------- MODULE MCNativeBridge ---------------------------
EXTENDS NativeBridge

Plan(l, d, w, n, s) == [listens |-> l, data |-> d, writes |-> w, losses |-> n, stops |-> s]

\* Both ways of opening; data and payloads crossing; a lost connection between
\* two payloads; and bridges that are stopped at any time.
MCPlans == {Plan(FALSE, 2, 2, 0, FALSE), Plan(FALSE, 1, 2, 1, FALSE),
            Plan(FALSE, 1, 1, 0, TRUE), Plan(TRUE, 1, 1, 1, TRUE)}
=============================================================================
