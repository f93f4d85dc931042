------------------------------ MODULE MCNames ------------------------------
EXTENDS NameRegistration

CONSTANTS o1, o2

Plan(os, c, f) == [owners |-> os, calls |-> c, faults |-> f]

\* One owner with faults and other calls in between; two owners of one name.
MCPlans == {Plan({o1}, 1, 2), Plan({o1, o2}, 0, 1)}
=============================================================================
