------------------------ MODULE MCIdentityResolution ------------------------
(* Two messages of one signer and one of another, with room for two parked *)
(* messages and a cache that holds one identity or none.                   *)
EXTENDS IdentityResolution, TLC

CONSTANTS s1, s2, m1, m2, m3

TwoSigners   == {s1, s2}
ThreeMsgs    == {m1, m2, m3}
TwoFromFirst == [m \in ThreeMsgs |-> IF m = m3 THEN s2 ELSE s1]

OneSigner    == {s1}
TwoMsgs      == {m1, m2}
BothFromIt   == [m \in TwoMsgs |-> s1]

Interchangeable == Permutations({m1, m2})
=============================================================================
