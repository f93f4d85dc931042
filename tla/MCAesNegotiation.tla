-------------------------- MODULE MCAesNegotiation --------------------------
(* A pair of nodes with room for one key, or for none.                     *)
EXTENDS AesNegotiation, TLC

PairLimits == {[active |-> 1, pending |-> 1], [active |-> 0, pending |-> 1]}

Symmetry == Permutations(Node) \cup Permutations(KeyId)
=============================================================================
