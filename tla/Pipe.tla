-------------------------------- MODULE Pipe --------------------------------
(***************************************************************************)
(* What one direction of a bridged native socket promises: the items come  *)
(* out in the order in which they went in, none twice and none left out;   *)
(* only a tail may be missing, when the pipe is closed.                    *)
(***************************************************************************)
EXTENDS Naturals, Sequences

CONSTANT Item
VARIABLES written, delivered

Init == written = <<>> /\ delivered = <<>>

Write ==
    /\ \E x \in Item : written' = Append(written, x)
    /\ UNCHANGED delivered

Deliver ==
    /\ Len(delivered) < Len(written)
    /\ delivered' = Append(delivered, written[Len(delivered) + 1])
    /\ UNCHANGED written

Next == Write \/ Deliver

Spec == Init /\ [][Next]_<<written, delivered>>
=============================================================================
