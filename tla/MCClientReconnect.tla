------------------------- MODULE MCClientReconnect --------------------------
(* Small instances of ClientReconnect for TLC.                             *)
EXTENDS ClientReconnect
=============================================================================
