------------------------------ MODULE MCWSHub ------------------------------
(* Small instances of WSHub for TLC.                                        *)
EXTENDS WSHub

CONSTANTS c1, c2

TwoClients == {c1, c2}
=============================================================================
