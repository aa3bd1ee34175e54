------------------------------ MODULE MCRings ------------------------------
(* The capture sources on Linux, one at a time: `backend` never changes. *)
EXTENDS XDPRing, AFPacketRing, XDPShared

VARIABLE backend

allVars == <<ringVars, blockVars, sharedVars, backend>>

Init == RingInit /\ BlockInit /\ SharedInit /\ backend \in {"xdp", "afpacket", "factory"}

Next ==
  /\ UNCHANGED backend
  /\ \/ backend = "xdp" /\ RingNext /\ UNCHANGED <<blockVars, sharedVars>>
     \/ backend = "afpacket" /\ BlockNext /\ UNCHANGED <<ringVars, sharedVars>>
     \/ backend = "factory" /\ SharedNext /\ UNCHANGED <<ringVars, blockVars>>

Spec ==
  /\ Init /\ [][Next]_allVars
  /\ backend = "xdp" => RingFair
  /\ backend = "afpacket" => BlockFair
=============================================================================
