--------------------------- MODULE MCVpnConnection ---------------------------
(* Small instances of VpnConnection: the bounds are in the configurations. *)
EXTENDS VpnConnection

\* Bound: the client's threads lag behind by three messages at most.
ShortQueues == Len(inbox) <= 3 /\ Len(uiQueue) <= 3
=============================================================================
