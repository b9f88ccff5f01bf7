----------------------------- MODULE AddressSet -----------------------------
(* What IpRangeSet promises to ProtocolConfig.processRoutes: it is a set of  *)
(* IP addresses to which blocks of addresses are added and from which blocks *)
(* are removed.                                                              *)
CONSTANT Blocks

VARIABLE addresses

Init == addresses = {}

Add(b) == addresses' = addresses \cup b

Remove(b) == addresses' = addresses \ b

Next == \E b \in Blocks : Add(b) \/ Remove(b)

Spec == Init /\ [][Next]_addresses
=============================================================================
