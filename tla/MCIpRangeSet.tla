---------------------------- MODULE MCIpRangeSet ----------------------------
(* A small instance of IpRangeSet: every network of both families. *)
EXTENDS IpRangeSet

Networks == {From(n) : n \in InetNetworks}
=============================================================================
