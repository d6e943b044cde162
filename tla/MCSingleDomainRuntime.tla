----------------------- MODULE MCSingleDomainRuntime -----------------------
(* A fleet for TLC: d1 has one domain, k1; d2 starts with k2 and learns k1. *)
EXTENDS SingleDomainRuntime, TLC

CONSTANTS d1, d2, k1, k2, p1, p2, p3

FleetIds == (d1 :> {1}) @@ (d2 :> {2})
FleetPubs == (d1 :> {p1, p2}) @@ (d2 :> {p3})
FleetKeys == (d1 :> {k1}) @@ (d2 :> {k2})
FleetDomains == d1 :> k1
=============================================================================
