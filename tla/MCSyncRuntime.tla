--------------------------- MODULE MCSyncRuntime ---------------------------
(* Small instances of SyncRuntime for TLC: two devices with one or two      *)
(* revision identities, in one shared domain or in two of which one is new  *)
(* to the other device.                                                     *)
EXTENDS SyncRuntime, TLC

CONSTANTS d1, d2, k1, k2, p1, p2, p3, p4, p5, p6

OneIdEach == (d1 :> {1}) @@ (d2 :> {2})
TwoAndOnePub == (d1 :> {p1, p2}) @@ (d2 :> {p3})
TwoAndOneId == (d1 :> {1, 3}) @@ (d2 :> {2})
ThreePubsEach == (d1 :> {p1, p2, p5}) @@ (d2 :> {p3, p4, p6})
SameKey == (d1 :> {k1}) @@ (d2 :> {k1})
TwoKeys == (d1 :> {k1, k2}) @@ (d2 :> {k1})
=============================================================================
