--------------------------- MODULE MCCoreReplicas ---------------------------
(* Small instances of CoreReplicas for TLC. *)
EXTENDS CoreReplicas, TLC

CONSTANTS r1, r2

\* Two identities for one replica, so that a revision can have a successor by
\* the same author, and one for the other, so that two can be concurrent.
SeparateIds == (r1 :> {1, 3}) @@ (r2 :> {2})

\* Two replicas whose callers mint the same identity: copies of one device.
SharedIds == (r1 :> {1}) @@ (r2 :> {1})
=============================================================================
