------------------------- MODULE MCGitHubTransport -------------------------
(* Two clients with an object each, and other writers.                      *)
EXTENDS GitHubTransport, TLC

CONSTANTS c1, c2, a, b

OneObjectEach == (c1 :> {a}) @@ (c2 :> {b})
=============================================================================
