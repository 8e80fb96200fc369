----------------------------- MODULE MCRateLimit -----------------------------
(* Instance of RateLimit for TLC: requests differ only by their names.       *)
EXTENDS RateLimit, TLC

CONSTANTS r1, r2, r3, r4

MCPedidos  == {r1, r2, r3, r4}
MCSimetria == Permutations(MCPedidos)
=============================================================================
