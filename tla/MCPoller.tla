------------------------------ MODULE MCPoller ------------------------------
(* Instances of Poller for TLC: which notes belong to a company with a       *)
(* webhook, and the cStats SEFAZ may answer.                                 *)
EXTENDS Poller, TLC

CONSTANTS n1, n2, n3, p1, p2

MCDuas     == {n1, n2}
MCTres     == {n1, n2, n3}
MCPollers  == {p1, p2}
MCComUrl   == {n1, n2}
MCUmDesfecho == {"100", "5xx"}
(* n1 and n2 have a webhook and n3 has none: n3 is not interchangeable.      *)
MCSimetria == Permutations({n1, n2}) \union Permutations({p1, p2})
=============================================================================
