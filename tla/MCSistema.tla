------------------------------ MODULE MCSistema ------------------------------
(* Instances of Sistema for TLC.                                             *)
EXTENDS Sistema, TLC

CONSTANTS n1, n2, p1, p2, r1, r2

MCUma      == {n1}
MCDuas     == {n1, n2}
MCPollers  == {p1, p2}
MCPedidos  == {r1, r2}
MCNenhuma  == {}
MCUmPedido == {r1}
MCSem150   == {"100", "110"}
MCCom150   == {"100", "150"}
MCSimetria == Permutations({n1, n2}) \union Permutations({p1, p2})
                \union Permutations({r1, r2})
=============================================================================
