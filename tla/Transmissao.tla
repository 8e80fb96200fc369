----------------------------- MODULE Transmissao -----------------------------
(***************************************************************************)
(* A note is built and exported (Documento), and the application that did   *)
(* it opens a connection and sends its requests (Enderecos).                *)
(***************************************************************************)
EXTENDS Conferencia, Enderecos

CONSTANT
    Destinos(_, _)   \* the UFs a connection may be opened to, once this note and
                     \* this document exist

TransInit == DocInit /\ EndInit

Modelo == IF nota.modelo = 55 THEN "nfe" ELSE "nfce"

TransNext ==
    \/ DocNext /\ UNCHANGED endVars
    \/ /\ Existe(xml)
       /\ \E uf \in Destinos(nota, xml), h \in BOOLEAN : Conectar(uf, h)
       /\ UNCHANGED docVars
    \/ con.aberta /\ Pedidos(Modelo) /\ UNCHANGED docVars

TransSpec == TransInit /\ [][TransNext]_<<docVars, endVars>>
=============================================================================
