-------------------------------- MODULE Api --------------------------------
(***************************************************************************)
(* The requests of the API together, over one database, one KV and the      *)
(* stores of entities of one process.  Nothing happens while a request is   *)
(* in its block: the loop runs no other, and what comes from outside (time, *)
(* the KV, the database, another process) could as well have come before,   *)
(* since the block reads none of them.                                      *)
(***************************************************************************)
EXTENDS Lgpd, Consultas

apiVars == <<req, empresas, clientes, notas, solicitacoes, kv, fonte, modulo>>

ApiInit == ReqInit /\ CadInit /\ FonteInit /\ LgpdInit /\ ConInit

ForaDoBloco ==
    \/ CadNext /\ UNCHANGED <<notas, solicitacoes, kv, fonteVars>>
    \/ \E p \in Pedidos :
          \/ FonteNext(p) /\ UNCHANGED <<empresas, clientes, notas, solicitacoes, kv>>
          \/ LgpdNext(p) /\ UNCHANGED kv
          \/ ConNext(p) /\ UNCHANGED <<notas, solicitacoes, fonteVars>>
          \/ /\ Interromper(p)
             /\ UNCHANGED <<empresas, clientes, notas, solicitacoes, kv, fonteVars>>
    \/ PassarTempo /\ UNCHANGED <<notas, solicitacoes, fonteVars>>
    \/ \E k \in Chaves : KvPerde(k) /\ UNCHANGED <<notas, solicitacoes, fonteVars>>

ApiNext ==
    \/ LacoLivre /\ ForaDoBloco
    \/ \E p \in Pedidos :
          BlocoNext(p) /\ UNCHANGED <<empresas, clientes, notas, solicitacoes, kv>>

ApiSpec == ApiInit /\ [][ApiNext]_apiVars
=============================================================================
