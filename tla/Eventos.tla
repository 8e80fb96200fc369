------------------------------- MODULE Eventos -------------------------------
(***************************************************************************)
(* The request handlers that register an event for an emitted note          *)
(* (src/api/services/nfe_service.py): cancelar_nota, carta_correcao_nota    *)
(* and operacao_nao_realizada.                                              *)
(*                                                                          *)
(* Each reads the row, decides on its status, builds the event, awaits      *)
(* SEFAZ, and then writes back: the cancellation its new status, all three  *)
(* the WHOLE list of events, as the list that was read plus the new event.  *)
(* Nothing locks the row between the read and the write.                    *)
(***************************************************************************)
EXTENDS Notas

CONSTANT Pedidos        \* bound: identities of the requests in flight at once

VARIABLE pedidos        \* the requests between their read and their write

(* fase: "sefaz" the event is on its way to SEFAZ; "aceito" SEFAZ answered   *)
(* 135 or 136.  lidos: the events of the row as the request read them.       *)
Pedido == [id : Pedidos, fase : {"sefaz", "aceito"}, nota : Notas,
           evento : Evento, lidos : SUBSET Evento]

EventosTypeOK == pedidos \subseteq Pedido
EventosInit   == pedidos = {}

Cartas(eventos) == {e \in eventos : e.tp = "110110"}

-----------------------------------------------------------------------------
(* _buscar_nota found the row: the request goes to SEFAZ with event e.       *)
Enviar(r, n, e) ==
    /\ \A x \in pedidos : x.id # r
    /\ linha[n].status # "AUSENTE"
    /\ pedidos' = pedidos \union
          {[id |-> r, fase |-> "sefaz", nota |-> n, evento |-> e,
            lidos |-> linha[n].eventos]}
    /\ UNCHANGED notasVars

(* cancelar_nota refuses a cancelled note and nothing else; the protocol of  *)
(* the authorisation is the request's own (informado) or the row's.          *)
PedirCancelamento(r, n, informado) ==
    /\ linha[n].status # "CANCELADA"
    /\ informado \/ linha[n].protocolo
    /\ Enviar(r, n, Cancelamento)

(* As if events of every type were counted.                                  *)
PedirCartaContandoTudo(r, n) ==
    LET seq == Cardinality(linha[n].eventos) + 1
    IN  /\ linha[n].status = "AUTORIZADA"
        /\ seq <= MaxSeq
        /\ Enviar(r, n, [tp |-> "110110", seq |-> seq])

(* carta_correcao_nota numbers the letter after those the row lists.         *)
PedirCarta(r, n) ==
    LET seq == Cardinality(Cartas(linha[n].eventos)) + 1
    IN  /\ linha[n].status = "AUTORIZADA"
        /\ seq <= MaxSeq
        /\ Enviar(r, n, [tp |-> "110110", seq |-> seq])

(* operacao_nao_realizada always sends nSeqEvento 1.                         *)
PedirOperacao(r, n) ==
    /\ linha[n].status = "AUTORIZADA"
    /\ Enviar(r, n, [tp |-> "110112", seq |-> 1])

(* SEFAZ registers the event: the note is authorised and not cancelled, and  *)
(* this type and nSeqEvento are new for it.                                  *)
SefazRegistra(x) ==
    /\ x.fase = "sefaz"
    /\ Autorizada(x.nota)
    /\ ~CanceladaNaSefaz(x.nota)
    /\ x.evento \notin sefaz[x.nota].eventos
    /\ sefaz' = [sefaz EXCEPT ![x.nota].eventos = @ \union {x.evento}]
    /\ pedidos' = (pedidos \ {x}) \union {[x EXCEPT !.fase = "aceito"]}
    /\ UNCHANGED <<linha, trava>>

(* _processar_resposta_evento raises (rejection, HTTP error, bad XML), or    *)
(* the process dies, before or after SEFAZ registered the event: the session *)
(* is closed and nothing is written.                                         *)
Abandonar(x) ==
    /\ pedidos' = pedidos \ {x}
    /\ UNCHANGED notasVars

(* As if the row were written without waiting for SEFAZ's answer.            *)
GravarSemResposta(x) ==
    /\ trava[x.nota] = Livre
    /\ linha' = [linha EXCEPT
          ![x.nota].status  = IF x.evento.tp = "110111" THEN "CANCELADA" ELSE @,
          ![x.nota].eventos = x.lidos \union {x.evento}]
    /\ pedidos' = pedidos \ {x}
    /\ UNCHANGED <<trava, sefaz>>

(* As if the UPDATE did not wait for the poller's row lock.                  *)
GravarSemEsperar(x) ==
    /\ x.fase = "aceito"
    /\ linha' = [linha EXCEPT
          ![x.nota].status  = IF x.evento.tp = "110111" THEN "CANCELADA" ELSE @,
          ![x.nota].eventos = x.lidos \union {x.evento}]
    /\ pedidos' = pedidos \ {x}
    /\ UNCHANGED <<trava, sefaz>>

(* The write and its commit; the UPDATE waits for a poller's row lock.       *)
Gravar(x) ==
    /\ x.fase = "aceito"
    /\ trava[x.nota] = Livre
    /\ linha' = [linha EXCEPT
          ![x.nota].status  = IF x.evento.tp = "110111" THEN "CANCELADA" ELSE @,
          ![x.nota].eventos = x.lidos \union {x.evento}]
    /\ pedidos' = pedidos \ {x}
    /\ UNCHANGED <<trava, sefaz>>

EventosNext ==
    \/ \E r \in Pedidos, n \in Notas, informado \in BOOLEAN :
          PedirCancelamento(r, n, informado)
    \/ \E r \in Pedidos, n \in Notas : PedirCarta(r, n) \/ PedirOperacao(r, n)
    \/ \E x \in pedidos : SefazRegistra(x) \/ Abandonar(x) \/ Gravar(x)

=============================================================================
