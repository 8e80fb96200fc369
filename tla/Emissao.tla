------------------------------- MODULE Emissao -------------------------------
(***************************************************************************)
(* The emission pipeline, emitir_nfe and emitir_nfce                        *)
(* (src/api/services/nfe_service.py, nfce_service.py): sign, send to SEFAZ, *)
(* poll the receipt of an asynchronous batch, write the row.                *)
(*                                                                          *)
(* Every emission draws a fresh access key, so each note of the model has   *)
(* exactly one emission.  The row is written only at the very end: between  *)
(* SEFAZ's answer and that commit nothing in the database remembers the     *)
(* note.                                                                    *)
(***************************************************************************)
EXTENDS Notas

CONSTANT ReciboMax      \* RECIBO_MAX_TENTATIVAS

ASSUME ReciboMaxAssumption == ReciboMax \in Nat \ {0}

VARIABLE emissao        \* emissao[n]: the emission of note n

(* fase: "nova" not sent; "recibo" polling the receipt; "protocolo" SEFAZ's  *)
(* protocol is in hand; "pendente" gave up polling; "fim" over.              *)
Pipeline == [fase : {"nova", "recibo", "protocolo", "pendente", "fim"},
             tentativa : 1..ReciboMax]

EmissaoTypeOK == emissao \in [Notas -> Pipeline]

EmissaoInit == emissao = [n \in Notas |-> [fase |-> "nova", tentativa |-> 1]]

Passar(n, fase) ==
    emissao' = [emissao EXCEPT ![n] = [fase |-> fase, tentativa |-> 1]]

-----------------------------------------------------------------------------
(* Synchronous answer, batch cStat 104 with a protocol: autorizacao returns  *)
(* (0, nfeProc) for 100 and 150, and for any other cStat the protNFe is dug  *)
(* out of the raw answer.                                                    *)
EnviarSincrono(n) ==
    /\ emissao[n].fase = "nova"
    /\ \E c \in Desfechos : sefaz' = [sefaz EXCEPT ![n].cstat = c]
    /\ Passar(n, "protocolo")
    /\ UNCHANGED <<linha, trava>>

(* cStat 103 with a receipt: the batch was accepted and awaits processing.   *)
EnviarAssincrono(n) ==
    /\ emissao[n].fase = "nova"
    /\ sefaz' = [sefaz EXCEPT ![n].cstat = "105"]
    /\ Passar(n, "recibo")
    /\ UNCHANGED <<linha, trava>>

(* Refused before SEFAZ holds anything: no certificate, a business rule, a   *)
(* batch error answered as ERRO without a row.                               *)
Recusar(n) ==
    /\ emissao[n].fase = "nova"
    /\ Passar(n, "fim")
    /\ UNCHANGED notasVars

(* SEFAZ has the batch but its answer never arrives, cannot be read, or is a *)
(* batch cStat 105, whose receipt _extrair_recibo_do_erro does not take: an  *)
(* exception or ERRO, and no row.                                            *)
PerderResposta(n) ==
    /\ emissao[n].fase = "nova"
    /\ \E c \in Desfechos \union {"105"} : sefaz' = [sefaz EXCEPT ![n].cstat = c]
    /\ Passar(n, "fim")
    /\ UNCHANGED <<linha, trava>>

(* _polling_recibo: batch 104 and a protocol.                                *)
ReciboProcessado(n) ==
    /\ emissao[n].fase = "recibo"
    /\ sefaz[n].cstat \in CStatFinal
    /\ Passar(n, "protocolo")
    /\ UNCHANGED notasVars

(* Still 105, an unreadable answer or an exception: sleep and try again, up  *)
(* to ReciboMax attempts.                                                    *)
ReciboSemResposta(n) ==
    /\ emissao[n].fase = "recibo"
    /\ \/ /\ emissao[n].tentativa < ReciboMax
          /\ emissao' = [emissao EXCEPT ![n].tentativa = @ + 1]
       \/ /\ emissao[n].tentativa = ReciboMax
          /\ Passar(n, "pendente")
    /\ UNCHANGED notasVars

(* Any other batch cStat ends the polling at once.                           *)
ReciboErroDoLote(n) ==
    /\ emissao[n].fase = "recibo"
    /\ Passar(n, "pendente")
    /\ UNCHANGED notasVars

(* As if any protocol with an nProt authorised the note.                     *)
StatusComProtocolo(cstat) ==
    IF cstat # "5xx" THEN "AUTORIZADA" ELSE "REJEITADA"

(* 100 and 150 authorise; everything else, 110 too, is a rejection.          *)
StatusDaEmissao(cstat) ==
    IF cstat \in CStatAutoriza THEN "AUTORIZADA" ELSE "REJEITADA"

(* The final row.  Only the protocol of a rejection carries no nProt.        *)
PersistirResultado(n) ==
    /\ emissao[n].fase = "protocolo"
    /\ linha' = [linha EXCEPT ![n] =
          [LinhaAusente EXCEPT !.status = StatusDaEmissao(sefaz[n].cstat),
                               !.protocolo = sefaz[n].cstat # "5xx"]]
    /\ Passar(n, "fim")
    /\ UNCHANGED <<trava, sefaz>>

(* As if the receipt were not stored with the row.                           *)
PersistirSemRecibo(n) ==
    /\ emissao[n].fase = "pendente"
    /\ linha' = [linha EXCEPT ![n] =
          [LinhaAusente EXCEPT !.status = "PROCESSANDO"]]
    /\ Passar(n, "fim")
    /\ UNCHANGED <<trava, sefaz>>

(* _persistir_processando: the receipt is kept for the poller.               *)
PersistirProcessando(n) ==
    /\ emissao[n].fase = "pendente"
    /\ linha' = [linha EXCEPT ![n] =
          [LinhaAusente EXCEPT !.status = "PROCESSANDO", !.recibo = TRUE]]
    /\ Passar(n, "fim")
    /\ UNCHANGED <<trava, sefaz>>

(* The process dies, or the INSERT fails, before the row is committed.       *)
Cair(n) ==
    /\ emissao[n].fase \in {"recibo", "protocolo", "pendente"}
    /\ Passar(n, "fim")
    /\ UNCHANGED notasVars

EmissaoNext ==
    \E n \in Notas :
        \/ EnviarSincrono(n)
        \/ EnviarAssincrono(n)
        \/ Recusar(n)
        \/ PerderResposta(n)
        \/ ReciboProcessado(n)
        \/ ReciboSemResposta(n)
        \/ ReciboErroDoLote(n)
        \/ PersistirResultado(n)
        \/ PersistirProcessando(n)
        \/ Cair(n)

=============================================================================
