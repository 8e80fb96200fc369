------------------------------- MODULE Sistema -------------------------------
(***************************************************************************)
(* The note from emission to cancellation: the emission pipeline, the cron  *)
(* that decides pending notes and the event handlers, running concurrently  *)
(* over the same rows, row locks and SEFAZ records.                         *)
(***************************************************************************)
EXTENDS Emissao, Eventos, Poller

sistemaVars == <<notasVars, emissao, pedidos, pollerVars>>

SistemaInit ==
    /\ linha = [n \in Notas |-> LinhaAusente]
    /\ trava = [n \in Notas |-> Livre]
    /\ sefaz = [n \in Notas |-> [cstat |-> "nada", eventos |-> {}]]
    /\ EmissaoInit
    /\ EventosInit
    /\ PollerInit

SistemaNext ==
    \/ EmissaoNext /\ UNCHANGED <<pedidos, pollerVars>>
    \/ EventosNext /\ UNCHANGED <<emissao, pollerVars>>
    \/ PollerNext  /\ UNCHANGED <<emissao, pedidos>>
    \/ \E n \in Notas : /\ SefazProcessa(n)
                        /\ UNCHANGED <<emissao, pedidos, pollerVars>>

SistemaSpec == SistemaInit /\ [][SistemaNext]_sistemaVars

-----------------------------------------------------------------------------
SistemaTypeOK ==
    NotasTypeOK /\ EmissaoTypeOK /\ EventosTypeOK /\ PollerTypeOK

(* The table never claims more than SEFAZ granted: an authorised note is     *)
(* authorised at SEFAZ, a cancelled one is authorised and its cancellation   *)
(* is registered there -- through crashes, lost answers and overlapping      *)
(* executions (emitir_nfe, processar_pendentes, cancelar_nota).              *)
StatusConfirmado ==
    \A n \in Notas :
        /\ linha[n].status = "AUTORIZADA" => Autorizada(n)
        /\ linha[n].status = "CANCELADA"  => Autorizada(n)
                                             /\ CanceladaNaSefaz(n)

(* A note the table shows as rejected or denied was not authorised by SEFAZ  *)
(* (100 and 150 authorise: nfe_service.py:253-254).                          *)
RejeitadaNaoAutorizada ==
    \A n \in Notas :
        linha[n].status \in {"REJEITADA", "DENEGADA"} => ~Autorizada(n)

(* The poller can decide every pending row: it has its receipt and SEFAZ     *)
(* holds its batch (_persistir_processando, consultar_recibo_sefaz).         *)
PendenteTemLote ==
    \A n \in Notas : linha[n].status = "PROCESSANDO" =>
        linha[n].recibo /\ sefaz[n].cstat # "nada"

(* The row lists no event SEFAZ did not register.                            *)
EventosRegistrados ==
    \A n \in Notas : linha[n].eventos \subseteq sefaz[n].eventos

(* Correction letters are numbered 1, 2, ... at SEFAZ without gaps, however  *)
(* requests overlap and whichever of them die ("Carta de correcao e          *)
(* sequencial por nota", carta_correcao_nota).                               *)
CartasSequenciais ==
    \A n \in Notas : LET cartas == Cartas(sefaz[n].eventos)
                     IN  {e.seq : e \in cartas} = 1..Cardinality(cartas)

(* An authorised row has the protocol a cancellation without one in the      *)
(* request falls back on (CancelarRequest, cancelar_nota).                   *)
AutorizadaTemProtocolo ==
    \A n \in Notas : linha[n].status = "AUTORIZADA" => linha[n].protocolo

(* An event listed in a row stays listed (carta_correcao_nota "registra na   *)
(* nota").                                                                   *)
EventoNuncaSome ==
    [][\A n \in Notas : linha[n].eventos \subseteq linha'[n].eventos]_sistemaVars

(* A note whose cancellation was written stays cancelled (cancelar_nota:     *)
(* "nota muda para CANCELADA"), whatever an execution of the cron that read  *)
(* it before writes later (nota.status = resultado["status"]).               *)
CanceladaPermanece ==
    [][\A n \in Notas : linha[n].status = "CANCELADA" =>
           linha'[n].status = "CANCELADA"]_sistemaVars

(* The life cycle the table's statuses go through.                           *)
Ciclo == INSTANCE CicloDaNota WITH status <- [n \in Notas |-> linha[n].status]
ImplementaCiclo == Ciclo!Spec

=============================================================================
