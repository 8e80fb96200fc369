------------------------------- MODULE Poller -------------------------------
(***************************************************************************)
(* The cron that decides notes left in PROCESSANDO (src/api/tasks/poller.py) *)
(* and the webhook it fires for each decided note                           *)
(* (src/api/services/webhook_service.py).                                   *)
(*                                                                          *)
(* One execution runs in ONE database session.  It locks a batch of rows,   *)
(* asks SEFAZ about each in turn, keeps the new status in memory (the       *)
(* session flushes it at the next commit), POSTs the webhook of a decided   *)
(* note, and commits once at the end.  But every webhook attempt is logged  *)
(* with a commit of its own in that same session: this makes the pending    *)
(* statuses durable and frees every row lock of the batch, including those  *)
(* of the notes still to be visited.  The session does not expire its       *)
(* objects at commit, so those notes are then used as they were read.       *)
(***************************************************************************)
EXTENDS Notas

CONSTANTS
    ComUrl,         \* notes of a company with a webhook URL (own or global)
    LoteMaximo,     \* LOTE_MAXIMO
    MaxTentativas,  \* Len(RETRY_DELAYS)
    MaxInterrupcoes \* bound: executions that end by an exception or a crash

ASSUME ComUrlAssumption        == ComUrl \subseteq Notas
ASSUME LoteMaximoAssumption    == LoteMaximo \in Nat \ {0}
ASSUME MaxTentativasAssumption == MaxTentativas \in Nat \ {0}
ASSUME MaxInterrupcoesAssumption == MaxInterrupcoes \in Nat

VARIABLES
    antiga,         \* notes whose updated_at is more than 30 s old
    fase,           \* fase[p]: where the execution of poller p is
    fila,           \* fila[p]: notes it selected and has not visited
    aviso,          \* aviso[p]: the <<note, status>> it is delivering, if any
    tentativa,      \* tentativa[p]: number of the delivery attempt
    sucesso,        \* sucesso[p]: the POST just made got an HTTP 2xx
    memoria,        \* memoria[p][n]: status set in p's session, not yet flushed
    postados,       \* <<n, s>>: a webhook with status s of note n was POSTed
    recebidos,      \* <<n, s>>: such a webhook reached the customer's endpoint
    logs,           \* the rows of webhook_logs
    interrupcoes    \* how many executions were interrupted so far

execVars   == <<fase, fila, aviso, tentativa, sucesso>>
logVars    == <<postados, recebidos, logs>>
pollerVars == <<antiga, execVars, memoria, logVars, interrupcoes>>

-----------------------------------------------------------------------------
(* "ocioso" no execution; "lote" about to take the next note of the batch;   *)
(* "postar" about to POST; "registrar" about to log the attempt.             *)
Fase == {"ocioso", "lote", "postar", "registrar"}

Log == [nota : Notas, status : Finais, tentativa : 1..MaxTentativas,
        sucesso : BOOLEAN]

Limpa == [n \in Notas |-> "limpa"]

PollerTypeOK ==
    /\ antiga \subseteq Notas
    /\ fase \in [Pollers -> Fase]
    /\ fila \in [Pollers -> SUBSET Notas]
    /\ aviso \in [Pollers -> SUBSET (Notas \X Finais)]
    /\ tentativa \in [Pollers -> 1..MaxTentativas]
    /\ sucesso \in [Pollers -> BOOLEAN]
    /\ memoria \in [Pollers -> [Notas -> Finais \union {"limpa"}]]
    /\ postados \subseteq Notas \X Finais
    /\ recebidos \subseteq Notas \X Finais
    /\ logs \subseteq Log
    /\ interrupcoes \in 0..MaxInterrupcoes

PollerInit ==
    /\ antiga = {}
    /\ fase = [p \in Pollers |-> "ocioso"]
    /\ fila = [p \in Pollers |-> {}]
    /\ aviso = [p \in Pollers |-> {}]
    /\ tentativa = [p \in Pollers |-> 1]
    /\ sucesso = [p \in Pollers |-> FALSE]
    /\ memoria = [p \in Pollers |-> Limpa]
    /\ postados = {}
    /\ recebidos = {}
    /\ logs = {}
    /\ interrupcoes = 0

-----------------------------------------------------------------------------
(* _mapear_status_final: only 100 authorises and only 110 denies; every      *)
(* other cStat of the protocol, 150 too, is a rejection.                     *)
MapearStatusFinal(cstat) ==
    CASE cstat = "100" -> "AUTORIZADA"
      [] cstat = "110" -> "DENEGADA"
      [] OTHER         -> "REJEITADA"

(* As if the SELECT did not lock.                                            *)
CandidatasSemTrava ==
    {n \in Notas : linha[n].status = "PROCESSANDO" /\ n \in antiga}

(* The rows FOR UPDATE SKIP LOCKED can return.                               *)
Candidatas ==
    {n \in Notas : linha[n].status = "PROCESSANDO" /\ n \in antiga
                     /\ trava[n] = Livre}

(* The rows a flush of p's session writes, and whether an UPDATE would wait. *)
Sujas(p)      == {n \in Notas : memoria[p][n] # "limpa"}
PodeGravar(p) == \A n \in Sujas(p) : trava[n] \in {p, Livre}

(* As if the log were written with a flush: no lock is released.             *)
CommitSoGrava(p) ==
    /\ PodeGravar(p)
    /\ linha' = [n \in Notas |-> IF n \in Sujas(p)
                                 THEN [linha[n] EXCEPT !.status = memoria[p][n]]
                                 ELSE linha[n]]
    /\ memoria' = [memoria EXCEPT ![p] = Limpa]
    /\ UNCHANGED trava

(* A commit of p's session: pending statuses reach the table and all row     *)
(* locks of the transaction are released.                                    *)
Commit(p) ==
    /\ PodeGravar(p)
    /\ linha' = [n \in Notas |-> IF n \in Sujas(p)
                                 THEN [linha[n] EXCEPT !.status = memoria[p][n]]
                                 ELSE linha[n]]
    /\ trava' = [n \in Notas |-> IF trava[n] = p THEN Livre ELSE trava[n]]
    /\ memoria' = [memoria EXCEPT ![p] = Limpa]

-----------------------------------------------------------------------------
(* Thirty seconds pass since the row was written.                            *)
Envelhecer(n) ==
    /\ linha[n].status = "PROCESSANDO"
    /\ n \notin antiga
    /\ antiga' = antiga \union {n}
    /\ UNCHANGED <<notasVars, execVars, memoria, logVars, interrupcoes>>

(* The SELECT: up to LoteMaximo candidates, in no particular order, locked.  *)
(* An execution that finds none commits nothing and is left out.             *)
Selecionar(p) ==
    /\ fase[p] = "ocioso"
    /\ \E lote \in SUBSET Candidatas :
          /\ lote # {}
          /\ Cardinality(lote) <= LoteMaximo
          /\ lote # Candidatas => Cardinality(lote) = LoteMaximo
          /\ fila' = [fila EXCEPT ![p] = lote]
          /\ trava' = [n \in Notas |-> IF n \in lote THEN p ELSE trava[n]]
    /\ fase' = [fase EXCEPT ![p] = "lote"]
    /\ UNCHANGED <<linha, sefaz, antiga, aviso, tentativa, sucesso, memoria,
                   logVars, interrupcoes>>

(* The loop takes note n of the batch.                                       *)
Visitar(p, n) ==
    /\ fase[p] = "lote"
    /\ n \in fila[p]
    /\ fila' = [fila EXCEPT ![p] = @ \ {n}]

(* As if every batch cStat were taken for a processed batch.                 *)
DecididaSemLote(n) == linha[n].recibo

(* SEFAZ's answer to consulta_recibo can carry the note's protocol.          *)
Decidida(n) == linha[n].recibo /\ sefaz[n].cstat \in CStatFinal

(* consultar_recibo_sefaz answers final=False: the row has no receipt or the *)
(* batch is still 105.  The status is assigned to itself, which the session  *)
(* does not see as a change.                                                 *)
ConsultarPendente(p, n) ==
    /\ Visitar(p, n)
    /\ ~Decidida(n)
    /\ UNCHANGED <<notasVars, antiga, fase, aviso, tentativa, sucesso, memoria,
                   logVars, interrupcoes>>

(* The batch is decided but the answer cannot be read (bad XML, another      *)
(* batch cStat): final=False again.                                          *)
ConsultarIlegivel(p, n) ==
    /\ Visitar(p, n)
    /\ Decidida(n)
    /\ interrupcoes < MaxInterrupcoes
    /\ interrupcoes' = interrupcoes + 1
    /\ UNCHANGED <<notasVars, antiga, fase, aviso, tentativa, sucesso, memoria,
                   logVars>>

(* As if the status were committed before the webhook is sent.               *)
ConsultarFinalGravando(p, n) ==
    /\ Visitar(p, n)
    /\ Decidida(n)
    /\ LET s == MapearStatusFinal(sefaz[n].cstat)
       IN  /\ linha' = [linha EXCEPT ![n].status = s]
           /\ fase' = [fase EXCEPT ![p] = IF n \in ComUrl THEN "postar" ELSE @]
           /\ aviso' = [aviso EXCEPT ![p] = IF n \in ComUrl THEN {<<n, s>>} ELSE @]
    /\ UNCHANGED <<trava, sefaz, antiga, tentativa, sucesso, memoria, logVars,
                   interrupcoes>>

(* It answers final=True: the new status stays in memory and disparar_webhook *)
(* is called, which returns at once when no URL is configured.               *)
ConsultarFinal(p, n) ==
    /\ Visitar(p, n)
    /\ Decidida(n)
    /\ LET s == MapearStatusFinal(sefaz[n].cstat)
       IN  /\ memoria' = [memoria EXCEPT ![p][n] = s]
           /\ \/ /\ n \in ComUrl
                 /\ fase' = [fase EXCEPT ![p] = "postar"]
                 /\ aviso' = [aviso EXCEPT ![p] = {<<n, s>>}]
              \/ /\ n \notin ComUrl
                 /\ UNCHANGED <<fase, aviso>>
    /\ UNCHANGED <<notasVars, antiga, tentativa, sucesso, logVars, interrupcoes>>

(* As if a POST that raised were logged as a success.                        *)
PostarOtimista(p) ==
    /\ fase[p] = "postar"
    /\ fase' = [fase EXCEPT ![p] = "registrar"]
    /\ postados' = postados \union aviso[p]
    /\ sucesso' = [sucesso EXCEPT ![p] = TRUE]
    /\ recebidos' \in {recebidos, recebidos \union aviso[p]}
    /\ UNCHANGED <<notasVars, antiga, fila, aviso, tentativa, memoria, logs,
                   interrupcoes>>

(* One POST of the webhook, with the status of the object in memory.  An     *)
(* attempt that fails here may still have reached the endpoint.              *)
Postar(p) ==
    /\ fase[p] = "postar"
    /\ fase' = [fase EXCEPT ![p] = "registrar"]
    /\ postados' = postados \union aviso[p]
    /\ \E ok \in BOOLEAN :
          /\ sucesso' = [sucesso EXCEPT ![p] = ok]
          /\ \/ recebidos' = recebidos \union aviso[p]
             \/ ~ok /\ UNCHANGED recebidos
    /\ UNCHANGED <<notasVars, antiga, fila, aviso, tentativa, memoria, logs,
                   interrupcoes>>

(* As if the retry loop ran once too often.                                  *)
FimDaEntregaTardio(p) == sucesso[p] \/ tentativa[p] > MaxTentativas

(* The delivery is over: a success or the last attempt.                      *)
FimDaEntrega(p) == sucesso[p] \/ tentativa[p] = MaxTentativas

(* _registrar_log and the end of the loop body: the attempt is logged with a *)
(* commit; unless the delivery is over it is retried after its delay.        *)
Registrar(p) ==
    /\ fase[p] = "registrar"
    /\ Commit(p)
    /\ logs' = logs \union
          {[nota |-> a[1], status |-> a[2], tentativa |-> tentativa[p],
            sucesso |-> sucesso[p]] : a \in aviso[p]}
    /\ sucesso' = [sucesso EXCEPT ![p] = FALSE]
    /\ \/ /\ FimDaEntrega(p)
          /\ fase' = [fase EXCEPT ![p] = "lote"]
          /\ aviso' = [aviso EXCEPT ![p] = {}]
          /\ tentativa' = [tentativa EXCEPT ![p] = 1]
       \/ /\ ~FimDaEntrega(p)
          /\ fase' = [fase EXCEPT ![p] = "postar"]
          /\ tentativa' = [tentativa EXCEPT ![p] = @ + 1]
          /\ UNCHANGED aviso
    /\ UNCHANGED <<sefaz, antiga, fila, postados, recebidos, interrupcoes>>

(* The batch is done: the final commit.                                      *)
Concluir(p) ==
    /\ fase[p] = "lote"
    /\ fila[p] = {}
    /\ Commit(p)
    /\ fase' = [fase EXCEPT ![p] = "ocioso"]
    /\ UNCHANGED <<sefaz, antiga, fila, aviso, tentativa, sucesso, logVars,
                   interrupcoes>>

(* The execution dies: consulta_recibo raises (its call is outside the try), *)
(* a commit fails, or the function is killed.  The session rolls back.       *)
Interromper(p) ==
    /\ fase[p] # "ocioso"
    /\ interrupcoes < MaxInterrupcoes
    /\ interrupcoes' = interrupcoes + 1
    /\ fase' = [fase EXCEPT ![p] = "ocioso"]
    /\ fila' = [fila EXCEPT ![p] = {}]
    /\ aviso' = [aviso EXCEPT ![p] = {}]
    /\ tentativa' = [tentativa EXCEPT ![p] = 1]
    /\ sucesso' = [sucesso EXCEPT ![p] = FALSE]
    /\ memoria' = [memoria EXCEPT ![p] = Limpa]
    /\ trava' = [n \in Notas |-> IF trava[n] = p THEN Livre ELSE trava[n]]
    /\ UNCHANGED <<linha, sefaz, antiga, logVars>>

-----------------------------------------------------------------------------
PassoPoller(p) ==
    \/ Selecionar(p)
    \/ \E n \in Notas : ConsultarPendente(p, n)
    \/ \E n \in Notas : ConsultarIlegivel(p, n)
    \/ \E n \in Notas : ConsultarFinal(p, n)
    \/ Postar(p)
    \/ Registrar(p)
    \/ Concluir(p)
    \/ Interromper(p)

PollerNext ==
    \/ \E p \in Pollers : PassoPoller(p)
    \/ \E n \in Notas : Envelhecer(n)

-----------------------------------------------------------------------------
(* The poller on its own: every note starts as _persistir_processando leaves *)
(* it, in PROCESSANDO with a receipt, its batch under processing at SEFAZ.   *)
vars == <<notasVars, pollerVars>>

Init ==
    /\ linha = [n \in Notas |-> [LinhaAusente EXCEPT !.status = "PROCESSANDO",
                                                     !.recibo = TRUE]]
    /\ trava = [n \in Notas |-> Livre]
    /\ sefaz = [n \in Notas |-> [cstat |-> "105", eventos |-> {}]]
    /\ PollerInit

Next ==
    \/ PollerNext
    \/ \E n \in Notas : SefazProcessa(n) /\ UNCHANGED pollerVars

(* The steps an execution takes when nothing goes wrong.                     *)
Avanco(p) ==
    \/ Selecionar(p)
    \/ \E n \in Notas : ConsultarPendente(p, n) \/ ConsultarFinal(p, n)
    \/ Postar(p)
    \/ Registrar(p)
    \/ Concluir(p)

(* The cron keeps calling the poller and an execution that is not killed     *)
(* goes on; time passes; SEFAZ ends every batch it accepted.                 *)
Justica ==
    /\ \A p \in Pollers : WF_vars(Avanco(p))
    /\ \A n \in Notas : WF_vars(Envelhecer(n))
    /\ \A n \in Notas : WF_vars(SefazProcessa(n) /\ UNCHANGED pollerVars)

Spec == Init /\ [][Next]_vars
SpecJusta == Spec /\ Justica

-----------------------------------------------------------------------------
TypeOK == NotasTypeOK /\ PollerTypeOK

(* A status the poller made durable is the one SEFAZ's protocol maps to,     *)
(* whichever of several overlapping executions wrote it (consultar_recibo_   *)
(* sefaz, processar_pendentes).                                              *)
StatusDoProtocolo ==
    \A n \in Notas : linha[n].status \in Finais =>
        /\ sefaz[n].cstat \in CStatFinal
        /\ linha[n].status = MapearStatusFinal(sefaz[n].cstat)

(* The customer is told before the status is durable, never the reverse: a   *)
(* crash can repeat a webhook but cannot swallow its first attempt           *)
(* (disparar_webhook is called before any commit of the new status).         *)
AvisoAntesDoStatus ==
    \A n \in ComUrl : linha[n].status \in Finais =>
        <<n, linha[n].status>> \in postados

(* webhook_logs can be believed: a row of it exists only together with the   *)
(* durable status it reports, a success was really received, and attempt k+1 *)
(* follows a logged failure of attempt k (_registrar_log, the retry loop).   *)
LogFiel ==
    \A l \in logs :
        /\ linha[l.nota].status = l.status
        /\ l.sucesso => <<l.nota, l.status>> \in recebidos
        /\ l.tentativa > 1 =>
             [nota |-> l.nota, status |-> l.status, sucesso |-> FALSE,
              tentativa |-> l.tentativa - 1] \in logs

(* The notes an execution has selected and not yet made durable.             *)
EmMaos(p) == fila[p] \union Sujas(p)

(* FOR UPDATE SKIP LOCKED keeps overlapping executions of the cron from      *)
(* working on the same note (docstring of processar_pendentes).              *)
ProcessamentoExclusivo ==
    \A p, q \in Pollers : p # q => EmMaos(p) \intersect EmMaos(q) = {}

(* No row stays locked once its execution is over, however it ended: a       *)
(* leaked lock would hide the note from every later SKIP LOCKED.             *)
NenhumaTravaOrfa ==
    \A n \in Notas, p \in Pollers : trava[n] = p =>
        fase[p] # "ocioso" /\ linha[n].status = "PROCESSANDO"

(* A decided note keeps its status, even when an execution that read it      *)
(* while it was still PROCESSANDO commits later.                             *)
DecisaoEstavel ==
    [][\A n \in Notas : linha[n].status \in Finais =>
           linha'[n].status = linha[n].status]_vars

(* Every note left in PROCESSANDO is eventually decided, if executions are   *)
(* interrupted only finitely often.                                          *)
TodaPendenteDecidida ==
    \A n \in Notas : linha[n].status = "PROCESSANDO" ~> linha[n].status \in Finais

=============================================================================
