------------------------------- MODULE Migracao -------------------------------
(***************************************************************************)
(* The schema migration (src/api/scripts/migrate.py, POST /admin/migrate)   *)
(* while the API serves.  On Postgres it is one transaction of DDL, and     *)
(* what matters is the table locks: a request locks each table it names     *)
(* until its session commits or is closed, and keeps them while it awaits   *)
(* SEFAZ.  On SQLite each statement of the migration commits by itself.     *)
(*                                                                          *)
(* A transaction is a program and the step it is at: a sequence of steps,   *)
(* each the lock of a table, something done outside the database, or a      *)
(* commit.                                                                  *)
(* Row locks are left out: what waits for one holds no table lock that a    *)
(* migration waits for, unless it already waits for the migration itself.   *)
(***************************************************************************)
EXTENDS FiniteSets, Naturals, Sequences

CONSTANTS
    Migracoes,   \* executions of migrar()
    Sessoes,     \* requests and executions of the cron
    Anteriores,  \* the schemas there may be before
    MaxTransacoes  \* how many of the two start (bound)

ASSUME MaxTransacoesAssumption == MaxTransacoes \in Nat
ASSUME AtoresAssumption == Migracoes \intersect Sessoes = {}

VARIABLES
    dialeto,   \* of the engine
    schema,    \* the tables, later columns and widened columns committed
    tr         \* tr[x]: the transaction of each migration and session

migVars == <<dialeto, schema, tr>>

Atores == Migracoes \union Sessoes

Tabelas ==
    {"empresas", "gtin_consultas", "api_clients", "gdpr_solicitacoes", "notas_fiscais",
     "webhook_logs"}

Colunas    == {"csc", "csc_id", "codigo_regime_tributario"}
Ampliacoes == {"protocolo", "recibo"}

Completo == Tabelas \union Colunas \union Ampliacoes

(* What CREATE TABLE brings: the model as it is now.                         *)
Traz(t) ==
    {t} \union (IF t = "empresas" THEN Colunas ELSE {})
        \union (IF t = "notas_fiscais" THEN Ampliacoes ELSE {})

(* A schema that was ever made: what a table brings only with the table, and *)
(* who has clients of the API has the companies and the notes they work on.  *)
SoComATabela(s) == \A t \in Tabelas : Traz(t) \intersect s # {} => t \in s

DeUso(s) == "api_clients" \in s => {"empresas", "notas_fiscais"} \subseteq s

ASSUME AnterioresAssumption ==
    \A s \in Anteriores : s \subseteq Completo /\ SoComATabela(s) /\ DeUso(s)

-----------------------------------------------------------------------------
(* The table locks of Postgres: SELECT, SELECT FOR UPDATE and the check of a *)
(* foreign key, INSERT and UPDATE, the table a new foreign key refers to,    *)
(* and ALTER TABLE.                                                          *)
Conflita(modo) ==
    CASE modo \in {"SELECT", "CHAVE"} -> {"ALTER"}
      [] modo = "ESCRITA" -> {"REFERIDA", "ALTER"}
      [] modo = "REFERIDA" -> {"ESCRITA", "REFERIDA", "ALTER"}
      [] modo = "ALTER" -> {"SELECT", "CHAVE", "ESCRITA", "REFERIDA", "ALTER"}

(* A statement: the table and its lock, what it needs in the schema, what it *)
(* adds to it, and whether it fails if that is already there.                *)
Comando(t, modo, requer, cria, nova) ==
    [faz |-> "comando", t |-> t, modo |-> modo, requer |-> requer, cria |-> cria, nova |-> nova]

Usa(t, modo) == Comando(t, modo, {t}, {}, FALSE)

Fora    == [faz |-> "fora"]       \* SEFAZ registers it, the customer or the Blob has it
Commit  == [faz |-> "commit"]     \* or the session is closed
Pragma  == [faz |-> "pragma"]     \* the columns of empresas are read

(* The tables its foreign keys refer to.                                     *)
Referir(t) ==
    CASE t \in {"empresas", "gtin_consultas"} -> <<>>
      [] t = "webhook_logs" -> <<Usa("empresas", "REFERIDA"), Usa("notas_fiscais", "REFERIDA")>>
      [] OTHER -> <<Usa("empresas", "REFERIDA")>>

CriarSeFalta(t, existe) ==
    IF t \in existe THEN <<>> ELSE <<Comando(t, "ALTER", {}, Traz(t), TRUE)>> \o Referir(t)

(* A table after those it refers to.                                         *)
CreateAll(existe) ==
    CriarSeFalta("empresas", existe) \o CriarSeFalta("gtin_consultas", existe)
      \o CriarSeFalta("api_clients", existe) \o CriarSeFalta("gdpr_solicitacoes", existe)
      \o CriarSeFalta("notas_fiscais", existe) \o CriarSeFalta("webhook_logs", existe)

(* Mutant of AlterTables: the columns only.                                  *)
AlterTablesSemTipos == <<Comando("empresas", "ALTER", {}, Colunas, FALSE)>>

AlterTables ==
    <<Comando("empresas", "ALTER", {}, Colunas, FALSE),
      Comando("notas_fiscais", "ALTER", {}, {"protocolo"}, FALSE),
      Comando("notas_fiscais", "ALTER", {}, {"recibo"}, FALSE)>>

(* Mutant of Migrar: create_all over a connection of its own.                *)
MigrarPorPartes ==
    CreateAll(schema) \o <<Commit>> \o IF dialeto = "postgresql" THEN AlterTables \o <<Commit>>
                                       ELSE <<Pragma>>

(* migrar().                                                                 *)
Migrar ==
    CreateAll(schema) \o IF dialeto = "postgresql" THEN AlterTables \o <<Commit>> ELSE <<Pragma>>

AdicionarSeFalta(c, existe) ==
    IF c \in existe THEN <<>> ELSE <<Comando("empresas", "ALTER", {}, {c}, TRUE)>>

(* SQLite: the columns that were not there.                                  *)
FaltaAdicionar(existe) ==
    AdicionarSeFalta("csc", existe) \o AdicionarSeFalta("csc_id", existe)
      \o AdicionarSeFalta("codigo_regime_tributario", existe) \o <<Commit>>

-----------------------------------------------------------------------------
Autenticar == <<Usa("api_clients", "SELECT")>>

(* Mutant of AutenticarAdmin: the client comes with its company.             *)
AutenticarAdminComEmpresa == {<<"api_clients", "SELECT">>, <<"empresas", "SELECT">>}

(* What the session of the request that migrates keeps locked while the      *)
(* migration runs over a connection of its own.                              *)
AutenticarAdmin == {<<"api_clients", "SELECT">>}

(* db.get(Empresa): all its columns, and its clients and notes with it.      *)
LerEmpresa ==
    <<Comando("empresas", "SELECT", {"empresas"} \union Colunas, {}, FALSE),
      Usa("notas_fiscais", "SELECT")>>

(* Each of _obter_crt, _obter_csc and obter_pem closes the session.          *)
LerEFechar == LerEmpresa \o <<Commit>>

(* The INSERT of a note, whose foreign key is checked at its end.            *)
InserirNota(largas) ==
    <<Comando("notas_fiscais", "ESCRITA", {"notas_fiscais"} \union largas, {}, FALSE),
      Usa("empresas", "CHAVE"), Commit>>

(* emitir_nfe with the certificate in the KV, or any emission that reads the *)
(* company first; `largas' are the columns its protocol (or its receipt,     *)
(* alike) fits only when widened.                                            *)
Emissao(le, largas) ==
    Autenticar \o (IF le THEN LerEFechar ELSE <<>>) \o <<Fora>> \o InserirNota(largas)

(* Mutant of Evento: the session is closed before SEFAZ is called, and the   *)
(* company read again after the event was added.                             *)
EventoFechando(le) ==
    Autenticar \o (IF le THEN LerEFechar ELSE <<>>)
      \o <<Usa("notas_fiscais", "SELECT")>> \o LerEFechar
      \o <<Fora, Usa("notas_fiscais", "ESCRITA"), Usa("empresas", "SELECT"), Commit>>

(* Mutant of Evento: the company is read once SEFAZ answered.                *)
EventoLendoDepois(le) ==
    Autenticar \o (IF le THEN LerEFechar ELSE <<>>)
      \o <<Usa("notas_fiscais", "SELECT"), Fora>> \o LerEmpresa
      \o <<Usa("notas_fiscais", "ESCRITA"), Commit>>

(* cancelar_nota, carta_correcao_nota, operacao_nao_realizada.               *)
Evento(le) ==
    Autenticar \o (IF le THEN LerEFechar ELSE <<>>)
      \o <<Usa("notas_fiscais", "SELECT")>> \o LerEmpresa
      \o <<Fora, Usa("notas_fiscais", "ESCRITA"), Commit>>

(* The POST of a webhook; then the flush of the status, the log and its two  *)
(* foreign keys.                                                             *)
Entrega ==
    <<Fora, Usa("notas_fiscais", "ESCRITA"), Usa("webhook_logs", "ESCRITA"),
      Usa("empresas", "CHAVE"), Commit>>

(* processar_pendentes over two decided notes of a company: the session has  *)
(* the company from the first one on.                                        *)
Poller(comUrl) ==
    <<Usa("notas_fiscais", "CHAVE")>> \o LerEmpresa
      \o (IF comUrl THEN Entrega \o Entrega ELSE <<Usa("notas_fiscais", "ESCRITA"), Commit>>)

(* upload_certificado: the Blob first.                                       *)
Certificado ==
    Autenticar \o <<Fora>> \o LerEmpresa \o <<Usa("empresas", "ESCRITA"), Commit>>

Programas(tipo) ==
    CASE tipo = "emissao" ->
            {Emissao(le, largas) : le \in BOOLEAN, largas \in {{}, {"protocolo"}}}
      [] tipo = "evento" -> {Evento(le) : le \in BOOLEAN}
      [] tipo = "poller" -> {Poller(comUrl) : comUrl \in BOOLEAN}
      [] tipo = "certificado" -> {Certificado}

Tipos == {"emissao", "evento", "poller", "certificado"}

-----------------------------------------------------------------------------
Nova(tipo, prog, pedido) ==
    [tipo |-> tipo, fase |-> "ativa", prog |-> prog, pc |-> 1, tem |-> {}, pedido |-> pedido,
     novo |-> {}, externo |-> FALSE, com |-> {}, criando |-> {}, faltou |-> {}]

Livre == [Nova("nenhum", <<>>, {}) EXCEPT !.fase = "livre"]

Ativa(x) == tr[x].fase = "ativa"

Passo(x) == tr[x].prog[tr[x].pc]

EmComando(x) == Ativa(x) /\ Passo(x).faz = "comando"

(* The locks of `travas' the statement of x has to wait for.                 *)
Segura(travas, x) ==
    {l \in travas : l[1] = Passo(x).t /\ l[2] \in Conflita(Passo(x).modo)}

(* What x sees: what was committed and what it made itself.                  *)
Visivel(x) == schema \union tr[x].novo

(* Names are resolved before the lock is awaited.                            *)
SemNome(x) ==
    \/ Passo(x).nova /\ Passo(x).cria \intersect schema # {}
    \/ ~Passo(x).nova /\ Passo(x).t \notin Visivel(x)

(* The transactions x waits for.                                             *)
Espera(x) ==
    IF EmComando(x) /\ ~SemNome(x) THEN {y \in Atores \ {x} : Segura(tr[y].tem, x) # {}} ELSE {}

(* A session that locked something and now waits for nothing in the database.*)
EsperaPedido(x) == {y \in Atores : Segura(tr[y].pedido, x) # {}}

Falhar(x, faltou) ==
    tr' = [tr EXCEPT ![x] = [tr[x] EXCEPT !.fase = "erro", !.prog = <<>>, !.pc = 1,
                                      !.tem = {}, !.pedido = {}, !.novo = {}, !.faltou = faltou]]

Executar(x) ==
    /\ EmComando(x)
    /\ \/ SemNome(x) /\ Falhar(x, {Passo(x).t}) /\ UNCHANGED schema
       \/ /\ ~SemNome(x)
          /\ Espera(x) \union EsperaPedido(x) = {}
          /\ IF ~(Passo(x).requer \subseteq Visivel(x))
             THEN /\ Falhar(x, Passo(x).requer \ Visivel(x))
                  /\ UNCHANGED schema
             ELSE IF dialeto = "sqlite"
             THEN /\ schema' = schema \union Passo(x).cria
                  /\ tr' = [tr EXCEPT ![x].pc = @ + 1]
             ELSE /\ tr' = [tr EXCEPT
                              ![x] = [tr[x] EXCEPT
                                        !.pc = @ + 1,
                                        !.tem = @ \union {<<Passo(x).t, Passo(x).modo>>},
                                        !.novo = @ \union Passo(x).cria]]
                  /\ UNCHANGED schema
    /\ UNCHANGED dialeto

FazerFora(x) ==
    /\ Ativa(x) /\ Passo(x).faz = "fora"
    /\ tr' = [tr EXCEPT ![x] = [tr[x] EXCEPT !.pc = @ + 1, !.externo = TRUE]]
    /\ UNCHANGED <<dialeto, schema>>

LerColunas(x) ==
    /\ Ativa(x) /\ Passo(x).faz = "pragma"
    /\ tr' = [tr EXCEPT ![x] = [tr[x] EXCEPT !.prog = FaltaAdicionar(schema), !.pc = 1]]
    /\ UNCHANGED <<dialeto, schema>>

Confirmar(x) ==
    /\ Ativa(x) /\ Passo(x).faz = "commit"
    /\ schema' = Visivel(x)
    /\ IF tr[x].pc = Len(tr[x].prog)
       THEN tr' = [tr EXCEPT ![x] = [Livre EXCEPT !.fase = "ok"]]
       ELSE tr' = [tr EXCEPT ![x] = [tr[x] EXCEPT !.pc = @ + 1, !.tem = {}, !.externo = FALSE]]
    /\ UNCHANGED dialeto

(* Whom x waits for, directly or not: the least set that has whom x waits    *)
(* for, and whom any of its own waits for.                                   *)
Alcance(x) ==
    LET espera == [y \in Atores |-> Espera(y)]
        fecha(S) == \A y \in S \union {x} : espera[y] \subseteq S
    IN  {y \in Atores : \A S \in SUBSET Atores : fecha(S) => y \in S}

(* Postgres ends one of the transactions that wait for one another.  Which   *)
(* they were, and what they were creating, is kept (history).                *)
Abortar(x) ==
    /\ Espera(x) # {}
    /\ \E y \in Atores : x \in Espera(y)
    /\ LET com == Alcance(x) IN
       /\ x \in com
       /\ tr' = [tr EXCEPT ![x] = [tr[x] EXCEPT !.fase = "vitima", !.prog = <<>>, !.pc = 1,
                                     !.tem = {}, !.pedido = {}, !.novo = {}, !.com = com,
                                     !.criando = UNION {tr[y].novo : y \in com}]]
    /\ UNCHANGED <<dialeto, schema>>

(* The function is killed, or what it awaits raises.                         *)
Cair(x) ==
    /\ Ativa(x)
    /\ tr' = [tr EXCEPT ![x] = [Livre EXCEPT !.fase = "caiu"]]
    /\ UNCHANGED <<dialeto, schema>>

(* Which of those that did not start is the one that does makes no difference*)
(* (it keeps TLC from the permutations).                                     *)
Proxima(x, deles) ==
    /\ tr[x] = Livre
    /\ x = CHOOSE y \in deles : tr[y] = Livre
    /\ Cardinality({y \in Atores : tr[y].fase # "livre"}) < MaxTransacoes

(* The script, or the endpoint of an administrator.                          *)
IniciarMigracao(m) ==
    /\ Proxima(m, Migracoes)
    /\ \E pedido \in {{}} \union (IF "api_clients" \in schema THEN {AutenticarAdmin} ELSE {}) :
          tr' = [tr EXCEPT ![m] = Nova("migracao", Migrar, pedido)]
    /\ UNCHANGED <<dialeto, schema>>

IniciarSessao(s) ==
    /\ Proxima(s, Sessoes)
    /\ dialeto = "postgresql"
    /\ \E tipo \in Tipos : \E prog \in Programas(tipo) :
          tr' = [tr EXCEPT ![s] = Nova(tipo, prog, {})]
    /\ UNCHANGED <<dialeto, schema>>

Avancar(x) == Executar(x) \/ FazerFora(x) \/ LerColunas(x) \/ Confirmar(x)

MigInit ==
    /\ dialeto \in {"postgresql", "sqlite"}
    /\ schema \in Anteriores
    /\ tr = [x \in Atores |-> Livre]

MigNext ==
    \/ \E m \in Migracoes : IniciarMigracao(m)
    \/ \E s \in Sessoes : IniciarSessao(s)
    \/ \E x \in Atores : Avancar(x) \/ Abortar(x) \/ Cair(x)

(* What runs goes on, and Postgres looks for deadlocks (deadlock_timeout).   *)
MigFairness ==
    /\ \A x \in Atores : WF_migVars(Avancar(x))
    /\ WF_migVars(\E x \in Atores : Abortar(x))

MigSpec == MigInit /\ [][MigNext]_migVars /\ MigFairness

-----------------------------------------------------------------------------
(* A migration that says it is done leaves the whole schema (SQLite has no   *)
(* widths), and one fails only because another made what it had found        *)
(* missing: on Postgres, one that is done itself.                            *)
MigracaoCompleta ==
    \A m \in Migracoes :
      /\ tr[m].fase = "ok" =>
            Completo \ (IF dialeto = "sqlite" THEN Ampliacoes ELSE {}) \subseteq schema
      /\ tr[m].fase = "erro" =>
            \E outra \in Migracoes \ {m} :
               tr[outra].fase # "livre" /\ (dialeto = "postgresql" => tr[outra].fase = "ok")

(* Nothing of the schema is taken away, and on Postgres it comes whole or    *)
(* not at all (engine.begin), however the migration is interrupted.          *)
MigracaoAtomica ==
    [][schema' # schema => /\ schema \subseteq schema'
                           /\ dialeto = "postgresql" => schema' = Completo]_migVars

(* Who is ended by a deadlock after the world outside has what it did: a     *)
(* migration alters empresas before notas_fiscais, and the INSERT of a note  *)
(* locks them the other way (migrate.py:48-69, nfe_service.py:340), always   *)
(* after SEFAZ answered; an event or an upload is lost only to a migration   *)
(* that creates a table referring to the one they write.  A deadlock is of   *)
(* one migration with requests: neither they nor migrations alone make one.  *)
VitimasDoImpasse ==
    \A x \in Atores :
      tr[x].fase = "vitima" =>
        /\ Cardinality(tr[x].com \intersect Migracoes) = 1
        /\ tr[x].com \intersect Sessoes # {}
        /\ tr[x].tipo = "emissao" => tr[x].externo
        /\ tr[x].tipo = "evento" /\ tr[x].externo => "webhook_logs" \in tr[x].criando
        /\ tr[x].tipo = "certificado" =>
              tr[x].criando \intersect {"gdpr_solicitacoes", "webhook_logs"} # {}

(* Over an older schema no request fails once SEFAZ registered what it asks, *)
(* but an emission whose protocol or receipt needs the wider column          *)
(* (migrate.py:24-29); a webhook is sent before its log finds no table.      *)
ErroAntesDaSefaz ==
    \A s \in Sessoes :
      tr[s].fase = "erro" /\ tr[s].externo =>
        \/ tr[s].tipo = "emissao" /\ tr[s].faltou = {"protocolo"}
        \/ tr[s].tipo = "poller" /\ tr[s].faltou = {"webhook_logs"}
        \/ tr[s].tipo = "certificado"

(* Whatever waits on whatever, every request and every migration that starts *)
(* ends (no more than MaxTransacoes do); the migration's own request is not  *)
(* among what it waits for.                                                  *)
TodosTerminam == <>[](\A x \in Atores : ~Ativa(x))
=============================================================================
