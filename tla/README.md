# Formal model of the PyNFe API

The repository has two layers. `src/pynfe` is a library that builds, signs and
sends Brazilian fiscal documents (NF-e, NFC-e, CT-e, MDF-e, NFS-e) to SEFAZ, the
tax authority. `src/api` is a FastAPI service on top of it: it keeps emitted
notes in Postgres, certificates in Postgres, a Blob store and a KV cache, and
has a cron (the *poller*) that decides the notes SEFAZ processes asynchronously
and tells the customer by webhook. What is concurrent, persistent or retried is
in the service, and most of the models are about it. Of the library they have
what a document states (totals, key, groups) and where a request is sent.

## 1. Inventory

| component | source | state | operations |
|---|---|---|---|
| poller | `api/tasks/poller.py`, `api/routers/tasks.py` | none of its own: row locks and the session's unflushed changes | select a batch, consult each receipt, commit |
| webhook delivery | `api/services/webhook_service.py` | `webhook_logs` | POST, retry, log with a commit |
| emission | `api/services/nfe_service.py`, `nfce_service.py` | the row of a new note | send, poll the receipt, write the final or the pending row |
| events | `nfe_service.py` | `status` and `eventos` of a row | cancel, correction letter, operation not carried out |
| certificates | `certificado_service.py` | Blob, row of the company, KV entry (1 h) | upload, `obter_pem` |
| rate limit | `api/core/ratelimit.py` | two ZSETs and a plan cache per client | `check_and_increment`, `_plano_do_client` |
| companies and login | `empresa_service.py`, `routers/auth.py`, `dependencies.py` | companies, API clients | create, update, login, refresh |
| LGPD | `routers/gdpr.py` | encrypted document of a note, `gdpr_solicitacoes` | anonymise, read a record |
| GTIN, SEFAZ status | `gtin_service.py`, `sefaz_service.py` | KV entries, `gtin_consultas` | read-through queries, one or a batch |
| schema migration | `scripts/migrate.py`, `routers/admin.py` | the schema; the locks of its transaction | upgrade, from a script or a request |
| store of entities | `pynfe/entidades/fonte_dados.py`, `base.py` | one list per process | register, remove a class, export; swapped by the API |
| note | `pynfe/entidades/notafiscal.py` | items, accumulated totals, code, form of emission | create, add an item, compute the key |
| serialiser of NF-e and NFC-e | `pynfe/processamento/serializacao.py` | none, but it changes the note | export, in contingency or not |
| addresses of SEFAZ | `pynfe/processamento/comunicacao.py`, `utils/webservices.py` | the last URL of a connection | one method per service |

How they interact: emission, poller and events share the rows of
`notas_fiscais`; the poller calls the webhook delivery inside its own database
session; emission, events, GTIN and status queries call `obter_pem`; emission
swaps the library's global `FonteDados` for one of its own; every request that
touches a table can wait for a migration, and make it wait.

What is hard: two executions of the cron overlap (a batch can take longer than
the interval); a commit made for the log of a webhook has effects on the batch;
handlers read a row, await SEFAZ for seconds, and write the row back; SEFAZ's
answer can be lost after it took effect; a function can be killed at any await;
a session keeps the locks of the tables it read while it awaits SEFAZ; a document
is written twice from the same amounts, item by item and as totals.
`PROJECT.json` lists each hazard with its line.

## 2. Modules

| module | what it models |
|---|---|
| `Notas` | the shared state: `linha` (rows), `trava` (row locks), `sefaz` (SEFAZ's record) |
| `Poller` | the cron and the webhook delivery |
| `Emissao` | emission of a note until its row is written |
| `Eventos` | the three handlers that register an event and write the row |
| `Sistema` | the three over the same rows |
| `CicloDaNota` | abstract: the life cycle of a note's status |
| `Certificado` | upload and reading of a company's certificate over row and KV |
| `RateLimit` | the two sliding windows of one client |
| `Requisicoes` | a request of the API: its operation, its phase, what it has in hand |
| `Cadastro` | companies, clients, login and the tokens |
| `FonteDados` | the library's store of entities, and the swap of it |
| `Lgpd` | the rows with personal data, their erasure and its record |
| `Consultas` | the cached queries of GTINs and of the status of SEFAZ |
| `Api` | those four over one database, one KV and one store |
| `Leiaute` | the layout of `leiauteNFe_v4.00.xsd`, as content models |
| `Imposto` | the tax groups of an item |
| `Partes` | the other groups of a document |
| `Documento` | a note built item by item and exported |
| `Conferencia` | what holds of the documents |
| `Enderecos` | where each request of a connection goes |
| `Transmissao` | a document and the connection it is sent by |
| `Migracao` | the migration among the requests that use the tables |
| `MC...` | instances for TLC: `MCPoller`, `MCSistema`, `MCCertificado`, `MCRateLimit`, `MCApi`, `MCDocumento`, `MCMigracao` |
| `..._proofs` | theorems: `Poller_proofs`, `Sistema_proofs`, `Certificado_proofs`, `RateLimit_proofs`, `Api_proofs`, `Consultas_proofs`, `Transmissao_proofs`, `Migracao_proofs` |

**Notas.** A row is its `status` ("AUSENTE" before the INSERT), whether it has a
`recibo` and a `protocolo`, and its list of `eventos` as a set of
`[tp, seq]`. The cStat of a protocol is "100", "150", "110" or "5xx", which
stands for all rejections. SEFAZ is external: its record of a note is the state
of the batch ("nada", "105", or the final cStat) and the registered events.
Assumed of it: a final cStat never changes, and the answer to a processed batch
carries the note's protocol. Writes become visible at commit (READ COMMITTED) and
an UPDATE waits while another transaction holds the row.

**Poller.** An execution is "ocioso", "lote" (in the loop of
`processar_pendentes`), "postar" or "registrar" (in `disparar_webhook`).
`memoria[p][n]` is the status set on the object and not yet flushed; `Commit`
writes it and frees the locks, and happens in `Registrar` (the commit in
`_registrar_log`) and in `Concluir` (the one at the end). A row is used after such
a commit as it was read before it, because the session has
`expire_on_commit=False`: nothing in `Visitar` looks at the row's status again.
An interruption is an exception out of `consulta_recibo`, a failing commit or a
killed function; all of them roll the session back.

**Emissao.** One emission per access key (each draws a fresh one). The paths
are: synchronous protocol; receipt polled up to `ReciboMax` times; pending row;
refusal; a lost answer; a crash before the INSERT. NF-e and NFC-e have the same
pipeline and one model.

**Eventos.** A request remembers what it read (`lidos`) while SEFAZ is awaited,
and `Gravar` writes that list plus its event.

**Sistema** interleaves the steps of the three. **CicloDaNota** says which
moves a note's status may make; `Sistema` implements it with `status` mapped to
the status column.

**Certificado.** One company, since the KV key has its id. `passo[p]` is a request:
an upload goes "blob", "empresa" (the row is loaded), "cache" (committed, the KV
is next); `obter_pem` on a miss goes "falta", "cache". `GravarEmpresa` writes the
PEMs only if they differ from those loaded, which is what the ORM's UPDATE does.
`resta` is the cached value's remaining life; `idade[c]` is a history variable:
for how long `c` has not been the row's certificate. Different certificates have
different keys, so a pair of PEMs is one value. The Blob object, the password and
the URL are written and never read; the PUT is a step that may fail.

**RateLimit.** One client. `Chegar` takes the timestamp; `ContarMinuto` and
`ContarDia` are the two pipelines, each atomic in Redis; others run in between. A
ZSET is the set of its requests (members are unique, the score is `carimbo`). A
second is `Segundo` ticks, since the header `X-RateLimit-Reset` is in whole seconds:
`Reset` is the instant it announces, counted from the start of the second of the
answer (`decidido`), so up to a second early. A key past `expira` is empty. A request whose pipeline raised may or may not have
been counted (`Falhar`). All clocks agree; `Atraso` bounds how late a pipeline
runs after the timestamp. The plan is fixed: no endpoint changes it.

**Requisicoes, Api.** `req[p]` is the record of a request, and each identifier is
used once, so what a request answered stays to be compared with what comes later
(a token is the answer of a login). `Antes` gives the requests answered before the
run begins. A request is cut by awaits into phases, and may be interrupted in each
of them, which rolls its session back. The four components share `req` and are
interleaved by `Api`.

**Cadastro.** `CriarEmpresa` is the SELECT, `Inserir` the flush that the unique
index may refuse (or wait for, while another uncommitted one has the CNPJ),
`GravarCadastro` the commit of company and client. A prefix is one of a small set,
since what matters is that two may be equal. Disabling a client is external: it is
done in the database.

**FonteDados.** `fonte[f]` is the list of a store, in order: the one of the process
and one for each emission in its block. `modulo` is the module's variable
`_fonte_dados`, the store every new entity registers in. The block
`_fonte_dados_isolada` is steps of an emission: `Trocar` (in `Emitir`) puts a store of
its own in the variable and remembers the one that was there, `ConverterParte` and
`ConverterNota` make entities, which go wherever the variable points, `ExportarNota`
reads the notes of the store the block was given and puts the variable back, as
`FalharNoBloco` does when the conversion or the serialisation raises. `LacoLivre`, a
guard of every other request's steps, says that the event loop is not given up inside
the block, which has no await. `Removida` is `remover_objeto`, that removes from the
list it is iterating over.

**Lgpd.** A recipient's document that was not written in digits only has another
hash than the one the erasure looks for. The SELECT, the commit of the rows and
the commit of the record are three steps. **Consultas.** One coroutine per key:
look up, ask, cache; the first that raises answers the request while the others go
on. `kv[k]` is the age of the answer and its remaining life, in ticks.

**Documento.** A note is the attributes the serialiser branches on (as a set `tem`)
and its amounts in thousandths, so that rounding to cents shows. An item is added
by `AdicionarItem`, which accumulates the totals as
`adicionar_produto_servico` does; `Exportar` draws the code, reads the key, changes
the form of emission in contingency and writes the groups, each the sequence of its
elements with their amounts, or raises (`FalhaNoMeio`: among others, for a declaration
of importation whose additions were never given). `Imposto` and `Partes` are the groups, in
the order the code writes them, each amount with the number of places it is written
with (two, four, or those it came with, `Casas`); `Leiaute` is the schema they should follow: a group
is a sequence of particles with a minimum and a maximum. `Conferencia` compares the
two, naming each group known to differ (`DesviosDoItem`, `DesviosDaNota`).

**Enderecos.** `con.url` is the URL a connection last computed, which a request
whose UF is in no table reuses. An address is what it was made of: table,
authority, environment, service. The environment is the one its host belongs to: for
the NFC-e of PI and RN the test host is the production one (`MesmoHost`). SVC-RS, as a
UF asked for, has a table without a register: a KeyError.

**Migracao.** A transaction is its program, a sequence of statements with the table
lock each takes, steps outside the database, and commits, and the position it is at.
`LerEmpresa` locks the notes too, since the relation is loaded with `selectin`; each
`_session_ctx` closes the session it was given, and so frees its locks. `pedido` are
the locks of the session of the request that migrates, which Postgres does not know
to wait for its own migration. External: which locks conflict, what a foreign key
locks, and that a deadlock ends one of those in it (`Abortar`). Row locks are left
out, for the reason the module gives. Two assumptions on the constants: who migrates
and who requests are different transactions, and an earlier schema is one some version
of `create_all` made (`AnterioresAssumption`): nothing a table brings is there without
the table, and whoever has clients of the API, who refer to a company and are there to
emit notes, has those two tables. No code drops one.

## 3. Runs

| run | question | instance |
|---|---|---|
| `PollerComWebhook` | types, right status, webhook before status, truthful log, decisions final | 3 notes (2 with a webhook), 2 executions, batch of 2, 2 attempts, 1 interruption |
| `PollerVivo` | every pending note is decided | 2 notes with a webhook, 2 executions, batch of 1, 3 attempts, 2 interruptions |
| `Sistema` | the table agrees with SEFAZ; pending rows have a batch; letters numbered without gaps; locks exclude; life cycle | 2 notes, 2 executions, 2 requests, no webhook |
| `CertificadoCache` | how old a cached certificate can be; the cache converges to the row | 2 certificates, 3 concurrent requests, TTL of 2 ticks, requests of up to 2 |
| `RateLimitJanelas` | limit per window, justified refusals, the announced wait | 4 requests, windows of 2 and 4 ticks, seconds of 2, limits 1 and 2, delay up to 2, 8 ticks |
| `Api` | one company per CNPJ; login by the owner; nothing of another company; true records of erasure; fresh answers; no foreign note in a document; nothing left of an emission in the library | 2 companies with a token each, 3 more requests (2 if one is a query), 2 prefixes, 2 GTINs, 1 UF |
| `Documento` | groups of the layout; totals of the items and `vNF`; key of the document; addresses, contingency, registers, test environment | 2 items, 2 serialisations, 2 codes, every UF and EX (and SVC-RS, to ask a register for), every ICMS modality with its optional parts |
| `Migracao` | whole or nothing; nothing waits for ever; who a deadlock ends after SEFAZ answered; what an older schema loses | 2 migrations and 2 sessions, 3 of them at a time, 4 earlier schemas, both dialects |
| `Lote150` | violated: no authorised note is recorded as rejected | 1 note |
| `EventoSome` | violated: an event stays listed | 1 note, 2 requests |
| `SemProtocolo` | violated: an authorised row has its protocol | 1 note |
| `CancelamentoDesfeito` | violated: a cancelled note stays cancelled | 2 notes with a webhook, 2 executions, 1 request |

Bounds. Two executions are enough for every race the code has, since they
interact only through rows and locks. Three notes make a batch (of two) with one
note left for the other execution; with a batch limit of one, selection has to
choose. `MaxInterrupcoes` bounds exceptions, crashes and unreadable answers
together. `MaxSeq` bounds correction letters. `Pedidos` bounds the requests in
flight, not their total. cStats are restricted per run: the passing runs over
`Sistema` leave 150 out, which `Lote150` shows to be mapped wrongly, and its
`ComUrl` is empty, because with webhooks the exclusion fails, and the life cycle with
it, as `CancelamentoDesfeito` shows.

Uploads and reads are unbounded in `CertificadoCache`: ages stop at one more than
any cached value can have. In `RateLimitJanelas` the delay is a whole minute
window, the most the proofs allow, and eight ticks let both keys expire
(two windows) with a request still on its way. Two ticks to a second are the least in
which an answer can come in the middle of one.

In `Api` the requests, the GTINs and the two companies are interchangeable, hence the
symmetry; three requests are the two halves of each race and one that sees the
result, and `MaxComConsulta` keeps the queries, whose batches interleave most, to two
of them. In `Documento` only a note with the basic attributes gets items of every
kind, and connections are opened for the basic note only: the groups of an item do not
read the note's attributes, nor do the addresses read the items. Some of the amounts
fall on half a cent, which is where the two roundings differ. In `Migracao`,
`MaxTransacoes` allows two migrations and a session or one migration and two
sessions; the identifiers are taken in order (`Proxima`), which forgets permutations
only. The four schemas are an empty one, one without the last two tables, one
without the later columns and widths, and a complete one.

Deadlock checking is off: once every note is decided the system may stop.

Fairness (`Justica`): the cron keeps calling the poller and an execution that is
not interrupted goes on (weak fairness of `Avanco(p)`, each poller's own steps;
the unreadable answer and the interruption are not fair); time passes
(`Envelhecer`); SEFAZ ends each accepted batch. `vercel.json` configures no cron,
although the poller's header refers to it: the first assumption is about how the
endpoint is called. Interruptions are finitely many; a note whose consultation
always raises would keep its batch from ever being committed.

For `Certificado`: a request in flight goes on or fails (weak fairness of the
choice, never of success) and time passes. `CacheConverge` supposes that uploads
stop, nothing about the readers, which may go on for ever.

For `Migracao`: a transaction that waits for nothing goes on, and Postgres ends one
of those in a deadlock (`deadlock_timeout`). Nothing is assumed of interruptions.
`TodosTerminam` then says that the only cycles are ones Postgres sees: the request
that migrates holds `api_clients`, which the migration does not alter while it
exists.

## 4. What the violations show

1. `_registrar_log` commits the poller's session (`webhook_service.py:81`), so
   `FOR UPDATE SKIP LOCKED` stops protecting the rest of the batch after the first
   webhook attempt. Another execution then decides a note the first one still has in
   hand as PROCESSANDO; the note is cancelled; the first execution sets it back to
   AUTORIZADA, with the cancellation in its list of events.
2. `_mapear_status_final` knows only 100: an asynchronous note authorised with 150
   is recorded as rejected.
3. The event list is read before and written after the call to SEFAZ: concurrent
   requests lose an event from the row (SEFAZ has both).
4. The poller stores neither protocol nor XML, so a note it authorised cannot be
   cancelled without giving the protocol.

Other departures are part of what the passing properties say, at the line of the
code, so that a change in either direction is noticed:

- `GruposConformes`: the groups that leave the layout for some combination of
  options, among them ICMSST, ICMS90 with the FCP alone, IPI without a class, `ide`
  of a contingency with references, NFref without a key, more than one seal; and the
  amounts that do not have two places: the base of ICMS00 and ICMS10 and `vTotTrib`
  with those they came with (so `Decimal("10.5")` or three places), `vICMSMonoDif` of
  ICMS53 with four, always.
- `TotaisDosItens`: the amounts a total has and no group states (the deferred ICMS
  of 51; 90 and 900 without base or tax).
- `ChaveDoDocumento`: the first document in contingency has the key of a normal
  emission.
- `ContingenciaEmOutraAutoridade`: the substitute is the authority that is down, for
  the NF-e of CE and the NFC-e of every UF without a service of its own.
  `EnderecoDoPedido`: the NFC-e of CE and MT has no entries.
- `CadastroDaUf`: the register is resolved for the connection's own UF.
- `EsperaBasta`: `X-RateLimit-Reset` is `int(time.time()) + reset_after`, so who comes
  back at that instant can find requests of the same second still in the window, and is
  refused again; at the end of the second that begins then, no longer.
- `LoginDoDono`: two clients with one prefix can no longer log in, either of them.
- `RemocaoDaClasse`: removal skips the neighbour of each entity removed.
- `VitimasDoImpasse`: the migration alters `empresas` before `notas_fiscais`, and the
  INSERT of a note locks them the other way; the one Postgres ends may be the INSERT
  of a note SEFAZ has just authorised. `ErroAntesDaSefaz`: over a schema not yet
  migrated, a protocol or a receipt that needs the wider column is lost the same way.

Read in the code, and in no property: a recipient written with punctuation is not
found by the erasure; `_persistir_processando` writes neither the hash nor the
document; a failed GTIN answer is cached like a good one, and for as long
(`RespostaRecente` bounds for how long any answer is repeated and does not see the
difference, and nothing in the repository promises one); `obter_objeto` and
`contar_objetos` with a filter raise; events and certificates the API makes stay in
the store of the process.

## 5. Proofs

`Poller_proofs` proves for every set of notes and executions, every batch limit and
number of attempts, from the named assumptions on the constants: types, right
status, webhook before status, truthful log, no leaked lock, and that decisions are
final; and, when no company has a webhook, mutual exclusion.

The inductive invariant `IInv` adds to these what a commit relies on: what a
session has in memory, and what it is announcing, is the mapping of SEFAZ's final
cStat (`MemoriaDoProtocolo`, `AvisoDoProtocolo`); a pending status of a note with a
webhook is exactly the one being announced (`SujaComAviso`); and what the delivery
has already done in each phase (`Entrega`). That decisions are final needs no
lock at all: every writer writes the image of the same final cStat
(`SefazEstavel`). Exclusion without webhooks has its own inductive invariant: no
execution is ever in a delivery, and whatever it has in hand is locked by it
(`EmMaosTravada`).

`Certificado_proofs` proves that what the KV holds was committed to the row and
left it at most TTL + `Atraso` ago. The induction carries the same bound for what
every request has in hand, measured by its own wait (`EmMaosRecente`).

`RateLimit_proofs` proves types and the three properties of its run for every number of
requests, limits, windows, any length of a second and every delay up to the shorter
window. With seconds of one tick, where nothing is cut, `EsperaBasta` says that to come
back at the announced instant is enough: the truncation alone is why it is not. The
argument:
each entry a key has forgotten is a whole window older than some request already
counted (`Completo`), by eviction or because the key, which outlives its entries by
two windows (`Folga`), expired; so a request let pass was counted together with all
the recent ones. The bound is carried for what each window let pass
(`PassaramRecente`) because a request the minute let pass becomes an allowed one
later. It holds for the window ending at the latest timestamp only: a request
that arrives late may find entries evicted by one with a later timestamp, so an
older window may have held more than the limit.

`Sistema_proofs` proves the composition for every number of notes, executions and
requests: types (`SistemaTipo`), that the table claims nothing SEFAZ did not grant
(`TabelaConfirmada`), that a pending row can be decided (`PendenteDecidivel`), that
listed events are registered ones (`EventosDaSefaz`), that correction letters have no
gap (`CartasSemLacuna`); if SEFAZ authorises with 100 only, that no authorised note is
recorded as rejected (`RejeitadaCorreta`; `Lote150` shows why the assumption is
needed); without webhooks, exclusion (`ExclusivoNoSistema`); with both assumptions,
the refinement of the life cycle (`SistemaImplementaCiclo`). `SistemaIInv` adds what
each request in flight knows: the phase of an emission and the record of SEFAZ agree
(`EtapaDaEmissao`, `ComLinha`), an answer in hand is one SEFAZ gave
(`RespostaDaSefaz`), what a request read was so and its number is the next one
(`PedidosCoerentes`), and a decision in a poller's memory is SEFAZ's
(`MemoriaDoProtocolo`, `DecididaNaSefaz`). `TravaRespeitada` is the extra invariant
of the case without webhooks: who has a note in hand holds its lock.

`Api_proofs` proves, for every number of requests, companies, prefixes and tokens:
`EmpresaPorCnpj`, `LoginSoDoDono`, `NadaDeOutraEmpresa`, `RegistroVerdadeiro`. The
invariant is built in layers, each assumed by the next: the shape of every record
(`Forma`), rows against the requests that made them (`CadastroIInv`), tokens against
clients (`LoginIInv`), and whatever a request read or wrote against the company of
its token (`DonosIInv`). The assumptions say what `Antes` may hold
(`AntesAssumption`, `AntesRespondidos`) and that requests are finitely many.

Of the stores of entities it proves `DocumentoProprio`, `BlocoIsolado` and
`RemocaoDaClasse`, for stores of any length. The first two need an invariant of the swap
(`FonteIInv`): while an emission is in its block the variable holds its store, which has
its note or none according to its phase, the stores of the others are empty and what it
has to put back is the store of the process (`DoBloco`); the variable it puts back and
the notes it exported are in its record (`DosPedidos`). If something were awaited inside the block, two emissions would overlap
and the invariant, with the property, would fail: that is the mutant of `LacoLivre`. The
third is about one list: `DaRemocao` counts, element by
element, what a removal has left and what it has met, and remembers whether it took the
last one (`2 * left + taken <= met`); that the neighbour of a removed entity is not
looked at is `DaRemovida`. `FiltradaDeMaisUm` is the lemma on filters both rest on.

`Consultas_proofs` proves `CacheRecente` for every time to live and delay
(`PrazoAssumption`, `AtrasoAssumption`): age and remaining life of what the KV holds
add up to at most the time to live and one request (`KvRecente`), and what a
coroutine has in hand is bounded by how long it has been running
(`ConsultaRecente`).

`Transmissao_proofs` proves the four properties of the addresses for every note, every
UF (the ones in no table too), both environments and every sequence of requests over
one connection. What makes it a matter of sequences is `con.url`: a request whose UF is
in no table is sent to what the connection computed last. The invariant
(`EnderecosIInv`) says that the last request is what its method computes from the
table, and that an address kept is of the connection's own environment; the rest are
lemmas on the tables, one for each authority that stands for a UF.

The same module proves the two properties of the key, `ChaveDoDocumento` and
`ChaveEstavel`, for every note whose code is not given or has eight digits
(`OpcoesAssumption`; the code raises on a key of another length). The invariant is
`ChaveIInv`: a code is drawn once, and the key of the last document is the one of that
code and of a form of emission, which is the note's, or the normal one if the note went
into the contingency since (`ChaveDaNota`). That the digit closes the sum is
`DoDV`, for any 43 digits; that the sum is a number at all needs an induction over
them, made here as a least counterexample (`Minimo`).

And `ValorDaNota`, for every note, any items and any lists (`ItensAssumption`, that
amounts are natural numbers; `OpcaoComListas`, that the lists are lists and the
references of the kinds the code tells apart). `ValorIInv` says of the note that its
total is composed of the totals it accumulated (`Somada`), which every item added
preserves, and of the document that the note it was written from was such a note and
that its groups have one ICMSTot, the one of that note (`Unico`). The second part is
a walk through the whole of `NotaFiscal`, group by group (`DaNota`, `UnicoNota`): no group
of an item, of a volume or of a payment is another ICMSTot (`Fora`), in sequences of
sequences of any length (`ForaJuntas`). That the ICMSTot states each total once and as it
is, to the cent, is `DoICMSTot` and `DeDeclarado`; the half cents are `DeCentavos`.

And `TotaisDosItens`, under the same assumptions: 26 totals, each against the groups of
the items that state it, for any number of items with any ICMS modality the serialiser
has (it fails on another) and any codes of IPI, PIS, COFINS and IBS/CBS.

- Of the note: each total is the sum of one attribute over the items (`Acumulada`, kept
  by every item added: `MaisUm`); of the document: it is the one of such a note
  (`DocumentoDaNota`). Together with `ValorIInv` this is the invariant, `TotaisIInv`.
- Of an item: for each total, the elements with its tag in all the groups of that tax
  add up to the amount, rounded, if `Declara` says so, and to nothing otherwise
  (`ItemConfere`). Every content an item may have is read for it: the elements of each
  ICMS modality, with and without their optional blocks (`DizICMS`), and of each other
  tax; that an element is in a group once, and that no other group of the item has one of
  these names, are the facts that carry it (`Diz`, `Unico`, `Vale`).
- Of the document: nothing before or after the items and the totals has those names
  (`NotaItens`, `NotaTotal`); a group of totals is there once or not at all
  (`AusenteOuCerto`).
- The bound, half a cent for each item and one for the total, is `SomatorioProximo`.

The sums are over sequences of any length. `Somatorio` is a recursive function, so
the lemmas on it (`SomatorioColada`, `SomatorioUnico`) take the partial sums of two
sequences and compare them at the least place where they would differ.

`Migracao_proofs` proves, for any number of migrations and sessions and any earlier
schema that the assumptions allow: `MigracaoCompleta`, `MigracaoAtomica`,
`VitimasDoImpasse`, `ErroAntesDaSefaz`. The invariant `MigIInv` says that no two
transactions hold locks that conflict (`Compativeis`) and, of each transaction
(`Ator`): the locks it holds are exactly the ones its program took since its last
commit, and the tables they are of exist; a migration of Postgres either is about to do
what the schema still lacks (`EmDia`) or has before it a first CREATE of a table another
one has created meanwhile, and will fail there (`Atrasada`); one of SQLite only adds
(`Aditiva`). For the deadlocks: of the migrations only one holds locks, and no session
waits for a session, so a deadlock is one migration and sessions that wait for it; and
a session that only reads is not in one, since the migration takes `empresas` first. The one Postgres ends is read off the position its program is at.
`Alcance`, the least closed set that defines a deadlock, enters by its closure only
(`DoAlcance`), with no induction.

Types are checked by TLC in the poller's run and proved for `Poller`, `Sistema`,
`Certificado` and `RateLimit` (whose `TypeOK` also says that a request the minute
refused is not charged to the day).

Only model-checked: liveness (`TodaPendenteDecidida`, `CacheConverge`,
`TodosTerminam`), which this prover does not do under fairness; `GruposConformes`,
which asks of some seventy groups, in every combination of their optional parts, that
each follow its content model or be one of the departures listed (a proof for every
case, not an induction: none has been written); and what
`Sistema` does when those assumptions do not hold, which the violations are about. The
library's induction theorems take an operator as a parameter, which no installed prover
can instantiate; where a proof needs an induction it takes a least counterexample, by
`WFMin`. No module has a
RECURSIVE operator.

## 6. Not modelled, and what is left

- The QR Code, and the serialisers of MDF-e, CT-e, NFS-e and of the events: pure
  transformations like the one of NF-e, each with a layout of its own. MDF-e would be
  the next, with `Leiaute` reused.
- `inutilizar_nota`, the queries of a note, of the register and of the distribution:
  one call each, that writes nothing.
- SOAP, TLS, signature, retries of the transport: external libraries.
- Validation before sending, request schemas and the adapter: stateless checks and
  conversions of the request body.
- The generated bindings of NFS-e (`pynfe/utils/nfse`), about two thirds of the lines
  of the implementation: generated data classes, no behaviour of their own.
- DANFE and bar codes: rendering. `scripts/seed.py`: data for a staging database.
- A note SEFAZ authorised whose emission dies before the INSERT has no row, and
  nothing in the code repairs it: the step is in the models (`PerderResposta`,
  `Cair`), but there is no promise to check. The same holds for a batch answered 105
  at once, and for a cancellation answered 155.

What would come next: a proof of `GruposConformes`, group by group as the one of
`TotaisDosItens`, from a lemma on what `Conforme` says of two sequences put together.
