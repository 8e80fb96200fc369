------------------------------ MODULE Consultas ------------------------------
(***************************************************************************)
(* The queries answered from the SEFAZ through the KV: GTINs                *)
(* (services/gtin_service.py), one or up to fifty at once, and the status   *)
(* of the authorities (services/sefaz_service.py), one or all.  Each key of *)
(* a query is looked up, asked and cached by a coroutine of its own; the    *)
(* first that fails answers the request, and the others go on.  A GTIN not  *)
(* found, or an answer that cannot be read, is cached like any other.       *)
(* Time is counted in ticks: an answer carries how old it is.               *)
(***************************************************************************)
EXTENDS Cadastro, Functions

CONSTANTS
    Gtins,   \* the GTINs asked for
    Ufs,     \* the authorities
    Prazo,   \* the time to live of a key: GTIN_CACHE_TTL, SEFAZ_CACHE_TTL
    Atraso   \* bound: the ticks a request takes

Chaves == Gtins \union Ufs

ASSUME PrazoAssumption == Prazo \in [Chaves -> Nat \ {0}]
ASSUME AtrasoAssumption == Atraso \in Nat

VARIABLE kv  \* kv[k]: how old the cached answer is, and the ticks it has left

Vazio == [idade |-> 0, resta |-> 0]

Item(fase, idade, doKv) == [fase |-> fase, idade |-> idade, doKv |-> doKv]

-----------------------------------------------------------------------------
(* The routes consultar, consultar/lote, status/{uf} and status.             *)
Consultar(p, t, chaves, lote) ==
    /\ Autentica(p, t)
    /\ Cardinality(Feitos) < MaxComConsulta
    /\ \/ chaves \subseteq Gtins
       \/ chaves \subseteq Ufs /\ (lote => chaves = Ufs)
    /\ lote \/ Cardinality(chaves) = 1
    /\ Fica(p, [op |-> "consulta", fase |-> "consultando", lote |-> lote,
                itens |-> [k \in chaves |-> Item("inicio", 0, FALSE)],
                registrados |-> {}, duracao |-> 0])
    /\ UNCHANGED <<cadVars, kv>>

ItemEm(p, k, fase) ==
    req[p].op = "consulta" /\ k \in DOMAIN req[p].itens /\ req[p].itens[k].fase = fase

(* The coroutines that have not ended.                                       *)
Correndo(itens) ==
    {k \in DOMAIN itens : itens[k].fase \in {"inicio", "falta", "obtido"}}

(* A request that failed keeps only the coroutines that go on after it.      *)
Falha(r, itens) ==
    [op |-> "consulta", fase |-> "500", itens |-> Restrict(itens, Correndo(itens)),
     duracao |-> IF Correndo(itens) = {} THEN 0 ELSE r.duracao]

PoeItem(p, k, item) ==
    LET itens == [req[p].itens EXCEPT ![k] = item] IN
    Fica(p, IF req[p].fase = "consultando" THEN [req[p] EXCEPT !.itens = itens]
            ELSE Falha(req[p], itens))

(* Mutant of LerKv: a hit sets the time to live again.                       *)
LerKvRenovando(p, k) ==
    /\ ItemEm(p, k, "inicio")
    /\ IF kv[k].resta > 0
       THEN /\ PoeItem(p, k, Item("pronto", kv[k].idade, TRUE))
            /\ kv' = [kv EXCEPT ![k].resta = Prazo[k]]
       ELSE PoeItem(p, k, Item("falta", 0, FALSE)) /\ kv' = kv
    /\ UNCHANGED cadVars

(* The GET of the KV.                                                        *)
LerKv(p, k) ==
    /\ ItemEm(p, k, "inicio")
    /\ PoeItem(p, k, IF kv[k].resta > 0 THEN Item("pronto", kv[k].idade, TRUE)
                     ELSE Item("falta", 0, FALSE))
    /\ UNCHANGED <<cadVars, kv>>

(* The SEFAZ answers, found or not.                                          *)
SefazResponde(p, k) ==
    /\ ItemEm(p, k, "falta")
    /\ PoeItem(p, k, Item("obtido", 0, FALSE))
    /\ UNCHANGED <<cadVars, kv>>

(* The SET of the KV.                                                        *)
GravarKv(p, k) ==
    /\ ItemEm(p, k, "obtido")
    /\ PoeItem(p, k, [req[p].itens[k] EXCEPT !.fase = "pronto"])
    /\ kv' = [kv EXCEPT ![k] = [idade |-> req[p].itens[k].idade, resta |-> Prazo[k]]]
    /\ UNCHANGED cadVars

(* What a coroutine awaited raised: the request is answered, and the other   *)
(* coroutines of a gather are not cancelled.                                 *)
FalharItem(p, k) ==
    /\ req[p].op = "consulta"
    /\ k \in Correndo(req[p].itens)
    /\ Fica(p, Falha(req[p], [req[p].itens EXCEPT ![k].fase = "falhou"]))
    /\ UNCHANGED <<cadVars, kv>>

Prontos(p) == \A k \in DOMAIN req[p].itens : req[p].itens[k].fase = "pronto"

(* The keys whose query is registered: the GTINs of a batch, and a GTIN that *)
(* was not cached.                                                           *)
ARegistrar(p) ==
    {k \in DOMAIN req[p].itens \intersect Gtins : req[p].lote \/ ~req[p].itens[k].doKv}

(* _registrar_consulta, a commit for each key.                               *)
Registrar(p, k) ==
    /\ Em(p, "consulta", "consultando")
    /\ Prontos(p)
    /\ k \in ARegistrar(p) \ req[p].registrados
    /\ req' = [req EXCEPT ![p].registrados = @ \union {k}]
    /\ UNCHANGED <<cadVars, kv>>

ResponderConsulta(p) ==
    /\ Em(p, "consulta", "consultando")
    /\ Prontos(p)
    /\ ARegistrar(p) = req[p].registrados
    /\ Fica(p, [op |-> "consulta", fase |-> "200", itens |-> req[p].itens])
    /\ UNCHANGED <<cadVars, kv>>

(* A commit of the register fails.                                           *)
FalharRegistro(p) ==
    /\ Em(p, "consulta", "consultando")
    /\ Prontos(p)
    /\ Fica(p, Falha(req[p], req[p].itens))
    /\ UNCHANGED <<cadVars, kv>>

(* The KV evicts a key; without KV_URL it never has one (NoopRedis).         *)
KvPerde(k) ==
    /\ kv[k].resta > 0
    /\ kv' = [kv EXCEPT ![k] = Vazio]
    /\ UNCHANGED <<cadVars, req>>

(* The query's coroutines still going on.                                    *)
Andando(p) ==
    /\ req[p].op = "consulta"
    /\ req[p].fase = "consultando" \/ Correndo(req[p].itens) # {}

(* A tick: the answers at hand and the cached ones age, the latter expire.   *)
PassarTempo ==
    /\ \A p \in Pedidos : Andando(p) => req[p].duracao < Atraso
    /\ LET mais(item) == IF item.fase \in {"obtido", "pronto"}
                         THEN [item EXCEPT !.idade = @ + 1] ELSE item
       IN  req' = [p \in Pedidos |->
                     IF Andando(p)
                     THEN [req[p] EXCEPT !.duracao = @ + 1,
                             !.itens = [k \in DOMAIN @ |-> mais(@[k])]]
                     ELSE req[p]]
    /\ kv' = [k \in Chaves |->
                IF kv[k].resta <= 1 THEN Vazio
                ELSE [idade |-> kv[k].idade + 1, resta |-> kv[k].resta - 1]]
    /\ UNCHANGED cadVars

ConInit == kv = [k \in Chaves |-> Vazio]

ConNext(p) ==
    \/ \E t \in Pedidos, lote \in BOOLEAN, chaves \in (SUBSET Gtins \union SUBSET Ufs) \ {{}} :
          Consultar(p, t, chaves, lote)
    \/ \E k \in Chaves : LerKv(p, k) \/ SefazResponde(p, k) \/ GravarKv(p, k)
                            \/ FalharItem(p, k) \/ Registrar(p, k)
    \/ ResponderConsulta(p)
    \/ FalharRegistro(p)

-----------------------------------------------------------------------------
(* No query is answered with what the SEFAZ said longer ago than the time to *)
(* live of its key and the two requests it came by, the one that cached it   *)
(* and the one that found it (consultar_individual, GTIN_CACHE_TTL): neither *)
(* the queries that hit a key nor a slow one that caches what it got before  *)
(* make an answer last longer.  It does not tell the answers apart: that a   *)
(* fault of the SEFAZ is kept as long as a GTIN found is nothing it refuses. *)
RespostaRecente ==
    /\ \A p \in Pedidos :
          Em(p, "consulta", "200") =>
            \A k \in DOMAIN req[p].itens :
               req[p].itens[k].idade <= Prazo[k] + 2 * Atraso
    /\ \A k \in Chaves :
          kv[k].resta > 0 => kv[k].idade + kv[k].resta <= Prazo[k] + Atraso
=============================================================================
