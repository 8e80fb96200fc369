------------------------------ MODULE RateLimit ------------------------------
(***************************************************************************)
(* The sliding windows of one client (src/api/core/ratelimit.py).  A request *)
(* takes its timestamp, then runs two pipelines in Redis, for the minute and *)
(* for the day; each drops the entries that left the window, adds its own,   *)
(* counts and renews the key's expiry, atomically.  Between the timestamp    *)
(* and a pipeline other requests may run theirs: entries do not come in the  *)
(* order of their timestamps, and a key may expire in between.               *)
(* Clients share nothing (keys have the client's id), so one is enough.      *)
(***************************************************************************)
EXTENDS Naturals, FiniteSets

CONSTANTS
    Pedidos,   \* the requests of the client
    Segundo,   \* the ticks of a second
    Minuto,    \* MINUTE_WINDOW, in ticks
    Dia,       \* DAY_WINDOW, in ticks
    PorMinuto, \* the plan's per_minute
    PorDia,    \* the plan's per_day
    Atraso,    \* bound: ticks from a timestamp to the request's last pipeline
    Fim        \* bound: the last tick

Janelas == {"minuto", "dia"}
Janela == [j \in Janelas |-> IF j = "minuto" THEN Minuto ELSE Dia]
Limite == [j \in Janelas |-> IF j = "minuto" THEN PorMinuto ELSE PorDia]

ASSUME FinitoAssumption == IsFiniteSet(Pedidos)
ASSUME SegundoAssumption == Segundo \in Nat \ {0}
ASSUME JanelaAssumption == Minuto \in Nat \ {0} /\ Dia \in Nat /\ Minuto <= Dia
ASSUME LimiteAssumption == PorMinuto \in Nat \ {0} /\ PorDia \in Nat \ {0}
ASSUME AtrasoAssumption == Atraso \in 0..Minuto
ASSUME FimAssumption    == Fim \in Nat

VARIABLES
    agora,     \* time.time(), the same for every instance and for Redis
    fase,      \* fase[r]: the pipeline request r runs next, or its outcome
    carimbo,   \* carimbo[r]: the timestamp of request r, its score in the ZSETs
    zset,      \* zset[j]: the members of the key of window j
    expira,    \* expira[j]: when that key expires
    contados,  \* history: contados[j]: requests that ran the pipeline of j
    decidido   \* history: decidido[r]: the clock when request r was answered

vars == <<agora, fase, carimbo, zset, expira, contados, decidido>>

-----------------------------------------------------------------------------
(* "novo" not arrived; "minuto", "dia" about to run that pipeline; then      *)
(* allowed, refused (429) by a window, or failed.                            *)
EmCurso == {"minuto", "dia"}
Recusas == {"negadoMinuto", "negadoDia"}
Fase == {"novo", "permitido", "falhou"} \union EmCurso \union Recusas

TypeOK ==
    /\ agora \in 0..Fim
    /\ fase \in [Pedidos -> Fase]
    /\ carimbo \in [Pedidos -> 0..Fim]
    /\ zset \in [Janelas -> SUBSET Pedidos]
    /\ contados \in [Janelas -> SUBSET Pedidos]
    /\ expira \in [Janelas -> 0..Fim + 2 * Dia]
    /\ decidido \in [Pedidos -> 0..Fim]
    /\ \A j \in Janelas : zset[j] \subseteq contados[j]
    /\ \A r \in contados["dia"] : r \in contados["minuto"] /\ fase[r] # "negadoMinuto"

Init ==
    /\ agora = 0
    /\ fase = [r \in Pedidos |-> "novo"]
    /\ carimbo = [r \in Pedidos |-> 0]
    /\ zset = [j \in Janelas |-> {}]
    /\ expira = [j \in Janelas |-> 0]
    /\ contados = [j \in Janelas |-> {}]
    /\ decidido = [r \in Pedidos |-> 0]

-----------------------------------------------------------------------------
(* The request enters check_and_increment and reads the clock.               *)
Chegar(r) ==
    /\ fase[r] = "novo"
    /\ fase' = [fase EXCEPT ![r] = "minuto"]
    /\ carimbo' = [carimbo EXCEPT ![r] = agora]
    /\ UNCHANGED <<agora, zset, expira, contados, decidido>>

(* An expired key is an empty set.                                           *)
Vivos(j) == IF agora < expira[j] THEN zset[j] ELSE {}

(* Mutant of NaJanela: the entry that is exactly one window old stays.       *)
NaJanelaFechada(r, j) == {q \in Vivos(j) : carimbo[q] + Janela[j] >= carimbo[r]}

(* zremrangebyscore(key, 0, now - window) removes the scores up to, and      *)
(* including, now - window.                                                  *)
NaJanela(r, j) == {q \in Vivos(j) : carimbo[q] + Janela[j] > carimbo[r]}

(* zcard, after zadd.                                                        *)
Contagem(r, j) == Cardinality(NaJanela(r, j) \union {r})

(* Mutant of Executar: the key expires after one window instead of two.      *)
ExecutarSemFolga(r, j) ==
    /\ zset' = [zset EXCEPT ![j] = NaJanela(r, j) \union {r}]
    /\ expira' = [expira EXCEPT ![j] = agora + Janela[j]]
    /\ contados' = [contados EXCEPT ![j] = @ \union {r}]

(* The pipeline's writes: the members left, the new one, and the expiry.     *)
Executar(r, j) ==
    /\ zset' = [zset EXCEPT ![j] = NaJanela(r, j) \union {r}]
    /\ expira' = [expira EXCEPT ![j] = agora + 2 * Janela[j]]
    /\ contados' = [contados EXCEPT ![j] = @ \union {r}]

(* The clock is read again for the headers, at the count or later; a later   *)
(* reading only announces a later instant.                                   *)
Responder(r, f) ==
    /\ fase' = [fase EXCEPT ![r] = f]
    /\ decidido' = [decidido EXCEPT ![r] = agora]

(* Mutant of ContarMinuto: refused when the count reaches the limit.         *)
ContarMinutoNoLimite(r) ==
    /\ fase[r] = "minuto"
    /\ Executar(r, "minuto")
    /\ IF Contagem(r, "minuto") >= Limite["minuto"]
       THEN Responder(r, "negadoMinuto")
       ELSE /\ fase' = [fase EXCEPT ![r] = "dia"]
            /\ UNCHANGED decidido
    /\ UNCHANGED <<agora, carimbo>>

(* Over the limit of the minute, the day is not counted.                     *)
ContarMinuto(r) ==
    /\ fase[r] = "minuto"
    /\ Executar(r, "minuto")
    /\ IF Contagem(r, "minuto") > Limite["minuto"]
       THEN Responder(r, "negadoMinuto")
       ELSE /\ fase' = [fase EXCEPT ![r] = "dia"]
            /\ UNCHANGED decidido
    /\ UNCHANGED <<agora, carimbo>>

ContarDia(r) ==
    /\ fase[r] = "dia"
    /\ Executar(r, "dia")
    /\ Responder(r, IF Contagem(r, "dia") > Limite["dia"]
                    THEN "negadoDia" ELSE "permitido")
    /\ UNCHANGED <<agora, carimbo>>

(* Redis does not answer, having run the pipeline or not: the exception      *)
(* leaves the middleware and the request ends with an error.                 *)
Falhar(r) ==
    /\ fase[r] \in EmCurso
    /\ \/ Executar(r, fase[r])
       \/ UNCHANGED <<zset, expira, contados>>
    /\ fase' = [fase EXCEPT ![r] = "falhou"]
    /\ UNCHANGED <<agora, carimbo, decidido>>

(* A tick.  No request takes longer than Atraso to be counted.               *)
Passar ==
    /\ agora < Fim
    /\ \A r \in Pedidos : fase[r] \in EmCurso => agora < carimbo[r] + Atraso
    /\ agora' = agora + 1
    /\ UNCHANGED <<fase, carimbo, zset, expira, contados, decidido>>

Next ==
    \/ \E r \in Pedidos :
          Chegar(r) \/ ContarMinuto(r) \/ ContarDia(r) \/ Falhar(r)
    \/ Passar

Spec == Init /\ [][Next]_vars

-----------------------------------------------------------------------------
Permitidos == {r \in Pedidos : fase[r] = "permitido"}

(* In the window that ends at the latest timestamp counted so far, no more   *)
(* requests were allowed than the plan's limit, in whatever order the        *)
(* pipelines ran, with failures and with keys that expire: an expiry of two  *)
(* windows never forgets an entry a delayed request still has to count.      *)
JanelaRecente ==
    \A j \in Janelas : \A r \in contados[j] :
        (\A q \in contados[j] : carimbo[q] <= carimbo[r]) =>
            Cardinality({q \in Permitidos : carimbo[q] + Janela[j] > carimbo[r]})
                <= Limite[j]

JanelaDaRecusa(r) == IF fase[r] = "negadoMinuto" THEN "minuto" ELSE "dia"

InicioDoSegundo(t) == t - (t % Segundo)

(* Mutant of Reset: the instant is that of the request, not of the answer.   *)
ResetDoCarimbo(r) == InicioDoSegundo(carimbo[r]) + Janela[JanelaDaRecusa(r)]

(* X-RateLimit-Reset of a 429: int(time.time()) + reset_after.  The fraction *)
(* of the second is lost.                                                    *)
Reset(r) == InicioDoSegundo(decidido[r]) + Janela[JanelaDaRecusa(r)]

(* q is refused by the window that refused r, and every other request that   *)
(* had arrived by then came before r was answered.                           *)
RecusadoDeNovo(r, q) ==
    /\ fase[r] \in Recusas
    /\ fase[q] = fase[r]
    /\ \A x \in Pedidos \ {q} : fase[x] = "novo" \/ carimbo[x] <= decidido[r]

(* A client that got a 429 and stayed silent until the last instant of the   *)
(* second after X-RateLimit-Reset, a second being all the header may miss,   *)
(* is not refused by the same window when it comes back, although the        *)
(* refused requests count against it and some were counted late.             *)
EsperaBasta ==
    \A r, q \in Pedidos :
        RecusadoDeNovo(r, q) => carimbo[q] + 1 < Reset(r) + Segundo

(* A request is refused only if the limit was reached by others, counted in  *)
(* that window and not older than it.                                        *)
RecusaJusta ==
    [][\A r \in Pedidos : fase[r] \in EmCurso /\ fase'[r] \in Recusas =>
          LET j == fase[r] IN
          Cardinality({q \in contados[j] : carimbo[q] + Janela[j] > carimbo[r]})
              >= Limite[j]]_vars
=============================================================================
