----------------------------- MODULE Certificado -----------------------------
(***************************************************************************)
(* The certificate of one company                                           *)
(* (src/api/services/certificado_service.py): an upload sends the PFX to    *)
(* the Blob store, writes the PEMs in the company's row and then in the KV  *)
(* cache; obter_pem reads the KV and, on a miss, the row, and refills the   *)
(* KV.  Nothing ties the two writes of either of them together: they        *)
(* interleave freely, and any of them may fail after its first write.       *)
(* Companies share nothing (the KV key has the company's id), so one is     *)
(* enough.  Time is counted in ticks, and both the cached value and the     *)
(* requests in flight carry how long ago they were written or read.         *)
(***************************************************************************)
EXTENDS Naturals

CONSTANTS
    Certs,      \* the PEM pairs that are ever uploaded
    Processos,  \* the concurrent requests: uploads and calls of obter_pem
    Nenhum,     \* no certificate, no cached value
    TTL,        \* PEM_CACHE_TTL
    Atraso      \* bound: ticks between a request's read and its KV write

ASSUME NenhumAssumption == Nenhum \notin Certs
ASSUME TTLAssumption    == TTL \in Nat \ {0}
ASSUME AtrasoAssumption == Atraso \in Nat \ {0}

VARIABLES
    linha,   \* the PEMs in the company's row
    kv,      \* the cached PEMs
    resta,   \* ticks until the cached value expires
    passo,   \* passo[p]: where request p is, and what it has in hand
    idade    \* history: ticks since c was last the PEMs of the row

vars == <<linha, kv, resta, passo, idade>>

-----------------------------------------------------------------------------
(* "blob" uploading the PFX; "empresa" read the row, about to write it;      *)
(* "falta" missed the KV, about to read the row; "cache" about to write the  *)
(* KV.  `lida' is what an upload read from the row, `espera' for how long    *)
(* the request has been going on since it read the row.                      *)
Fase == {"ocioso", "blob", "empresa", "falta", "cache"}

Passo == [fase : Fase, cert : Certs \union {Nenhum},
          lida : Certs \union {Nenhum}, espera : 0..Atraso]

Ocioso == [fase |-> "ocioso", cert |-> Nenhum, lida |-> Nenhum, espera |-> 0]

(* An age that is no longer told apart: older than anything cached may be.   *)
Velha == TTL + Atraso + 1

TypeOK ==
    /\ linha \in Certs \union {Nenhum}
    /\ kv \in Certs \union {Nenhum}
    /\ resta \in 0..TTL
    /\ resta = 0 <=> kv = Nenhum
    /\ passo \in [Processos -> Passo]
    /\ idade \in [Certs -> 0..Velha]
    /\ \A p \in Processos :
          passo[p].fase \in {"blob", "empresa", "cache"} => passo[p].cert \in Certs

Init ==
    /\ linha = Nenhum
    /\ kv = Nenhum
    /\ resta = 0
    /\ passo = [p \in Processos |-> Ocioso]
    /\ idade = [c \in Certs |-> Velha]

-----------------------------------------------------------------------------
Ir(p, s) == passo' = [passo EXCEPT ![p] = s]

(* upload_certificado with a valid PFX and password.                         *)
Enviar(p, c) ==
    /\ passo[p].fase = "ocioso"
    /\ Ir(p, [Ocioso EXCEPT !.fase = "blob", !.cert = c])
    /\ UNCHANGED <<linha, kv, resta, idade>>

(* Mutant of CarregarEmpresa: the cache is filled before the row is written. *)
CarregarEmpresaCacheando(p) ==
    /\ passo[p].fase = "blob"
    /\ Ir(p, [passo[p] EXCEPT !.fase = "empresa", !.lida = linha, !.espera = 0])
    /\ kv' = passo[p].cert
    /\ resta' = TTL
    /\ UNCHANGED <<linha, idade>>

(* The PUT of the PFX succeeds and the company is loaded into the session.   *)
CarregarEmpresa(p) ==
    /\ passo[p].fase = "blob"
    /\ Ir(p, [passo[p] EXCEPT !.fase = "empresa", !.lida = linha, !.espera = 0])
    /\ UNCHANGED <<linha, kv, resta, idade>>

(* The commit.  Its UPDATE has only the columns whose value is not the one   *)
(* loaded: the same PEMs uploaded again leave the row's PEMs alone, whatever *)
(* they have become since.                                                   *)
GravarEmpresa(p) ==
    /\ passo[p].fase = "empresa"
    /\ IF passo[p].cert = passo[p].lida
       THEN UNCHANGED <<linha, idade>>
       ELSE /\ linha' = passo[p].cert
            /\ idade' = [idade EXCEPT ![passo[p].cert] = 0]
    /\ Ir(p, [passo[p] EXCEPT !.fase = "cache"])
    /\ UNCHANGED <<kv, resta>>

(* Mutant of ObterDoCache: a hit starts the time to live again.              *)
ObterDoCacheRenovando(p) ==
    /\ passo[p].fase = "ocioso"
    /\ kv # Nenhum
    /\ resta' = TTL
    /\ UNCHANGED <<linha, kv, passo, idade>>

(* obter_pem with the PEMs cached: they are returned as they are.            *)
ObterDoCache(p) ==
    /\ passo[p].fase = "ocioso"
    /\ kv # Nenhum
    /\ UNCHANGED vars

(* obter_pem without: the row is read next.                                  *)
ObterFalta(p) ==
    /\ passo[p].fase = "ocioso"
    /\ kv = Nenhum
    /\ Ir(p, [Ocioso EXCEPT !.fase = "falta"])
    /\ UNCHANGED <<linha, kv, resta, idade>>

LerEmpresa(p) ==
    /\ passo[p].fase = "falta"
    /\ IF linha = Nenhum
       THEN Ir(p, Ocioso)
       ELSE Ir(p, [Ocioso EXCEPT !.fase = "cache", !.cert = linha])
    /\ UNCHANGED <<linha, kv, resta, idade>>

(* _cache_pem, the last step of an upload and of a call that missed.         *)
CachePem(p) ==
    /\ passo[p].fase = "cache"
    /\ kv' = passo[p].cert
    /\ resta' = TTL
    /\ Ir(p, Ocioso)
    /\ UNCHANGED <<linha, idade>>

(* Whatever the request awaited raised, or its function was killed.          *)
Falhar(p) ==
    /\ passo[p].fase # "ocioso"
    /\ Ir(p, Ocioso)
    /\ UNCHANGED <<linha, kv, resta, idade>>

(* A tick: the KV drops a value that expires.  No request takes longer than  *)
(* Atraso between its read of the row and its write of the KV.               *)
LeuLinha(p) == passo[p].fase \in {"empresa", "cache"}

Passar ==
    /\ \A p \in Processos : LeuLinha(p) => passo[p].espera < Atraso
    /\ passo' = [p \in Processos |->
                    IF LeuLinha(p)
                    THEN [passo[p] EXCEPT !.espera = passo[p].espera + 1]
                    ELSE passo[p]]
    /\ resta' = IF resta = 0 THEN 0 ELSE resta - 1
    /\ kv' = IF resta' = 0 THEN Nenhum ELSE kv
    /\ idade' = [c \in Certs |->
                    IF c = linha \/ idade[c] = Velha THEN idade[c] ELSE idade[c] + 1]
    /\ UNCHANGED linha

Avanco(p) == CarregarEmpresa(p) \/ GravarEmpresa(p) \/ LerEmpresa(p) \/ CachePem(p)

Obter(p) == ObterDoCache(p) \/ ObterFalta(p)

Next ==
    \/ \E p \in Processos : Avanco(p) \/ Obter(p) \/ Falhar(p)
    \/ \E p \in Processos, c \in Certs : Enviar(p, c)
    \/ Passar

Spec == Init /\ [][Next]_vars

(* A request in flight goes on or fails; time passes.                        *)
Justica == WF_vars(Passar) /\ \A p \in Processos : WF_vars(Avanco(p) \/ Falhar(p))

SpecJusta == Spec /\ Justica

-----------------------------------------------------------------------------
(* How long ago the cached PEMs were written, at most a TTL.                 *)
NoCacheHa == TTL - resta

(* What obter_pem finds in the KV was committed to the row, and is at most   *)
(* one TTL plus one request behind it: no interleaving of uploads, refills   *)
(* and failures leaves an older certificate in use, however often it is hit. *)
ObsoletoLimitado == kv # Nenhum => idade[kv] <= NoCacheHa + Atraso

(* Once uploads stop, the cache ends up with the row's PEMs or none, for     *)
(* good: a refill that read the row before the last commit is not renewed by *)
(* the hits on it nor by other refills.                                      *)
SemEnvio == \A p \in Processos : passo[p].fase \notin {"blob", "empresa"}

CacheConverge == <>[]SemEnvio => <>[](kv \in {linha, Nenhum})
=============================================================================
