-------------------------- MODULE Certificado_proofs --------------------------
(***************************************************************************)
(* How stale a certificate can be, for every number of certificates and of  *)
(* concurrent requests, every time to live and every bound on the duration  *)
(* of a request.                                                            *)
(***************************************************************************)
EXTENDS Certificado, TLAPS

USE NenhumAssumption, TTLAssumption, AtrasoAssumption

(* The age of the row's PEMs is zero.                                        *)
LinhaSemIdade == linha # Nenhum => idade[linha] = 0

(* What a request is about to cache, and what an upload read from the row,   *)
(* was in the row when the request read it.                                  *)
EmMaosRecente ==
    \A p \in Processos :
        /\ passo[p].fase = "cache" => idade[passo[p].cert] <= passo[p].espera
        /\ passo[p].fase = "empresa" /\ passo[p].lida # Nenhum =>
              idade[passo[p].lida] <= passo[p].espera

IInv == TypeOK /\ LinhaSemIdade /\ EmMaosRecente /\ ObsoletoLimitado

-----------------------------------------------------------------------------
LEMMA Inicio == Init => IInv
  BY DEF Init, IInv, TypeOK, Passo, Fase, Ocioso, Velha, LinhaSemIdade,
         EmMaosRecente, ObsoletoLimitado

(* A step of one request that writes neither the row nor the cache: all that *)
(* has to be shown is that the request's new state is well typed and recent. *)
LEMMA SoPasso ==
    ASSUME IInv, NEW p \in Processos, NEW s \in Passo, Ir(p, s),
           UNCHANGED <<linha, kv, resta, idade>>,
           s.fase \in {"blob", "empresa", "cache"} => s.cert \in Certs,
           s.fase = "cache" => idade[s.cert] <= s.espera,
           s.fase = "empresa" /\ s.lida # Nenhum => idade[s.lida] <= s.espera
    PROVE  IInv'
<1>1. passo' \in [Processos -> Passo] /\ passo'[p] = s
      /\ \A q \in Processos \ {p} : passo'[q] = passo[q]
  BY DEF IInv, TypeOK, Ir
<1>2. TypeOK'
  BY <1>1 DEF IInv, TypeOK
<1>3. LinhaSemIdade' /\ ObsoletoLimitado'
  BY DEF IInv, LinhaSemIdade, ObsoletoLimitado, NoCacheHa
<1>4. EmMaosRecente'
  BY <1>1 DEF IInv, EmMaosRecente
<1> QED
  BY <1>2, <1>3, <1>4 DEF IInv

(* The commit of an upload.                                                  *)
LEMMA PassoGravarEmpresa ==
    ASSUME IInv, NEW p \in Processos, GravarEmpresa(p)
    PROVE  IInv'
<1> DEFINE c == passo[p].cert
           s == [passo[p] EXCEPT !.fase = "cache"]
<1>1. /\ c \in Certs /\ passo[p] \in Passo /\ s \in Passo
      /\ s.fase = "cache" /\ s.cert = c /\ s.espera = passo[p].espera
      /\ passo[p].espera \in Nat
  BY DEF IInv, TypeOK, GravarEmpresa, Passo, Fase
<1>2. /\ passo' \in [Processos -> Passo] /\ passo'[p] = s
      /\ \A q \in Processos \ {p} : passo'[q] = passo[q]
  BY <1>1 DEF IInv, TypeOK, Ir, GravarEmpresa
<1>3. CASE c = passo[p].lida
  <2>1. c # Nenhum /\ idade[c] <= s.espera
    BY <1>1, <1>3 DEF IInv, EmMaosRecente, GravarEmpresa
  <2> QED
    BY <1>1, <1>3, <2>1, SoPasso DEF GravarEmpresa
<1>4. CASE c # passo[p].lida
  <2>1. linha' = c /\ idade' = [idade EXCEPT ![c] = 0] /\ UNCHANGED <<kv, resta>>
    BY <1>4 DEF GravarEmpresa
  <2>2. /\ idade' \in [Certs -> 0..Velha]
        /\ idade'[c] = 0
        /\ \A d \in Certs : idade'[d] <= idade[d] /\ idade[d] \in Nat /\ idade'[d] \in Nat
    BY <1>1, <2>1 DEF IInv, TypeOK, Velha
  <2>3. TypeOK'
    BY <1>1, <1>2, <2>1, <2>2 DEF IInv, TypeOK
  <2>4. LinhaSemIdade'
    BY <2>1, <2>2 DEF LinhaSemIdade
  <2>5. EmMaosRecente'
    <3> SUFFICES ASSUME NEW q \in Processos
                 PROVE  /\ passo'[q].fase = "cache" =>
                              idade'[passo'[q].cert] <= passo'[q].espera
                        /\ passo'[q].fase = "empresa" /\ passo'[q].lida # Nenhum =>
                              idade'[passo'[q].lida] <= passo'[q].espera
      BY DEF EmMaosRecente
    <3>1. CASE q = p
      <4>1. /\ passo'[q].fase = "cache" /\ passo'[q].cert = c
            /\ passo'[q].espera \in Nat
        BY <1>1, <1>2, <3>1
      <4> QED
        BY <2>2, <4>1
    <3>2. CASE q # p
      <4>1. passo'[q] = passo[q] /\ passo[q] \in Passo /\ passo[q].espera \in Nat
        BY <1>2, <3>2 DEF IInv, TypeOK, Passo
      <4>2. passo[q].fase = "cache" => passo[q].cert \in Certs
        BY DEF IInv, TypeOK
      <4>3. passo[q].lida # Nenhum => passo[q].lida \in Certs
        BY <4>1 DEF Passo
      <4> QED
        BY <2>2, <4>1, <4>2, <4>3 DEF IInv, EmMaosRecente
    <3> QED
      BY <3>1, <3>2
  <2>6. ObsoletoLimitado'
    BY <2>1, <2>2 DEF IInv, TypeOK, ObsoletoLimitado, NoCacheHa
  <2> QED
    BY <2>3, <2>4, <2>5, <2>6 DEF IInv
<1> QED
  BY <1>3, <1>4

(* The write of the KV.                                                      *)
LEMMA PassoCachePem ==
    ASSUME IInv, NEW p \in Processos, CachePem(p)
    PROVE  IInv'
<1>1. /\ passo[p] \in Passo /\ passo[p].cert \in Certs
      /\ passo[p].espera \in 0..Atraso /\ idade[passo[p].cert] <= passo[p].espera
      /\ idade[passo[p].cert] \in Nat
  BY DEF IInv, TypeOK, EmMaosRecente, CachePem, Passo, Velha
<1>2. /\ passo' \in [Processos -> Passo] /\ passo'[p] = Ocioso
      /\ \A q \in Processos \ {p} : passo'[q] = passo[q]
  BY DEF IInv, TypeOK, Ir, CachePem, Ocioso, Passo, Fase
<1>3. TypeOK'
  BY <1>1, <1>2 DEF IInv, TypeOK, CachePem, Ocioso
<1>4. LinhaSemIdade'
  BY DEF IInv, LinhaSemIdade, CachePem
<1>5. EmMaosRecente'
  BY <1>2 DEF IInv, EmMaosRecente, CachePem, Ocioso
<1>6. ObsoletoLimitado'
  BY <1>1 DEF CachePem, ObsoletoLimitado, NoCacheHa
<1> QED
  BY <1>3, <1>4, <1>5, <1>6 DEF IInv

(* A tick: every age grows by at most one, and so does every wait and the    *)
(* age of the cached value.                                                  *)
LEMMA PassoPassar ==
    ASSUME IInv, Passar
    PROVE  IInv'
<1>1. /\ idade' \in [Certs -> 0..Velha]
      /\ \A c \in Certs : /\ idade[c] \in 0..Velha
                          /\ idade'[c] \in Nat
                          /\ idade'[c] <= idade[c] + 1
                          /\ c = linha => idade'[c] = idade[c]
  BY DEF IInv, TypeOK, Passar, Velha
<1>2. /\ passo' \in [Processos -> Passo]
      /\ \A q \in Processos :
            /\ passo[q].espera \in 0..Atraso
            /\ passo'[q].fase = passo[q].fase
            /\ passo'[q].cert = passo[q].cert
            /\ passo'[q].lida = passo[q].lida
            /\ LeuLinha(q) => passo'[q].espera = passo[q].espera + 1
            /\ passo[q].lida \in Certs \union {Nenhum}
  <2> SUFFICES ASSUME NEW q \in Processos
               PROVE  /\ passo'[q] \in Passo
                      /\ passo[q].espera \in 0..Atraso
                      /\ passo'[q].fase = passo[q].fase
                      /\ passo'[q].cert = passo[q].cert
                      /\ passo'[q].lida = passo[q].lida
                      /\ LeuLinha(q) => passo'[q].espera = passo[q].espera + 1
                      /\ passo[q].lida \in Certs \union {Nenhum}
    BY DEF Passar
  <2>1. passo[q] \in Passo
    BY DEF IInv, TypeOK
  <2>2. CASE LeuLinha(q)
    <3>1. passo'[q] = [passo[q] EXCEPT !.espera = passo[q].espera + 1]
          /\ passo[q].espera < Atraso
      BY <2>2 DEF Passar
    <3> QED
      BY <2>1, <2>2, <3>1 DEF Passo
  <2>3. CASE ~LeuLinha(q)
    BY <2>1, <2>3 DEF Passar, Passo
  <2> QED
    BY <2>2, <2>3
<1>3. TypeOK'
  <2>1. /\ kv' \in Certs \union {Nenhum} /\ resta' \in 0..TTL
        /\ (resta' = 0 <=> kv' = Nenhum)
        /\ linha' \in Certs \union {Nenhum}
    BY DEF IInv, TypeOK, Passar
  <2>2. \A q \in Processos : passo'[q].fase \in {"blob", "empresa", "cache"} =>
                                passo'[q].cert \in Certs
    BY <1>2 DEF IInv, TypeOK
  <2> QED
    BY <1>1, <1>2, <2>1, <2>2 DEF TypeOK
<1>4. LinhaSemIdade'
  BY <1>1 DEF IInv, TypeOK, LinhaSemIdade, Passar
<1>5. EmMaosRecente'
  <2> SUFFICES ASSUME NEW q \in Processos
               PROVE  /\ passo'[q].fase = "cache" =>
                            idade'[passo'[q].cert] <= passo'[q].espera
                      /\ passo'[q].fase = "empresa" /\ passo'[q].lida # Nenhum =>
                            idade'[passo'[q].lida] <= passo'[q].espera
    BY DEF EmMaosRecente
  <2>1. passo[q].fase = "cache" => passo[q].cert \in Certs
    BY DEF IInv, TypeOK
  <2> QED
    BY <1>1, <1>2, <2>1 DEF IInv, EmMaosRecente, LeuLinha, Velha
<1>6. ObsoletoLimitado'
  BY <1>1 DEF IInv, TypeOK, Passar, ObsoletoLimitado, NoCacheHa, Velha
<1> QED
  BY <1>3, <1>4, <1>5, <1>6 DEF IInv

(* Every step preserves the invariant.                                       *)
LEMMA Indutivo == IInv /\ [Next]_vars => IInv'
<1> SUFFICES ASSUME IInv, [Next]_vars PROVE IInv'
  OBVIOUS
<1>1. ASSUME NEW p \in Processos, NEW c \in Certs, Enviar(p, c)
      PROVE  IInv'
  <2> DEFINE s == [Ocioso EXCEPT !.fase = "blob", !.cert = c]
  <2>0. 0 \in 0..Atraso
    OBVIOUS
  <2>1. s \in Passo /\ s.fase = "blob" /\ s.cert = c
    BY <2>0 DEF Ocioso, Passo, Fase
  <2> QED
    BY <1>1, <2>1, SoPasso DEF Enviar
<1>2. ASSUME NEW p \in Processos, CarregarEmpresa(p)
      PROVE  IInv'
  <2> DEFINE s == [passo[p] EXCEPT !.fase = "empresa", !.lida = linha, !.espera = 0]
  <2>0. /\ passo[p] \in Passo /\ passo[p].cert \in Certs
        /\ linha \in Certs \union {Nenhum} /\ 0 \in 0..Atraso
    BY <1>2 DEF IInv, TypeOK, CarregarEmpresa
  <2>1. /\ s \in Passo /\ s.fase = "empresa" /\ s.lida = linha /\ s.espera = 0
        /\ s.cert \in Certs
    BY <2>0 DEF Passo, Fase
  <2>2. s.lida # Nenhum => idade[s.lida] <= s.espera
    BY <2>1 DEF IInv, LinhaSemIdade
  <2> QED
    BY <1>2, <2>1, <2>2, SoPasso DEF CarregarEmpresa
<1>3. ASSUME NEW p \in Processos, LerEmpresa(p)
      PROVE  IInv'
  <2>0. Ocioso \in Passo /\ Ocioso.fase = "ocioso"
    BY DEF Ocioso, Passo, Fase
  <2>1. CASE linha = Nenhum
    BY <1>3, <2>0, <2>1, SoPasso DEF LerEmpresa
  <2>2. CASE linha # Nenhum
    <3> DEFINE s == [Ocioso EXCEPT !.fase = "cache", !.cert = linha]
    <3>0. linha \in Certs /\ 0 \in 0..Atraso
      BY <2>2 DEF IInv, TypeOK
    <3>1. s \in Passo /\ s.fase = "cache" /\ s.cert = linha /\ s.espera = 0
      BY <3>0 DEF Ocioso, Passo, Fase
    <3>2. idade[s.cert] <= s.espera
      BY <2>2, <3>1 DEF IInv, LinhaSemIdade
    <3> QED
      BY <1>3, <2>2, <3>0, <3>1, <3>2, SoPasso DEF LerEmpresa
  <2> QED
    BY <2>1, <2>2
<1>4. ASSUME NEW p \in Processos, Obter(p)
      PROVE  IInv'
  <2>1. CASE ObterDoCache(p)
    BY <2>1 DEF ObterDoCache, vars, IInv, TypeOK, LinhaSemIdade, EmMaosRecente,
                ObsoletoLimitado, NoCacheHa
  <2>2. CASE ObterFalta(p)
    <3> DEFINE s == [Ocioso EXCEPT !.fase = "falta"]
    <3>1. s \in Passo /\ s.fase = "falta"
      BY DEF Ocioso, Passo, Fase
    <3> QED
      BY <2>2, <3>1, SoPasso DEF ObterFalta
  <2> QED
    BY <1>4, <2>1, <2>2 DEF Obter
<1>5. ASSUME NEW p \in Processos, Falhar(p)
      PROVE  IInv'
  <2>1. Ocioso \in Passo /\ Ocioso.fase = "ocioso"
    BY DEF Ocioso, Passo, Fase
  <2> QED
    BY <1>5, <2>1, SoPasso DEF Falhar
<1>6. CASE UNCHANGED vars
  BY <1>6 DEF vars, IInv, TypeOK, LinhaSemIdade, EmMaosRecente, ObsoletoLimitado,
              NoCacheHa
<1> QED
  BY <1>1, <1>2, <1>3, <1>4, <1>5, <1>6, PassoGravarEmpresa, PassoCachePem,
     PassoPassar DEF Next, Avanco

THEOREM Invariante == Spec => []IInv
  BY Inicio, Indutivo, PTL DEF Spec

(* The variables of the certificate layers have the shapes their code gives  *)
(* them; in particular a cached value always has an expiry.                  *)
THEOREM CertificadoTipo == Spec => []TypeOK
<1>1. IInv => TypeOK
  BY DEF IInv
<1> QED
  BY <1>1, Invariante, PTL

(* What obter_pem finds in the KV was committed to the row, and left it at   *)
(* most a time to live plus one request ago.                                 *)
THEOREM CertificadoRecente == Spec => []ObsoletoLimitado
<1>1. IInv => ObsoletoLimitado
  BY DEF IInv
<1> QED
  BY <1>1, Invariante, PTL
=============================================================================
