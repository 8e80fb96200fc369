--------------------------- MODULE RateLimit_proofs ---------------------------
(***************************************************************************)
(* The limits of the sliding windows, for every number of requests, every    *)
(* limit, every pair of windows and every delay up to the shorter window.    *)
(***************************************************************************)
EXTENDS RateLimit, FiniteSetTheorems, TLAPS

(* What a request's state says of the pipelines it ran.                      *)
FaseContada ==
    \A r \in Pedidos :
        /\ fase[r] \in {"novo", "minuto"} => r \notin contados["minuto"]
        /\ fase[r] \in {"novo", "minuto", "dia", "negadoMinuto"} =>
              r \notin contados["dia"]
        /\ fase[r] \in {"dia", "permitido", "negadoDia", "negadoMinuto"} =>
              r \in contados["minuto"]
        /\ fase[r] \in {"permitido", "negadoDia"} => r \in contados["dia"]

(* Timestamps are past, and a request in flight has a recent one.            *)
Relogio ==
    \A r \in Pedidos :
        /\ fase[r] # "novo" => carimbo[r] <= agora
        /\ fase[r] \in EmCurso => agora <= carimbo[r] + Atraso

(* A key outlives each of its entries by two windows at least.               *)
Folga ==
    \A j \in Janelas :
        /\ expira[j] <= agora + 2 * Janela[j]
        /\ \A q \in contados[j] : carimbo[q] + 2 * Janela[j] <= expira[j]

(* What was forgotten is out of the window of some request already counted.  *)
Completo ==
    \A j \in Janelas : \A q \in contados[j] \ zset[j] :
        \E m \in contados[j] : carimbo[q] + Janela[j] <= carimbo[m]

(* The requests that a window let pass.                                      *)
Passaram(j) ==
    {q \in Pedidos : fase[q] \in IF j = "minuto"
                                 THEN {"dia", "permitido", "negadoDia"}
                                 ELSE {"permitido"}}

Ultimo(t, j) == \A q \in contados[j] : carimbo[q] <= t

Recentes(t, j) == {q \in Passaram(j) : carimbo[q] + Janela[j] > t}

(* JanelaRecente at any time not before the latest timestamp, and for what   *)
(* each window let pass and not only for what both did: a request the minute *)
(* let pass may become an allowed one at any moment.                         *)
PassaramRecente ==
    \A j \in Janelas, t \in Nat :
        Ultimo(t, j) => Cardinality(Recentes(t, j)) <= Limite[j]

(* A refused request found another one in its window.                        *)
RecusaComOutro ==
    \A q \in Pedidos : fase[q] \in Recusas =>
        \E x \in Pedidos \ {q} :
            /\ fase[x] # "novo"
            /\ carimbo[x] + Janela[JanelaDaRecusa(q)] > carimbo[q]

IInv == TypeOK /\ FaseContada /\ Relogio /\ Folga /\ Completo /\ PassaramRecente
        /\ RecusaComOutro

-----------------------------------------------------------------------------
LEMMA Constantes ==
    /\ Janelas = {"minuto", "dia"}
    /\ Janela["minuto"] = Minuto /\ Janela["dia"] = Dia
    /\ Limite["minuto"] = PorMinuto /\ Limite["dia"] = PorDia
    /\ \A j \in Janelas : /\ Janela[j] \in Nat \ {0}
                          /\ Limite[j] \in Nat \ {0}
                          /\ Atraso \in Nat
                          /\ Atraso <= Janela[j]
                          /\ Janela[j] <= Dia
  BY JanelaAssumption, LimiteAssumption, AtrasoAssumption DEF Janelas, Janela, Limite

(* A subset of the requests is finite, and smaller than what contains it.    *)
LEMMA Menor ==
    ASSUME NEW B \in SUBSET Pedidos, NEW A \in SUBSET B
    PROVE  /\ Cardinality(A) \in Nat
           /\ Cardinality(B) \in Nat
           /\ Cardinality(A) <= Cardinality(B)
<1>1. IsFiniteSet(B)
  BY FinitoAssumption, FS_Subset
<1>2. IsFiniteSet(A) /\ Cardinality(A) <= Cardinality(B)
  BY <1>1, FS_Subset
<1> QED
  BY <1>1, <1>2, FS_CardinalityType

LEMMA Inicio == Init => IInv
<1> SUFFICES ASSUME Init PROVE IInv
  OBVIOUS
<1>1. TypeOK
  BY Constantes, FimAssumption, JanelaAssumption DEF Init, TypeOK, Fase
<1>2. FaseContada /\ Relogio /\ Completo /\ RecusaComOutro
  BY Constantes DEF Init, FaseContada, Relogio, EmCurso, Completo, RecusaComOutro,
                    Recusas
<1>4. PassaramRecente
  <2>1. \A j \in Janelas, t \in Nat : Recentes(t, j) = {}
    BY DEF Init, Recentes, Passaram
  <2> QED
    BY <2>1, Constantes, FS_EmptySet DEF PassaramRecente
<1>3. Folga
  BY Constantes DEF Init, Folga
<1> QED
  BY <1>1, <1>2, <1>3, <1>4 DEF IInv

-----------------------------------------------------------------------------
(* A pipeline of request r in window j, which it had not run: the types, the *)
(* expiry and what the key has forgotten.                                    *)
LEMMA AposExecutar ==
    ASSUME IInv, NEW r \in Pedidos, NEW j \in Janelas, fase[r] = j,
           Executar(r, j), UNCHANGED <<agora, carimbo>>
    PROVE  /\ zset' \in [Janelas -> SUBSET Pedidos]
           /\ contados' \in [Janelas -> SUBSET Pedidos]
           /\ expira' \in [Janelas -> 0..Fim + 2 * Dia]
           /\ contados'[j] = contados[j] \union {r}
           /\ zset'[j] = NaJanela(r, j) \union {r}
           /\ NaJanela(r, j) \subseteq contados[j]
           /\ \A k \in Janelas \ {j} : contados'[k] = contados[k]
           /\ \A k \in Janelas : zset'[k] \subseteq contados'[k]
           /\ Folga'
           /\ Completo'
<1>1. /\ agora \in 0..Fim /\ carimbo \in [Pedidos -> 0..Fim] /\ Fim \in Nat
      /\ Dia \in Nat /\ expira \in [Janelas -> 0..Fim + 2 * Dia]
      /\ zset \in [Janelas -> SUBSET Pedidos]
      /\ contados \in [Janelas -> SUBSET Pedidos]
      /\ \A k \in Janelas : zset[k] \subseteq contados[k]
  BY FimAssumption, JanelaAssumption DEF IInv, TypeOK
<1>2. carimbo[r] <= agora /\ agora <= carimbo[r] + Atraso
  BY Constantes DEF IInv, Relogio, EmCurso
<1>3. /\ Vivos(j) \subseteq zset[j] /\ NaJanela(r, j) \subseteq zset[j]
      /\ zset[j] \subseteq contados[j]
  BY <1>1 DEF NaJanela, Vivos
<1>4. /\ zset' = [zset EXCEPT ![j] = NaJanela(r, j) \union {r}]
      /\ expira' = [expira EXCEPT ![j] = agora + 2 * Janela[j]]
      /\ contados' = [contados EXCEPT ![j] = contados[j] \union {r}]
  BY DEF Executar
<1>5. /\ zset'[j] = NaJanela(r, j) \union {r}
      /\ contados'[j] = contados[j] \union {r}
      /\ expira'[j] = agora + 2 * Janela[j]
      /\ \A k \in Janelas \ {j} : /\ zset'[k] = zset[k]
                                  /\ contados'[k] = contados[k]
                                  /\ expira'[k] = expira[k]
  BY <1>1, <1>4
<1>6. /\ zset' \in [Janelas -> SUBSET Pedidos]
      /\ contados' \in [Janelas -> SUBSET Pedidos]
      /\ \A k \in Janelas : zset'[k] \subseteq contados'[k]
  BY <1>1, <1>3, <1>4, <1>5
<1>7. expira' \in [Janelas -> 0..Fim + 2 * Dia]
  <2>1. agora + 2 * Janela[j] \in 0..Fim + 2 * Dia
    BY <1>1, Constantes
  <2> QED
    BY <1>1, <1>4, <2>1
<1>8. Folga'
  <2> SUFFICES ASSUME NEW k \in Janelas
               PROVE  /\ expira'[k] <= agora + 2 * Janela[k]
                      /\ \A q \in contados'[k] :
                            carimbo[q] + 2 * Janela[k] <= expira'[k]
    BY DEF Folga
  <2>1. CASE k # j
    BY <1>5, <2>1 DEF IInv, Folga
  <2>2. CASE k = j
    <3>1. \A q \in contados[j] : q \in Pedidos
      BY <1>1
    <3>2. \A q \in contados[j] : carimbo[q] + 2 * Janela[j] <= agora + 2 * Janela[j]
      <4> SUFFICES ASSUME NEW q \in contados[j]
                   PROVE  carimbo[q] + 2 * Janela[j] <= agora + 2 * Janela[j]
        OBVIOUS
      <4>1. q \in Pedidos /\ carimbo[q] + 2 * Janela[j] <= expira[j]
            /\ expira[j] <= agora + 2 * Janela[j]
        BY <3>1 DEF IInv, Folga
      <4> QED
        BY <1>1, <4>1, Constantes
    <3> QED
      BY <1>1, <1>2, <1>5, <2>2, <3>2, Constantes
  <2> QED
    BY <2>1, <2>2
<1>9. Completo'
  <2> SUFFICES ASSUME NEW k \in Janelas, NEW q \in contados'[k], q \notin zset'[k]
               PROVE  \E m \in contados'[k] : carimbo[q] + Janela[k] <= carimbo[m]
    BY DEF Completo
  <2>1. CASE k # j
    BY <1>5, <2>1 DEF IInv, Completo
  <2>2. CASE k = j /\ q \notin zset[j]
    <3>1. q \in contados[j] \ zset[j]
      BY <1>5, <2>2
    <3>2. PICK m \in contados[j] : carimbo[q] + Janela[j] <= carimbo[m]
      BY <3>1 DEF IInv, Completo
    <3> QED
      BY <1>5, <2>2, <3>2
  <2>3. CASE k = j /\ q \in zset[j]
    <3>1. q \in contados[j] /\ q \in Pedidos
      BY <1>1, <2>3
    <3>2. carimbo[q] + Janela[j] <= carimbo[r]
      <4>1. CASE agora < expira[j]
        <5>1. q \in Vivos(j) /\ q \notin NaJanela(r, j)
          BY <1>5, <2>3, <4>1 DEF Vivos
        <5>2. ~(carimbo[q] + Janela[j] > carimbo[r])
          BY <5>1 DEF NaJanela
        <5> QED
          BY <1>1, <3>1, <5>2, Constantes
      <4>2. CASE ~(agora < expira[j])
        <5>1. carimbo[q] + 2 * Janela[j] <= expira[j]
          BY <3>1 DEF IInv, Folga
        <5>2. /\ carimbo[q] \in Nat /\ carimbo[r] \in Nat /\ agora \in Nat
              /\ Janela[j] \in Nat /\ expira[j] \in Nat
              /\ Atraso \in Nat /\ Atraso <= Janela[j]
          <6>1. carimbo[q] \in Nat /\ carimbo[r] \in Nat /\ agora \in Nat
            BY <1>1, <3>1
          <6>2. Janela[j] \in Nat /\ Atraso \in Nat /\ Atraso <= Janela[j]
            BY Constantes
          <6>3. expira[j] \in 0..Fim + 2 * Dia
            BY <1>1
          <6> QED
            BY <1>1, <6>1, <6>2, <6>3
        <5>3. expira[j] <= agora
          BY <4>2, <5>2
        <5> QED
          BY <1>2, <5>1, <5>2, <5>3
      <4> QED
        BY <4>1, <4>2
    <3> QED
      BY <1>5, <2>3, <3>2
  <2> QED
    BY <2>1, <2>2, <2>3
<1> QED
  BY <1>3, <1>5, <1>6, <1>7, <1>8, <1>9

(* A window whose passed requests do not grow keeps its limit.               *)
LEMMA NinguemPassou ==
    ASSUME IInv, NEW j \in Janelas, Passaram(j)' \subseteq Passaram(j),
           contados[j] \subseteq contados'[j],
           \A q \in Pedidos : fase[q] # "novo" => carimbo'[q] = carimbo[q]
    PROVE  \A t \in Nat : Ultimo(t, j)' => Cardinality(Recentes(t, j)') <= Limite[j]
<1> SUFFICES ASSUME NEW t \in Nat, Ultimo(t, j)'
             PROVE  Cardinality(Recentes(t, j)') <= Limite[j]
  OBVIOUS
<1>1. \A q \in contados[j] : q \in Pedidos /\ fase[q] # "novo"
  BY Constantes DEF IInv, TypeOK, FaseContada
<1>2. Ultimo(t, j)
  BY <1>1 DEF Ultimo
<1>3. \A q \in Passaram(j) : q \in Pedidos /\ fase[q] # "novo"
  BY DEF Passaram
<1>4. Recentes(t, j)' \subseteq Recentes(t, j)
  BY <1>3 DEF Recentes
<1>5. Recentes(t, j) \subseteq Pedidos
  BY <1>3 DEF Recentes
<1>6. Cardinality(Recentes(t, j)) <= Limite[j]
  BY <1>2 DEF IInv, PassaramRecente
<1>7. /\ Cardinality(Recentes(t, j)') <= Cardinality(Recentes(t, j))
      /\ Cardinality(Recentes(t, j)') \in Nat
      /\ Cardinality(Recentes(t, j)) \in Nat
  BY <1>4, <1>5, Menor
<1> QED
  BY <1>6, <1>7, Constantes

(* A window that lets a request pass has all the recent ones in its key, and *)
(* counted them.                                                             *)
LEMMA AlguemPassou ==
    ASSUME NEW j \in Janelas, Completo', carimbo' \in [Pedidos -> Nat],
           zset'[j] \subseteq Pedidos, contados'[j] \subseteq Pedidos,
           Passaram(j)' \subseteq contados'[j],
           Cardinality(zset'[j]) <= Limite[j]
    PROVE  \A t \in Nat : Ultimo(t, j)' => Cardinality(Recentes(t, j)') <= Limite[j]
<1> SUFFICES ASSUME NEW t \in Nat, Ultimo(t, j)'
             PROVE  Cardinality(Recentes(t, j)') <= Limite[j]
  OBVIOUS
<1>1. Recentes(t, j)' \subseteq zset'[j]
  <2> SUFFICES ASSUME NEW q \in Recentes(t, j)', q \notin zset'[j] PROVE FALSE
    OBVIOUS
  <2>1. q \in contados'[j] /\ q \in Pedidos /\ carimbo'[q] + Janela[j] > t
    BY DEF Recentes
  <2>2. PICK m \in contados'[j] : carimbo'[q] + Janela[j] <= carimbo'[m]
    BY <2>1 DEF Completo
  <2>3. carimbo'[m] <= t /\ m \in Pedidos
    BY DEF Ultimo
  <2> QED
    BY <2>1, <2>2, <2>3, Constantes
<1>2. /\ Cardinality(Recentes(t, j)') <= Cardinality(zset'[j])
      /\ Cardinality(Recentes(t, j)') \in Nat
      /\ Cardinality(zset'[j]) \in Nat
  BY <1>1, Menor
<1> QED
  BY <1>2, Constantes

(* A count over the limit: the others in the window reach the limit.         *)
LEMMA AcimaDoLimite ==
    ASSUME IInv, NEW r \in Pedidos, NEW j \in Janelas, Contagem(r, j) > Limite[j]
    PROVE  /\ NaJanela(r, j) \subseteq Pedidos
           /\ Cardinality(NaJanela(r, j)) \in Nat
           /\ Cardinality(NaJanela(r, j)) >= Limite[j]
<1>1. NaJanela(r, j) \subseteq Pedidos
  BY DEF IInv, TypeOK, NaJanela, Vivos
<1>2. IsFiniteSet(NaJanela(r, j)) /\ Cardinality(NaJanela(r, j)) \in Nat
  BY <1>1, FinitoAssumption, FS_Subset, FS_CardinalityType
<1>3. Contagem(r, j) <= Cardinality(NaJanela(r, j)) + 1
  <2>1. Contagem(r, j) = IF r \in NaJanela(r, j)
                         THEN Cardinality(NaJanela(r, j))
                         ELSE Cardinality(NaJanela(r, j)) + 1
    BY <1>2, FS_AddElement DEF Contagem
  <2> QED
    BY <1>2, <2>1
<1>4. Contagem(r, j) \in Nat
  BY <1>2, FS_AddElement, FS_CardinalityType DEF Contagem
<1> QED
  BY <1>1, <1>2, <1>3, <1>4, Constantes

(* So one of them is another request.                                        *)
LEMMA HaOutro ==
    ASSUME IInv, NEW r \in Pedidos, NEW j \in Janelas, fase[r] = j,
           Contagem(r, j) > Limite[j]
    PROVE  \E x \in Pedidos \ {r} :
              fase[x] # "novo" /\ carimbo[x] + Janela[j] > carimbo[r]
<1>1. NaJanela(r, j) \subseteq contados[j]
  BY DEF IInv, TypeOK, NaJanela, Vivos
<1>2. r \notin contados[j]
  BY Constantes DEF IInv, FaseContada
<1>3. NaJanela(r, j) # {}
  BY AcimaDoLimite, FS_EmptySet, Constantes
<1>4. PICK x \in NaJanela(r, j) : TRUE
  BY <1>3
<1>5. x \in Pedidos /\ fase[x] # "novo"
  BY <1>1, Constantes DEF IInv, TypeOK, FaseContada
<1>6. carimbo[x] + Janela[j] > carimbo[r]
  BY DEF NaJanela
<1> QED
  BY <1>1, <1>2, <1>5, <1>6

(* A refusal that was justified stays so.                                    *)
LEMMA RecusaFica ==
    ASSUME IInv, NEW q \in Pedidos, fase[q] \in Recusas, fase'[q] = fase[q],
           \A x \in Pedidos : fase[x] # "novo" =>
              fase'[x] # "novo" /\ carimbo'[x] = carimbo[x]
    PROVE  \E x \in Pedidos \ {q} :
              /\ fase'[x] # "novo"
              /\ carimbo'[x] + Janela[JanelaDaRecusa(q)'] > carimbo'[q]
<1>1. JanelaDaRecusa(q)' = JanelaDaRecusa(q)
  BY DEF JanelaDaRecusa
<1>2. PICK x \in Pedidos \ {q} :
          fase[x] # "novo" /\ carimbo[x] + Janela[JanelaDaRecusa(q)] > carimbo[q]
  BY DEF IInv, RecusaComOutro
<1>3. fase[q] # "novo"
  BY DEF Recusas
<1> QED
  BY <1>1, <1>2, <1>3

LEMMA PassoChegar ==
    ASSUME IInv, NEW r \in Pedidos, Chegar(r)
    PROVE  IInv'
<1>1. /\ fase[r] = "novo" /\ fase' = [fase EXCEPT ![r] = "minuto"]
      /\ carimbo' = [carimbo EXCEPT ![r] = agora]
      /\ UNCHANGED <<agora, zset, expira, contados, decidido>>
      /\ fase \in [Pedidos -> Fase] /\ carimbo \in [Pedidos -> 0..Fim]
      /\ agora \in 0..Fim
  BY DEF Chegar, IInv, TypeOK
<1>2. /\ fase'[r] = "minuto" /\ carimbo'[r] = agora
      /\ \A q \in Pedidos \ {r} : fase'[q] = fase[q] /\ carimbo'[q] = carimbo[q]
      /\ fase' \in [Pedidos -> Fase] /\ carimbo' \in [Pedidos -> 0..Fim]
  BY <1>1 DEF Fase, EmCurso
<1>3. \A j \in Janelas : \A q \in contados[j] : q \in Pedidos /\ q # r
  BY <1>1, Constantes DEF IInv, TypeOK, FaseContada
<1>4. TypeOK'
  <2>1. \A q \in contados["dia"] : q \in Pedidos /\ q # r
    BY <1>3, Constantes
  <2> QED
    BY <1>1, <1>2, <2>1 DEF IInv, TypeOK
<1>5. FaseContada'
  BY <1>1, <1>2, <1>3, Constantes DEF IInv, FaseContada
<1>6. Relogio'
  BY <1>1, <1>2, FimAssumption, AtrasoAssumption, JanelaAssumption
     DEF IInv, Relogio, EmCurso
<1>7. Folga'
  BY <1>1, <1>2, <1>3 DEF IInv, Folga
<1>8. Completo'
  BY <1>1, <1>2, <1>3 DEF IInv, Completo
<1>9. PassaramRecente'
  <2> SUFFICES ASSUME NEW j \in Janelas
               PROVE  \A t \in Nat :
                         Ultimo(t, j)' => Cardinality(Recentes(t, j)') <= Limite[j]
    BY DEF PassaramRecente
  <2>1. Passaram(j)' \subseteq Passaram(j)
    BY <1>2 DEF Passaram
  <2> QED
    BY <1>1, <1>2, <2>1, NinguemPassou
<1>10. RecusaComOutro'
  <2> SUFFICES ASSUME NEW q \in Pedidos, fase'[q] \in Recusas
               PROVE  \E x \in Pedidos \ {q} :
                         /\ fase'[x] # "novo"
                         /\ carimbo'[x] + Janela[JanelaDaRecusa(q)'] > carimbo'[q]
    BY DEF RecusaComOutro, Recusas
  <2>1. q # r /\ fase'[q] = fase[q]
    BY <1>2 DEF Recusas
  <2> QED
    BY <1>1, <1>2, <2>1, RecusaFica
<1> QED
  BY <1>4, <1>5, <1>6, <1>7, <1>8, <1>9, <1>10 DEF IInv

LEMMA PassoPassar ==
    ASSUME IInv, Passar
    PROVE  IInv'
<1>1. /\ agora \in 0..Fim /\ agora' = agora + 1 /\ agora' \in 0..Fim
      /\ UNCHANGED <<fase, carimbo, zset, expira, contados, decidido>>
      /\ carimbo \in [Pedidos -> 0..Fim] /\ Fim \in Nat /\ Atraso \in Nat
  BY FimAssumption, AtrasoAssumption, JanelaAssumption DEF Passar, IInv, TypeOK
<1>2. TypeOK' /\ FaseContada' /\ Completo'
  BY <1>1 DEF IInv, TypeOK, FaseContada, Completo
<1>3. Relogio'
  BY <1>1 DEF IInv, Relogio, Passar
<1>4. Folga'
  <2> SUFFICES ASSUME NEW j \in Janelas PROVE expira[j] <= agora + 1 + 2 * Janela[j]
    BY <1>1 DEF IInv, Folga
  <2>1. expira[j] <= agora + 2 * Janela[j]
    BY DEF IInv, Folga
  <2>2. expira[j] \in Int /\ Janela[j] \in Nat
    BY Constantes, FimAssumption, JanelaAssumption DEF IInv, TypeOK
  <2> QED
    BY <1>1, <2>1, <2>2
<1>5. PassaramRecente'
  BY <1>1 DEF IInv, PassaramRecente, Ultimo, Recentes, Passaram
<1>6. RecusaComOutro'
  BY <1>1 DEF IInv, RecusaComOutro, JanelaDaRecusa
<1> QED
  BY <1>2, <1>3, <1>4, <1>5, <1>6 DEF IInv

(* A request that runs a pipeline, or fails, moves from fase j to f.         *)
LEMMA Muda ==
    ASSUME IInv, NEW r \in Pedidos, NEW j \in Janelas, fase[r] = j,
           NEW f \in Fase \ {"novo"}, fase' = [fase EXCEPT ![r] = f],
           UNCHANGED <<agora, carimbo>>
    PROVE  /\ fase' \in [Pedidos -> Fase] /\ fase'[r] = f
           /\ \A q \in Pedidos \ {r} : fase'[q] = fase[q]
           /\ Relogio'
           /\ \A q \in Pedidos \ {r} : fase'[q] \in Recusas =>
                 \E x \in Pedidos \ {q} :
                    /\ fase'[x] # "novo"
                    /\ carimbo'[x] + Janela[JanelaDaRecusa(q)'] > carimbo'[q]
<1>1. /\ fase' \in [Pedidos -> Fase] /\ fase'[r] = f
      /\ \A q \in Pedidos \ {r} : fase'[q] = fase[q]
  BY DEF IInv, TypeOK
<1>2. fase[r] \in EmCurso
  BY Constantes DEF EmCurso
<1>3. Relogio'
  BY <1>1, <1>2 DEF IInv, Relogio, EmCurso
<1>4. \A x \in Pedidos : fase[x] # "novo" => fase'[x] # "novo" /\ carimbo'[x] = carimbo[x]
  BY <1>1
<1>5. ASSUME NEW q \in Pedidos \ {r}, fase'[q] \in Recusas
      PROVE  \E x \in Pedidos \ {q} :
                /\ fase'[x] # "novo"
                /\ carimbo'[x] + Janela[JanelaDaRecusa(q)'] > carimbo'[q]
  BY <1>1, <1>4, <1>5, RecusaFica
<1> QED
  BY <1>1, <1>3, <1>5

(* A count within the limit bounds the key it leaves.                        *)
LEMMA DentroDoLimite ==
    ASSUME IInv, NEW r \in Pedidos, NEW j \in Janelas, ~(Contagem(r, j) > Limite[j])
    PROVE  Cardinality(NaJanela(r, j) \union {r}) <= Limite[j]
<1>1. NaJanela(r, j) \union {r} \subseteq Pedidos
  BY DEF IInv, TypeOK, NaJanela, Vivos
<1>2. Contagem(r, j) \in Nat
  BY <1>1, FinitoAssumption, FS_Subset, FS_CardinalityType DEF Contagem
<1> QED
  BY <1>2, Constantes DEF Contagem

LEMMA PassoContarMinuto ==
    ASSUME IInv, NEW r \in Pedidos, ContarMinuto(r)
    PROVE  IInv'
<1> DEFINE f == IF Contagem(r, "minuto") > Limite["minuto"] THEN "negadoMinuto" ELSE "dia"
<1>1. /\ fase[r] = "minuto" /\ Executar(r, "minuto") /\ fase' = [fase EXCEPT ![r] = f]
      /\ UNCHANGED <<agora, carimbo>> /\ "minuto" \in Janelas /\ "dia" \in Janelas
      /\ f \in Fase \ {"novo"} /\ f \in {"negadoMinuto", "dia"}
  BY Constantes DEF ContarMinuto, Responder, Fase, EmCurso, Recusas
<1>2. /\ zset' \in [Janelas -> SUBSET Pedidos]
      /\ contados' \in [Janelas -> SUBSET Pedidos]
      /\ expira' \in [Janelas -> 0..Fim + 2 * Dia]
      /\ contados'["minuto"] = contados["minuto"] \union {r}
      /\ zset'["minuto"] = NaJanela(r, "minuto") \union {r}
      /\ contados'["dia"] = contados["dia"]
      /\ \A k \in Janelas : zset'[k] \subseteq contados'[k]
      /\ Folga'
      /\ Completo'
  BY <1>1, AposExecutar
<1>3. /\ fase' \in [Pedidos -> Fase] /\ fase'[r] = f
      /\ \A q \in Pedidos \ {r} : fase'[q] = fase[q]
      /\ Relogio'
      /\ \A q \in Pedidos \ {r} : fase'[q] \in Recusas =>
            \E x \in Pedidos \ {q} :
               /\ fase'[x] # "novo"
               /\ carimbo'[x] + Janela[JanelaDaRecusa(q)'] > carimbo'[q]
  BY <1>1, Muda
<1>4. FaseContada'
  BY <1>1, <1>2, <1>3 DEF IInv, FaseContada
<1>5. TypeOK'
  <2>1. decidido' \in [Pedidos -> 0..Fim]
    BY DEF IInv, TypeOK, ContarMinuto, Responder
  <2>2. r \notin contados["dia"]
    BY <1>1 DEF IInv, FaseContada
  <2>3. \A q \in contados'["dia"] :
           q \in contados'["minuto"] /\ fase'[q] # "negadoMinuto"
    BY <1>1, <1>2, <1>3, <2>2 DEF IInv, TypeOK
  <2> QED
    BY <1>1, <1>2, <1>3, <2>1, <2>3 DEF IInv, TypeOK
<1>6. PassaramRecente'
  <2> SUFFICES ASSUME NEW k \in Janelas
               PROVE  \A t \in Nat :
                         Ultimo(t, k)' => Cardinality(Recentes(t, k)') <= Limite[k]
    BY DEF PassaramRecente
  <2>1. CASE k = "dia" \/ f = "negadoMinuto"
    <3>1. Passaram(k)' \subseteq Passaram(k)
      BY <1>1, <1>3, <2>1, Constantes DEF Passaram
    <3>2. contados[k] \subseteq contados'[k]
      BY <1>2, Constantes
    <3> QED
      BY <1>1, <3>1, <3>2, NinguemPassou
  <2>2. CASE k = "minuto" /\ f = "dia"
    <3>1. ~(Contagem(r, k) > Limite[k])
      BY <2>2
    <3>2. Cardinality(zset'[k]) <= Limite[k]
      BY <1>2, <2>2, <3>1, DentroDoLimite
    <3>3. Passaram(k)' \subseteq contados'[k]
      BY <1>4, <2>2 DEF Passaram, FaseContada
    <3>4. carimbo' \in [Pedidos -> Nat]
      BY <1>1 DEF IInv, TypeOK
    <3>5. zset'[k] \subseteq Pedidos /\ contados'[k] \subseteq Pedidos
      BY <1>2
    <3> QED
      BY <1>2, <3>2, <3>3, <3>4, <3>5, AlguemPassou
  <2> QED
    BY <1>1, <2>1, <2>2, Constantes
<1>7. RecusaComOutro'
  <2>1. ASSUME fase'[r] \in Recusas
        PROVE  \E x \in Pedidos \ {r} :
                  /\ fase'[x] # "novo"
                  /\ carimbo'[x] + Janela[JanelaDaRecusa(r)'] > carimbo'[r]
    <3>1. fase'[r] = "negadoMinuto" /\ Contagem(r, "minuto") > Limite["minuto"]
      BY <1>3, <2>1 DEF Recusas
    <3>2. JanelaDaRecusa(r)' = "minuto"
      BY <3>1 DEF JanelaDaRecusa
    <3>3. PICK x \in Pedidos \ {r} :
              fase[x] # "novo" /\ carimbo[x] + Janela["minuto"] > carimbo[r]
      BY <1>1, <3>1, HaOutro
    <3> QED
      BY <1>1, <1>3, <3>2, <3>3
  <2> QED
    BY <1>3, <2>1 DEF RecusaComOutro, Recusas
<1> QED
  BY <1>2, <1>3, <1>4, <1>5, <1>6, <1>7 DEF IInv

LEMMA PassoContarDia ==
    ASSUME IInv, NEW r \in Pedidos, ContarDia(r)
    PROVE  IInv'
<1> DEFINE f == IF Contagem(r, "dia") > Limite["dia"] THEN "negadoDia" ELSE "permitido"
<1>1. /\ fase[r] = "dia" /\ Executar(r, "dia") /\ fase' = [fase EXCEPT ![r] = f]
      /\ UNCHANGED <<agora, carimbo>> /\ "minuto" \in Janelas /\ "dia" \in Janelas
      /\ f \in Fase \ {"novo"} /\ f \in {"negadoDia", "permitido"}
  BY Constantes DEF ContarDia, Responder, Fase, EmCurso, Recusas
<1>2. /\ zset' \in [Janelas -> SUBSET Pedidos]
      /\ contados' \in [Janelas -> SUBSET Pedidos]
      /\ expira' \in [Janelas -> 0..Fim + 2 * Dia]
      /\ contados'["dia"] = contados["dia"] \union {r}
      /\ zset'["dia"] = NaJanela(r, "dia") \union {r}
      /\ contados'["minuto"] = contados["minuto"]
      /\ \A k \in Janelas : zset'[k] \subseteq contados'[k]
      /\ Folga'
      /\ Completo'
  BY <1>1, AposExecutar
<1>3. /\ fase' \in [Pedidos -> Fase] /\ fase'[r] = f
      /\ \A q \in Pedidos \ {r} : fase'[q] = fase[q]
      /\ Relogio'
      /\ \A q \in Pedidos \ {r} : fase'[q] \in Recusas =>
            \E x \in Pedidos \ {q} :
               /\ fase'[x] # "novo"
               /\ carimbo'[x] + Janela[JanelaDaRecusa(q)'] > carimbo'[q]
  BY <1>1, Muda
<1>4. FaseContada'
  BY <1>1, <1>2, <1>3 DEF IInv, FaseContada
<1>5. TypeOK'
  <2>1. decidido' \in [Pedidos -> 0..Fim]
    BY DEF IInv, TypeOK, ContarDia, Responder
  <2>2. r \in contados["minuto"]
    BY <1>1 DEF IInv, FaseContada
  <2>3. \A q \in contados'["dia"] :
           q \in contados'["minuto"] /\ fase'[q] # "negadoMinuto"
    BY <1>1, <1>2, <1>3, <2>2 DEF IInv, TypeOK
  <2> QED
    BY <1>1, <1>2, <1>3, <2>1, <2>3 DEF IInv, TypeOK
<1>6. PassaramRecente'
  <2> SUFFICES ASSUME NEW k \in Janelas
               PROVE  \A t \in Nat :
                         Ultimo(t, k)' => Cardinality(Recentes(t, k)') <= Limite[k]
    BY DEF PassaramRecente
  <2>1. CASE k = "minuto" \/ f = "negadoDia"
    <3>1. Passaram(k)' \subseteq Passaram(k)
      BY <1>1, <1>3, <2>1, Constantes DEF Passaram
    <3>2. contados[k] \subseteq contados'[k]
      BY <1>2, Constantes
    <3> QED
      BY <1>1, <3>1, <3>2, NinguemPassou
  <2>2. CASE k = "dia" /\ f = "permitido"
    <3>1. ~(Contagem(r, k) > Limite[k])
      BY <2>2
    <3>2. Cardinality(zset'[k]) <= Limite[k]
      BY <1>2, <2>2, <3>1, DentroDoLimite
    <3>3. Passaram(k)' \subseteq contados'[k]
      BY <1>4, <2>2 DEF Passaram, FaseContada
    <3>4. carimbo' \in [Pedidos -> Nat]
      BY <1>1 DEF IInv, TypeOK
    <3>5. zset'[k] \subseteq Pedidos /\ contados'[k] \subseteq Pedidos
      BY <1>2
    <3> QED
      BY <1>2, <3>2, <3>3, <3>4, <3>5, AlguemPassou
  <2> QED
    BY <1>1, <2>1, <2>2, Constantes
<1>7. RecusaComOutro'
  <2>1. ASSUME fase'[r] \in Recusas
        PROVE  \E x \in Pedidos \ {r} :
                  /\ fase'[x] # "novo"
                  /\ carimbo'[x] + Janela[JanelaDaRecusa(r)'] > carimbo'[r]
    <3>1. fase'[r] = "negadoDia" /\ Contagem(r, "dia") > Limite["dia"]
      BY <1>3, <2>1 DEF Recusas
    <3>2. JanelaDaRecusa(r)' = "dia"
      BY <3>1 DEF JanelaDaRecusa
    <3>3. PICK x \in Pedidos \ {r} :
              fase[x] # "novo" /\ carimbo[x] + Janela["dia"] > carimbo[r]
      BY <1>1, <3>1, HaOutro
    <3> QED
      BY <1>1, <1>3, <3>2, <3>3
  <2> QED
    BY <1>3, <2>1 DEF RecusaComOutro, Recusas
<1> QED
  BY <1>2, <1>3, <1>4, <1>5, <1>6, <1>7 DEF IInv

LEMMA PassoFalhar ==
    ASSUME IInv, NEW r \in Pedidos, Falhar(r)
    PROVE  IInv'
<1> DEFINE j == fase[r]
<1>1. /\ j \in Janelas /\ fase' = [fase EXCEPT ![r] = "falhou"]
      /\ UNCHANGED <<agora, carimbo, decidido>> /\ "falhou" \in Fase \ {"novo"}
  BY Constantes DEF Falhar, EmCurso, Fase
<1>2. /\ zset' \in [Janelas -> SUBSET Pedidos]
      /\ contados' \in [Janelas -> SUBSET Pedidos]
      /\ expira' \in [Janelas -> 0..Fim + 2 * Dia]
      /\ \A k \in Janelas : zset'[k] \subseteq contados'[k]
      /\ \A k \in Janelas \ {j} : contados'[k] = contados[k]
      /\ contados'[j] = contados[j] \/ contados'[j] = contados[j] \union {r}
      /\ Folga'
      /\ Completo'
  <2>1. CASE Executar(r, j)
    <3>1. /\ zset' \in [Janelas -> SUBSET Pedidos]
          /\ contados' \in [Janelas -> SUBSET Pedidos]
          /\ expira' \in [Janelas -> 0..Fim + 2 * Dia]
          /\ contados'[j] = contados[j] \union {r}
          /\ \A k \in Janelas \ {j} : contados'[k] = contados[k]
          /\ \A k \in Janelas : zset'[k] \subseteq contados'[k]
          /\ Folga'
          /\ Completo'
      BY <1>1, <2>1, AposExecutar
    <3> QED
      BY <3>1
  <2>2. CASE UNCHANGED <<zset, expira, contados>>
    BY <1>1, <2>2 DEF IInv, TypeOK, Folga, Completo
  <2> QED
    BY <2>1, <2>2 DEF Falhar
<1>3. /\ fase' \in [Pedidos -> Fase] /\ fase'[r] = "falhou"
      /\ \A q \in Pedidos \ {r} : fase'[q] = fase[q]
      /\ Relogio'
      /\ \A q \in Pedidos \ {r} : fase'[q] \in Recusas =>
            \E x \in Pedidos \ {q} :
               /\ fase'[x] # "novo"
               /\ carimbo'[x] + Janela[JanelaDaRecusa(q)'] > carimbo'[q]
  BY <1>1, Muda
<1>8. /\ contados["minuto"] \subseteq contados'["minuto"]
      /\ contados["dia"] \subseteq contados'["dia"]
      /\ contados'["minuto"] \subseteq contados["minuto"] \union {r}
      /\ contados'["dia"] \subseteq contados["dia"] \union {r}
      /\ j # "dia" => contados'["dia"] = contados["dia"]
  <2>1. j = "minuto" \/ j = "dia"
    BY <1>1, Constantes
  <2>2. CASE j = "minuto"
    <3>1. "dia" \in Janelas \ {j}
      BY <2>2, Constantes
    <3> QED
      BY <1>2, <2>2, <3>1
  <2>3. CASE j = "dia"
    <3>1. "minuto" \in Janelas \ {j}
      BY <2>3, Constantes
    <3> QED
      BY <1>2, <2>3, <3>1
  <2> QED
    BY <2>1, <2>2, <2>3
<1>4. FaseContada'
  <2> SUFFICES ASSUME NEW q \in Pedidos
               PROVE  /\ fase'[q] \in {"novo", "minuto"} => q \notin contados'["minuto"]
                      /\ fase'[q] \in {"novo", "minuto", "dia", "negadoMinuto"} =>
                            q \notin contados'["dia"]
                      /\ fase'[q] \in {"dia", "permitido", "negadoDia", "negadoMinuto"} =>
                            q \in contados'["minuto"]
                      /\ fase'[q] \in {"permitido", "negadoDia"} => q \in contados'["dia"]
    BY DEF FaseContada
  <2>1. CASE q = r
    BY <1>3, <2>1
  <2>2. CASE q # r
    <3>1. /\ fase'[q] = fase[q]
          /\ q \in contados'["minuto"] <=> q \in contados["minuto"]
          /\ q \in contados'["dia"] <=> q \in contados["dia"]
      BY <1>3, <1>8, <2>2
    <3> QED
      BY <3>1 DEF IInv, FaseContada
  <2> QED
    BY <2>1, <2>2
<1>5. TypeOK'
  <2>1. \A q \in contados'["dia"] :
           q \in contados'["minuto"] /\ fase'[q] # "negadoMinuto"
    <3> SUFFICES ASSUME NEW q \in contados'["dia"]
                 PROVE  q \in contados'["minuto"] /\ fase'[q] # "negadoMinuto"
      OBVIOUS
    <3>1. CASE q \in contados["dia"]
      <4>1. /\ q \in contados["minuto"] /\ fase[q] # "negadoMinuto" /\ q \in Pedidos
        BY <3>1, Constantes DEF IInv, TypeOK
      <4> QED
        BY <1>3, <1>8, <4>1
    <3>2. CASE q \notin contados["dia"]
      <4>1. q = r /\ j = "dia"
        BY <1>8, <3>2
      <4>2. r \in contados["minuto"]
        BY <4>1 DEF IInv, FaseContada
      <4> QED
        BY <1>3, <1>8, <4>1, <4>2
    <3> QED
      BY <3>1, <3>2
  <2> QED
    BY <1>1, <1>2, <1>3, <2>1 DEF IInv, TypeOK
<1>6. PassaramRecente'
  <2> SUFFICES ASSUME NEW k \in Janelas
               PROVE  \A t \in Nat :
                         Ultimo(t, k)' => Cardinality(Recentes(t, k)') <= Limite[k]
    BY DEF PassaramRecente
  <2>1. Passaram(k)' \subseteq Passaram(k)
    BY <1>3 DEF Passaram
  <2>2. contados[k] \subseteq contados'[k]
    BY <1>8, Constantes
  <2> QED
    BY <1>1, <2>1, <2>2, NinguemPassou
<1>7. RecusaComOutro'
  BY <1>3 DEF RecusaComOutro, Recusas
<1> QED
  BY <1>2, <1>3, <1>4, <1>5, <1>6, <1>7 DEF IInv

-----------------------------------------------------------------------------
LEMMA Indutivo == IInv /\ [Next]_vars => IInv'
<1> SUFFICES ASSUME IInv, [Next]_vars PROVE IInv'
  OBVIOUS
<1>1. CASE UNCHANGED vars
  BY <1>1 DEF vars, IInv, TypeOK, FaseContada, Relogio, Folga, Completo,
              PassaramRecente, Ultimo, Recentes, Passaram, RecusaComOutro,
              JanelaDaRecusa
<1> QED
  BY <1>1, PassoChegar, PassoContarMinuto, PassoContarDia, PassoFalhar, PassoPassar
     DEF Next

THEOREM Invariante == Spec => []IInv
  BY Inicio, Indutivo, PTL DEF Spec

(* The types, and that a request refused by the minute is not charged to the *)
(* day.                                                                      *)
THEOREM RateLimitTipo == Spec => []TypeOK
<1>1. IInv => TypeOK
  BY DEF IInv
<1> QED
  BY <1>1, Invariante, PTL

(* In the window that ends at the latest timestamp counted, no more requests *)
(* were allowed than the plan's limit.                                       *)
THEOREM LimiteRespeitado == Spec => []JanelaRecente
<1>1. IInv => JanelaRecente
  <2> SUFFICES ASSUME IInv, NEW j \in Janelas, NEW r \in contados[j],
                      \A q \in contados[j] : carimbo[q] <= carimbo[r]
               PROVE  Cardinality({q \in Permitidos : carimbo[q] + Janela[j] > carimbo[r]})
                         <= Limite[j]
    BY DEF JanelaRecente
  <2> DEFINE S == {q \in Permitidos : carimbo[q] + Janela[j] > carimbo[r]}
             t == carimbo[r]
  <2>1. t \in Nat /\ Ultimo(t, j)
    BY FimAssumption DEF IInv, TypeOK, Ultimo
  <2>2. Cardinality(Recentes(t, j)) <= Limite[j]
    BY <2>1 DEF IInv, PassaramRecente
  <2>3. S \subseteq Recentes(t, j) /\ Recentes(t, j) \subseteq Pedidos
    BY DEF Recentes, Passaram, Permitidos
  <2>4. /\ Cardinality(S) <= Cardinality(Recentes(t, j))
        /\ Cardinality(S) \in Nat /\ Cardinality(Recentes(t, j)) \in Nat
    BY <2>3, Menor
  <2> QED
    BY <2>2, <2>4, Constantes
<1> QED
  BY <1>1, Invariante, PTL

(* The announced instant is less than a second before the window that ends   *)
(* with what was counted at the answer.                                      *)
LEMMA DoReset ==
    ASSUME NEW t \in Nat
    PROVE  /\ InicioDoSegundo(t) \in Int
           /\ t + 1 <= InicioDoSegundo(t) + Segundo
<1>1. t % Segundo \in 0..Segundo - 1
  BY SegundoAssumption
<1> QED
  BY <1>1, SegundoAssumption DEF InicioDoSegundo

(* Silence until the last instant of the second after X-RateLimit-Reset is   *)
(* enough not to be refused by the same window.                              *)
THEOREM EsperaSuficiente == Spec => []EsperaBasta
<1>1. IInv => EsperaBasta
  <2> SUFFICES ASSUME IInv, NEW r \in Pedidos, NEW q \in Pedidos,
                      RecusadoDeNovo(r, q)
               PROVE  carimbo[q] + 1 < Reset(r) + Segundo
    BY DEF EsperaBasta
  <2> DEFINE j == JanelaDaRecusa(r)
  <2>1. JanelaDaRecusa(q) = j /\ j \in Janelas /\ fase[q] \in Recusas
    BY Constantes DEF JanelaDaRecusa, RecusadoDeNovo
  <2>2. PICK x \in Pedidos \ {q} : fase[x] # "novo" /\ carimbo[x] + Janela[j] > carimbo[q]
    BY <2>1 DEF IInv, RecusaComOutro
  <2>3. carimbo[x] <= decidido[r]
    BY <2>2 DEF RecusadoDeNovo
  <2>4. /\ carimbo[x] \in Nat /\ carimbo[q] \in Nat /\ decidido[r] \in Nat
        /\ Janela[j] \in Nat /\ Segundo \in Nat
    BY <2>1, Constantes, FimAssumption, SegundoAssumption DEF IInv, TypeOK
  <2>5. /\ InicioDoSegundo(decidido[r]) \in Int
        /\ decidido[r] + 1 <= InicioDoSegundo(decidido[r]) + Segundo
    BY <2>4, DoReset
  <2>6. Reset(r) = InicioDoSegundo(decidido[r]) + Janela[j]
    BY DEF Reset
  <2> HIDE DEF j
  <2> QED
    BY <2>2, <2>3, <2>4, <2>5, <2>6
<1> QED
  BY <1>1, Invariante, PTL

(* Nobody is refused before others reached the limit.                        *)
THEOREM RecusaJustificada == Spec => RecusaJusta
<1> DEFINE A == \A r \in Pedidos : fase[r] \in EmCurso /\ fase'[r] \in Recusas =>
                   Cardinality({q \in contados[fase[r]] :
                                   carimbo[q] + Janela[fase[r]] > carimbo[r]})
                      >= Limite[fase[r]]
<1>1. IInv /\ [Next]_vars => A
  <2> SUFFICES ASSUME IInv, [Next]_vars, NEW r \in Pedidos,
                      fase[r] \in EmCurso, fase'[r] \in Recusas
               PROVE  Cardinality({q \in contados[fase[r]] :
                                      carimbo[q] + Janela[fase[r]] > carimbo[r]})
                         >= Limite[fase[r]]
    OBVIOUS
  <2> DEFINE j == fase[r]
             S == {q \in contados[j] : carimbo[q] + Janela[j] > carimbo[r]}
  <2>1. j \in Janelas /\ fase'[r] # fase[r] /\ fase \in [Pedidos -> Fase]
    BY Constantes DEF EmCurso, Recusas, IInv, TypeOK
  <2>2. PICK p \in Pedidos :
            Chegar(p) \/ ContarMinuto(p) \/ ContarDia(p) \/ Falhar(p)
    BY <2>1 DEF Next, vars, Passar
  <2>3. p = r
    BY <2>1, <2>2 DEF Chegar, ContarMinuto, ContarDia, Falhar, Responder
  <2>4. Contagem(r, j) > Limite[j]
    BY <2>1, <2>2, <2>3 DEF Chegar, ContarMinuto, ContarDia, Falhar, Responder,
                            EmCurso, Recusas
  <2>5. /\ Cardinality(NaJanela(r, j)) \in Nat
        /\ Cardinality(NaJanela(r, j)) >= Limite[j]
    BY <2>1, <2>4, AcimaDoLimite
  <2>6. NaJanela(r, j) \subseteq S /\ S \subseteq Pedidos
    BY <2>1 DEF IInv, TypeOK, NaJanela, Vivos
  <2>7. Cardinality(NaJanela(r, j)) <= Cardinality(S) /\ Cardinality(S) \in Nat
    BY <2>6, Menor
  <2> QED
    BY <2>1, <2>5, <2>7, Constantes
<1>2. RecusaJusta <=> [][A]_vars
  BY DEF RecusaJusta
<1>3. IInv /\ [Next]_vars => [A]_vars
  BY <1>1
<1> QED
  BY <1>2, <1>3, Invariante, PTL DEF Spec
=============================================================================
