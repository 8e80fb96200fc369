--------------------------- MODULE Sistema_proofs ---------------------------
(***************************************************************************)
(* What holds of the note from emission to cancellation for every set of    *)
(* notes, executions and requests.  The poller's own steps reuse the lemmas *)
(* of Poller_proofs.                                                        *)
(***************************************************************************)
EXTENDS Sistema, Poller_proofs, FiniteSetTheorems

(* What SEFAZ and the table hold at each phase of the emission.              *)
EtapaDaEmissao ==
    \A n \in Notas :
        /\ emissao[n].fase = "nova" => sefaz[n].cstat = "nada"
        /\ emissao[n].fase \in {"recibo", "pendente"} => sefaz[n].cstat # "nada"
        /\ emissao[n].fase = "protocolo" => sefaz[n].cstat \in CStatFinal
        /\ emissao[n].fase # "fim" => linha[n].status = "AUSENTE"

(* SEFAZ answers within Desfechos and registers events of authorised notes.  *)
RespostaDaSefaz ==
    \A n \in Notas :
        /\ sefaz[n].cstat \in Desfechos \union {"nada", "105"}
        /\ sefaz[n].eventos # {} => Autorizada(n)
        /\ IsFiniteSet(sefaz[n].eventos)

(* The poller and the requests work on notes that have a row.                *)
ComLinha ==
    /\ \A p \in Pollers : \A n \in fila[p] : linha[n].status # "AUSENTE"
    /\ \A p \in Pollers, n \in Notas :
          memoria[p][n] # "limpa" => linha[n].status # "AUSENTE"
    /\ \A x \in pedidos : linha[x.nota].status # "AUSENTE"

(* What a request knows of SEFAZ's record: the events it read are there, its *)
(* own if it was accepted; a letter is at most the next one.                 *)
PedidosCoerentes ==
    \A x \in pedidos :
        /\ x.lidos \subseteq sefaz[x.nota].eventos
        /\ x.fase = "aceito" => x.evento \in sefaz[x.nota].eventos
        /\ x.evento.tp = "110111" => x.evento = Cancelamento
        /\ x.evento.tp = "110110" =>
              x.evento.seq <= Cardinality(Cartas(sefaz[x.nota].eventos)) + 1

(* A decided row is decided at SEFAZ.                                        *)
DecididaNaSefaz ==
    \A n \in Notas : linha[n].status \in Finais => sefaz[n].cstat \in CStatFinal

SistemaIInv ==
    /\ SistemaTypeOK
    /\ EtapaDaEmissao
    /\ RespostaDaSefaz
    /\ ComLinha
    /\ MemoriaDoProtocolo
    /\ PedidosCoerentes
    /\ DecididaNaSefaz
    /\ StatusConfirmado
    /\ PendenteTemLote
    /\ EventosRegistrados
    /\ CartasSequenciais
-----------------------------------------------------------------------------
(* A step is the poller's or SEFAZ's, the emission's, or a request's.        *)
LEMMA ModoDoPasso ==
    ASSUME [SistemaNext]_sistemaVars
    PROVE  \/ [Next]_vars /\ UNCHANGED <<emissao, pedidos>>
           \/ EmissaoNext /\ UNCHANGED <<pedidos, pollerVars>>
           \/ EventosNext /\ UNCHANGED <<emissao, pollerVars>>
  BY DEF SistemaNext, sistemaVars, Next, vars

LEMMA TipoDoPoller == SistemaTypeOK => TypeOK
  BY DEF SistemaTypeOK, TypeOK

(* What a step of the emission of note n does.                               *)
SoMexeEm(n) ==
    /\ emissao[n].fase # "fim"
    /\ trava' = trava
    /\ \A m \in Notas : m # n => /\ linha'[m] = linha[m]
                                /\ sefaz'[m] = sefaz[m]
                                /\ emissao'[m] = emissao[m]
    /\ emissao' \in [Notas -> Pipeline]
    /\ linha' \in [Notas -> Linha]
    /\ sefaz' \in [Notas -> Registro]
    /\ sefaz'[n].eventos = sefaz[n].eventos

EmissaoEnvia(n) ==
    /\ emissao[n].fase = "nova"
    /\ linha' = linha
    /\ \/ emissao'[n].fase = "protocolo" /\ sefaz'[n].cstat \in Desfechos
       \/ emissao'[n].fase = "recibo" /\ sefaz'[n].cstat = "105"
       \/ /\ emissao'[n].fase = "fim"
          /\ sefaz'[n].cstat \in Desfechos \union {"105", sefaz[n].cstat}

EmissaoEspera(n) ==
    /\ linha' = linha
    /\ sefaz' = sefaz
    /\ \/ emissao'[n].fase = "fim"
       \/ /\ emissao[n].fase = "recibo"
          /\ emissao'[n].fase \in {"recibo", "pendente"}
       \/ /\ emissao'[n].fase = "protocolo"
          /\ sefaz[n].cstat \in CStatFinal

EmissaoGrava(n) ==
    /\ sefaz' = sefaz
    /\ emissao'[n].fase = "fim"
    /\ linha'[n].eventos = {}
    /\ \/ /\ emissao[n].fase = "protocolo"
          /\ linha'[n].status = StatusDaEmissao(sefaz[n].cstat)
       \/ /\ emissao[n].fase = "pendente"
          /\ linha'[n].status = "PROCESSANDO"
          /\ linha'[n].recibo

PassoDaEmissao(n) ==
    /\ SoMexeEm(n)
    /\ EmissaoEnvia(n) \/ EmissaoEspera(n) \/ EmissaoGrava(n)

LEMMA EfeitoDaEmissao ==
    ASSUME SistemaTypeOK, EmissaoNext
    PROVE  \E n \in Notas : PassoDaEmissao(n)
  <1> USE DEF SistemaTypeOK, NotasTypeOK, EmissaoTypeOK
  <1>0. ASSUME NEW n \in Notas,
               NEW f \in {"recibo", "protocolo", "pendente", "fim"},
               Passar(n, f)
        PROVE  /\ emissao' \in [Notas -> Pipeline]
               /\ emissao'[n].fase = f
               /\ \A m \in Notas : m # n => emissao'[m] = emissao[m]
    BY <1>0, ReciboMaxAssumption DEF Passar, Pipeline
  <1>a. ASSUME NEW n \in Notas, NEW c \in Desfechos \union {"105"},
               sefaz' = [sefaz EXCEPT ![n].cstat = c]
        PROVE  /\ sefaz' \in [Notas -> Registro]
               /\ sefaz'[n].cstat = c
               /\ sefaz'[n].eventos = sefaz[n].eventos
               /\ \A m \in Notas : m # n => sefaz'[m] = sefaz[m]
    BY <1>a, DesfechosAssumption DEF Registro
  <1>1. ASSUME NEW n \in Notas, EnviarSincrono(n)
        PROVE  SoMexeEm(n) /\ EmissaoEnvia(n)
    <2>1. PICK c \in Desfechos : sefaz' = [sefaz EXCEPT ![n].cstat = c]
      BY <1>1 DEF EnviarSincrono
    <2>2. /\ sefaz' \in [Notas -> Registro]
          /\ sefaz'[n].cstat = c
          /\ sefaz'[n].eventos = sefaz[n].eventos
          /\ \A m \in Notas : m # n => sefaz'[m] = sefaz[m]
      BY <1>a, <2>1
    <2>3. /\ emissao' \in [Notas -> Pipeline]
          /\ emissao'[n].fase = "protocolo"
          /\ \A m \in Notas : m # n => emissao'[m] = emissao[m]
      BY <1>0, <1>1 DEF EnviarSincrono
    <2>4. QED BY <1>1, <2>2, <2>3 DEF EnviarSincrono, SoMexeEm, EmissaoEnvia
  <1>2. ASSUME NEW n \in Notas, EnviarAssincrono(n)
        PROVE  SoMexeEm(n) /\ EmissaoEnvia(n)
    BY <1>2, <1>0, <1>a DEF EnviarAssincrono, SoMexeEm, EmissaoEnvia
  <1>3. ASSUME NEW n \in Notas, Recusar(n)
        PROVE  SoMexeEm(n) /\ EmissaoEnvia(n)
    BY <1>3, <1>0 DEF Recusar, notasVars, SoMexeEm, EmissaoEnvia
  <1>4. ASSUME NEW n \in Notas, PerderResposta(n)
        PROVE  SoMexeEm(n) /\ EmissaoEnvia(n)
    BY <1>4, <1>0, <1>a DEF PerderResposta, SoMexeEm, EmissaoEnvia
  <1>5. ASSUME NEW n \in Notas, ReciboProcessado(n)
        PROVE  SoMexeEm(n) /\ EmissaoEspera(n)
    BY <1>5, <1>0 DEF ReciboProcessado, notasVars, SoMexeEm, EmissaoEspera
  <1>6. ASSUME NEW n \in Notas, ReciboSemResposta(n)
        PROVE  SoMexeEm(n) /\ EmissaoEspera(n)
    <2>1. /\ emissao' \in [Notas -> Pipeline]
          /\ emissao'[n].fase \in {"recibo", "pendente"}
          /\ \A m \in Notas : m # n => emissao'[m] = emissao[m]
      <3>1. CASE Passar(n, "pendente")
        BY <3>1, <1>0
      <3>2. CASE /\ emissao[n].tentativa < ReciboMax
                 /\ emissao' = [emissao EXCEPT ![n].tentativa = @ + 1]
        <4>1. emissao[n] \in Pipeline
          OBVIOUS
        <4>2. emissao[n].tentativa + 1 \in 1..ReciboMax
          BY <3>2, <4>1, ReciboMaxAssumption DEF Pipeline
        <4>3. [emissao[n] EXCEPT !.tentativa = @ + 1] \in Pipeline
              /\ [emissao[n] EXCEPT !.tentativa = @ + 1].fase = "recibo"
          BY <1>6, <4>1, <4>2 DEF Pipeline, ReciboSemResposta
        <4>4. QED BY <3>2, <4>3
      <3>3. QED BY <1>6, <3>1, <3>2 DEF ReciboSemResposta
    <2>2. QED BY <1>6, <2>1
          DEF ReciboSemResposta, notasVars, SoMexeEm, EmissaoEspera
  <1>7. ASSUME NEW n \in Notas, ReciboErroDoLote(n)
        PROVE  SoMexeEm(n) /\ EmissaoEspera(n)
    BY <1>7, <1>0 DEF ReciboErroDoLote, notasVars, SoMexeEm, EmissaoEspera
  <1>8. ASSUME NEW n \in Notas, PersistirResultado(n)
        PROVE  SoMexeEm(n) /\ EmissaoGrava(n)
    <2> DEFINE l == [LinhaAusente EXCEPT
                       !.status = StatusDaEmissao(sefaz[n].cstat),
                       !.protocolo = sefaz[n].cstat # "5xx"]
    <2>1. /\ l \in Linha
          /\ l.status = StatusDaEmissao(sefaz[n].cstat)
          /\ l.eventos = {}
      BY DEF LinhaAusente, Linha, Status, Finais, StatusDaEmissao
    <2>2. linha' = [linha EXCEPT ![n] = l]
      BY <1>8 DEF PersistirResultado
    <2> HIDE DEF l
    <2>3. QED BY <1>8, <1>0, <2>1, <2>2
          DEF PersistirResultado, SoMexeEm, EmissaoGrava
  <1>9. ASSUME NEW n \in Notas, PersistirProcessando(n)
        PROVE  SoMexeEm(n) /\ EmissaoGrava(n)
    <2> DEFINE l == [LinhaAusente EXCEPT !.status = "PROCESSANDO",
                                         !.recibo = TRUE]
    <2>1. l \in Linha /\ l.status = "PROCESSANDO" /\ l.recibo /\ l.eventos = {}
      BY DEF LinhaAusente, Linha, Status, Finais
    <2>2. linha' = [linha EXCEPT ![n] = l]
      BY <1>9 DEF PersistirProcessando
    <2> HIDE DEF l
    <2>3. QED BY <1>9, <1>0, <2>1, <2>2
          DEF PersistirProcessando, SoMexeEm, EmissaoGrava
  <1>10. ASSUME NEW n \in Notas, Cair(n) PROVE SoMexeEm(n) /\ EmissaoEspera(n)
    BY <1>10, <1>0 DEF Cair, notasVars, SoMexeEm, EmissaoEspera
  <1> HIDE DEF SistemaTypeOK, NotasTypeOK, EmissaoTypeOK
  <1>11. QED
    BY <1>1, <1>2, <1>3, <1>4, <1>5, <1>6, <1>7, <1>8, <1>9, <1>10
    DEF EmissaoNext, PassoDaEmissao

(* A step of the poller or of SEFAZ: what it does to one note.               *)
LEMMA EfeitoDoPoller ==
    ASSUME TypeOK, [Next]_vars, NEW m \in Notas
    PROVE  /\ linha'[m].eventos = linha[m].eventos
           /\ linha'[m].recibo = linha[m].recibo
           /\ \/ linha'[m].status = linha[m].status
              \/ \E p \in Pollers : /\ memoria[p][m] # "limpa"
                                    /\ linha'[m].status = memoria[p][m]
           /\ sefaz'[m].eventos = sefaz[m].eventos
           /\ \/ sefaz'[m].cstat = sefaz[m].cstat
              \/ sefaz[m].cstat = "105" /\ sefaz'[m].cstat \in Desfechos
  <1>1. /\ linha'[m].eventos = linha[m].eventos
        /\ linha'[m].recibo = linha[m].recibo
    <2>1. ASSUME NEW p \in Pollers, Commit(p)
          PROVE  /\ linha'[m].eventos = linha[m].eventos
                 /\ linha'[m].recibo = linha[m].recibo
      <3>1. linha[m] \in Linha
        BY DEF TypeOK, NotasTypeOK
      <3>2. linha'[m] \in {linha[m], [linha[m] EXCEPT !.status = memoria[p][m]]}
        BY <2>1 DEF Commit
      <3>3. QED BY <3>1, <3>2 DEF Linha
    <2>2. QED BY <2>1, QuemEscreve
          DEF Registrar, Concluir, ConsultarFinal, Interromper, notasVars
  <1>2. \/ linha'[m].status = linha[m].status
        \/ \E p \in Pollers : /\ memoria[p][m] # "limpa"
                              /\ linha'[m].status = memoria[p][m]
    BY OrigemDoStatus
  <1>3. /\ sefaz'[m].eventos = sefaz[m].eventos
        /\ \/ sefaz'[m].cstat = sefaz[m].cstat
           \/ sefaz[m].cstat = "105" /\ sefaz'[m].cstat \in Desfechos
    <2>1. ASSUME NEW k \in Notas, SefazProcessa(k)
          PROVE  /\ sefaz'[m].eventos = sefaz[m].eventos
                 /\ \/ sefaz'[m].cstat = sefaz[m].cstat
                    \/ sefaz[m].cstat = "105" /\ sefaz'[m].cstat \in Desfechos
      <3>1. PICK c \in Desfechos : sefaz' = [sefaz EXCEPT ![k].cstat = c]
        BY <2>1 DEF SefazProcessa
      <3>2. sefaz[m] \in Registro
        BY DEF TypeOK, NotasTypeOK
      <3>3. CASE k # m
        BY <3>1, <3>3, <3>2 DEF TypeOK, NotasTypeOK
      <3>4. CASE k = m
        <4>1. sefaz'[m] = [sefaz[m] EXCEPT !.cstat = c]
          BY <3>1, <3>4 DEF TypeOK, NotasTypeOK
        <4>2. sefaz'[m].cstat = c /\ sefaz'[m].eventos = sefaz[m].eventos
          BY <3>2, <4>1 DEF Registro
        <4>3. QED BY <2>1, <3>4, <4>2 DEF SefazProcessa
      <3>5. QED BY <3>3, <3>4
    <2>2. (\E k \in Notas : SefazProcessa(k)) \/ UNCHANGED sefaz
      BY Passos DEF Selecionar, ConsultarPendente, ConsultarIlegivel,
         ConsultarFinal, Postar, Registrar, Concluir, Interromper, Envelhecer,
         notasVars, vars
    <2>3. QED BY <2>1, <2>2
  <1>4. QED BY <1>1, <1>2, <1>3

(* What a session holds after a step it held before, or consulted a note of  *)
(* its batch; a batch is taken from the rows in PROCESSANDO.                 *)
LEMMA EfeitoNaSessao ==
    ASSUME TypeOK, [Next]_vars, NEW p \in Pollers, NEW m \in Notas
    PROVE  /\ m \in fila'[p] => m \in fila[p] \/ linha[m].status = "PROCESSANDO"
           /\ memoria'[p][m] # "limpa" =>
                 memoria[p][m] # "limpa" \/ m \in fila[p]
  <1> USE DEF TypeOK, PollerTypeOK
  <1>1. m \in fila'[p] => m \in fila[p] \/ linha[m].status = "PROCESSANDO"
    <2>1. ASSUME NEW q \in Pollers, Selecionar(q), m \in fila'[p]
          PROVE  m \in fila[p] \/ linha[m].status = "PROCESSANDO"
      BY <2>1 DEF Selecionar, Candidatas
    <2>2. ASSUME NEW q \in Pollers, NEW n \in Notas, Visitar(q, n)
          PROVE  fila'[p] \subseteq fila[p]
      BY <2>2 DEF Visitar
    <2>3. ASSUME NEW q \in Pollers, Interromper(q)
          PROVE  fila'[p] \subseteq fila[p]
      BY <2>3 DEF Interromper
    <2>4. ASSUME UNCHANGED fila PROVE fila'[p] \subseteq fila[p]
      BY <2>4
    <2> HIDE DEF TypeOK, PollerTypeOK
    <2>5. QED BY <2>1, <2>2, <2>3, <2>4, Passos DEF ConsultarPendente,
              ConsultarIlegivel, ConsultarFinal, Postar, Registrar, Concluir,
              Envelhecer, SefazProcessa, execVars, pollerVars, vars
  <1>2. memoria'[p][m] # "limpa" => memoria[p][m] # "limpa" \/ m \in fila[p]
    <2>1. ASSUME NEW q \in Pollers, Registrar(q) \/ Concluir(q),
                 memoria'[p][m] # "limpa"
          PROVE  memoria[p][m] # "limpa"
      BY <2>1, EfeitoDoCommit DEF Registrar, Concluir
    <2>2. ASSUME NEW q \in Pollers, NEW n \in Notas, ConsultarFinal(q, n)
          PROVE  memoria'[p][m] = memoria[p][m] \/ m \in fila[p]
      BY <2>2 DEF ConsultarFinal, Visitar
    <2>3. ASSUME NEW q \in Pollers, Interromper(q), memoria'[p][m] # "limpa"
          PROVE  memoria[p][m] # "limpa"
      BY <2>3 DEF Interromper, Limpa
    <2> HIDE DEF TypeOK, PollerTypeOK
    <2>4. QED BY <2>1, <2>2, <2>3, QuemEscreve
  <1>3. QED BY <1>1, <1>2

-----------------------------------------------------------------------------
LEMMA CartasFinitas ==
    ASSUME NEW S, IsFiniteSet(S)
    PROVE  IsFiniteSet(Cartas(S)) /\ Cardinality(Cartas(S)) \in Nat
  <1>1. Cartas(S) \subseteq S
    BY DEF Cartas
  <1>2. QED BY <1>1, FS_Subset, FS_CardinalityType

(* A request's step: it is sent, registered, abandoned or written.           *)
LEMMA PassosDoPedido ==
    ASSUME RespostaDaSefaz, EventosRegistrados, EventosNext
    PROVE  \/ \E r \in Pedidos, n \in Notas, e \in Evento :
                 /\ Enviar(r, n, e)
                 /\ \/ e.tp # "110110" /\ (e.tp = "110111" => e = Cancelamento)
                    \/ /\ e.tp = "110110"
                       /\ e.seq = Cardinality(Cartas(linha[n].eventos)) + 1
           \/ \E x \in pedidos : SefazRegistra(x)
           \/ \E x \in pedidos : Abandonar(x)
           \/ \E x \in pedidos : Gravar(x)
  <1>1. ASSUME NEW r \in Pedidos, NEW n \in Notas, NEW i \in BOOLEAN,
               PedirCancelamento(r, n, i)
        PROVE  /\ Enviar(r, n, Cancelamento)
               /\ Cancelamento \in Evento /\ Cancelamento.tp = "110111"
    BY <1>1, MaxSeqAssumption
    DEF PedirCancelamento, Cancelamento, Evento, TpEvento
  <1>2. ASSUME NEW r \in Pedidos, NEW n \in Notas, PedirOperacao(r, n)
        PROVE  \E e \in Evento : Enviar(r, n, e) /\ e.tp = "110112"
    BY <1>2, MaxSeqAssumption DEF PedirOperacao, Evento, TpEvento
  <1>3. ASSUME NEW r \in Pedidos, NEW n \in Notas, PedirCarta(r, n)
        PROVE  \E e \in Evento :
                  /\ Enviar(r, n, e)
                  /\ e.tp = "110110"
                  /\ e.seq = Cardinality(Cartas(linha[n].eventos)) + 1
    <2> DEFINE k == Cardinality(Cartas(linha[n].eventos)) + 1
    <2>1. IsFiniteSet(linha[n].eventos)
      BY FS_Subset DEF RespostaDaSefaz, EventosRegistrados
    <2>2. k \in Nat \ {0}
      BY <2>1, CartasFinitas
    <2>3. k <= MaxSeq /\ Enviar(r, n, [tp |-> "110110", seq |-> k])
      BY <1>3 DEF PedirCarta
    <2> HIDE DEF k
    <2>4. [tp |-> "110110", seq |-> k] \in Evento
      BY <2>2, <2>3, MaxSeqAssumption DEF Evento, TpEvento
    <2> USE DEF k
    <2>5. QED BY <2>3, <2>4
  <1>4. QED BY <1>1, <1>2, <1>3 DEF EventosNext
(* The event handlers' effect on what everyone shares, and its types.        *)
LEMMA TipoDoEvento ==
    ASSUME SistemaTypeOK, RespostaDaSefaz, EventosRegistrados, EventosNext
    PROVE  NotasTypeOK' /\ EventosTypeOK'
  <1> USE DEF SistemaTypeOK, NotasTypeOK, EventosTypeOK
  <1>1. ASSUME NEW r \in Pedidos, NEW n \in Notas, NEW e \in Evento,
               Enviar(r, n, e)
        PROVE  NotasTypeOK' /\ EventosTypeOK'
    <2>1. linha[n].eventos \in SUBSET Evento
      BY DEF Linha
    <2>2. [id |-> r, fase |-> "sefaz", nota |-> n, evento |-> e,
           lidos |-> linha[n].eventos] \in Pedido
      BY <2>1 DEF Pedido
    <2>3. QED BY <1>1, <2>2 DEF Enviar, notasVars
  <1>2. ASSUME NEW x \in pedidos, SefazRegistra(x)
        PROVE  NotasTypeOK' /\ EventosTypeOK'
    <2>1. [x EXCEPT !.fase = "aceito"] \in Pedido /\ x.nota \in Notas
            /\ x.evento \in Evento
      BY DEF Pedido
    <2>2. sefaz' = [sefaz EXCEPT ![x.nota].eventos = @ \union {x.evento}]
      BY <1>2 DEF SefazRegistra
    <2>3. sefaz' \in [Notas -> Registro]
      BY <2>1, <2>2 DEF Registro
    <2>4. QED BY <1>2, <2>1, <2>3 DEF SefazRegistra
  <1>3. ASSUME NEW x \in pedidos, Abandonar(x)
        PROVE  NotasTypeOK' /\ EventosTypeOK'
    BY <1>3 DEF Abandonar, notasVars
  <1>4. ASSUME NEW x \in pedidos, Gravar(x)
        PROVE  NotasTypeOK' /\ EventosTypeOK'
    <2>1. /\ x.nota \in Notas /\ x.evento \in Evento
          /\ x.lidos \in SUBSET Evento
      BY DEF Pedido
    <2>2. linha' \in [Notas -> Linha]
      BY <1>4, <2>1 DEF Gravar, Linha, Status
    <2>3. QED BY <1>4, <2>2 DEF Gravar
  <1> HIDE DEF SistemaTypeOK, NotasTypeOK, EventosTypeOK
  <1>5. QED BY <1>1, <1>2, <1>3, <1>4, PassosDoPedido

LEMMA EfeitoDoEvento ==
    ASSUME SistemaTypeOK, RespostaDaSefaz, EventosRegistrados, EventosNext,
           NEW m \in Notas
    PROVE  /\ sefaz'[m].cstat = sefaz[m].cstat
           /\ sefaz[m].eventos \subseteq sefaz'[m].eventos
           /\ linha'[m].recibo = linha[m].recibo
           /\ \/ linha'[m].status = linha[m].status
              \/ /\ linha'[m].status = "CANCELADA"
                 /\ \E x \in pedidos : /\ x.nota = m /\ x.fase = "aceito"
                                       /\ x.evento.tp = "110111"
           /\ \/ linha'[m].eventos = linha[m].eventos
              \/ \E x \in pedidos :
                    /\ x.nota = m /\ x.fase = "aceito"
                    /\ linha'[m].eventos = x.lidos \union {x.evento}
  <1> USE DEF SistemaTypeOK, NotasTypeOK, EventosTypeOK
  <1>1. ASSUME UNCHANGED notasVars
        PROVE  linha'[m] = linha[m] /\ sefaz'[m] = sefaz[m]
    BY <1>1 DEF notasVars
  <1>2. ASSUME NEW x \in pedidos, SefazRegistra(x)
        PROVE  /\ linha'[m] = linha[m] /\ sefaz'[m].cstat = sefaz[m].cstat
               /\ sefaz[m].eventos \subseteq sefaz'[m].eventos
    <2>1. sefaz[m] \in Registro /\ x.nota \in Notas
      BY DEF Pedido
    <2>2. sefaz'[m] \in {sefaz[m],
                         [sefaz[m] EXCEPT !.eventos = @ \union {x.evento}]}
      BY <1>2, <2>1 DEF SefazRegistra
    <2>3. QED BY <1>2, <2>1, <2>2 DEF SefazRegistra, Registro
  <1>3. ASSUME NEW x \in pedidos, Gravar(x), x.nota # m
        PROVE  linha'[m] = linha[m] /\ sefaz'[m] = sefaz[m]
    BY <1>3 DEF Gravar
  <1>4. ASSUME NEW x \in pedidos, Gravar(x), x.nota = m
        PROVE  /\ sefaz'[m] = sefaz[m] /\ linha'[m].recibo = linha[m].recibo
               /\ x.fase = "aceito"
               /\ \/ linha'[m].status = linha[m].status
                  \/ linha'[m].status = "CANCELADA" /\ x.evento.tp = "110111"
               /\ linha'[m].eventos = x.lidos \union {x.evento}
    <2>1. linha[m] \in Linha
      OBVIOUS
    <2>2. linha'[m] = [linha[m] EXCEPT
              !.status = IF x.evento.tp = "110111" THEN "CANCELADA" ELSE @,
              !.eventos = x.lidos \union {x.evento}]
      BY <1>4 DEF Gravar
    <2>3. QED BY <1>4, <2>1, <2>2 DEF Gravar, Linha
  <1> HIDE DEF SistemaTypeOK, NotasTypeOK, EventosTypeOK
  <1>5. QED
    BY <1>1, <1>2, <1>3, <1>4, PassosDoPedido DEF Enviar, Abandonar

-----------------------------------------------------------------------------
(* What no step takes back: a row once written, SEFAZ's decision, the events *)
(* it registered.                                                            *)
LEMMA NadaVolta ==
    ASSUME SistemaTypeOK, EtapaDaEmissao, RespostaDaSefaz, EventosRegistrados,
           MemoriaDoProtocolo, [SistemaNext]_sistemaVars, NEW m \in Notas
    PROVE  /\ linha[m].status # "AUSENTE" => linha'[m].status # "AUSENTE"
           /\ sefaz[m].cstat # "nada" => sefaz'[m].cstat # "nada"
           /\ sefaz[m].cstat \in CStatFinal => sefaz'[m].cstat = sefaz[m].cstat
           /\ sefaz[m].eventos \subseteq sefaz'[m].eventos
  <1>1. CASE [Next]_vars
    <2>1. ASSUME NEW p \in Pollers, memoria[p][m] # "limpa"
          PROVE  memoria[p][m] # "AUSENTE"
      BY <2>1, MapearEFinal DEF MemoriaDoProtocolo, Finais
    <2>2. QED BY <1>1, <2>1, EfeitoDoPoller, TipoDoPoller, DesfechosAssumption
          DEF CStatFinal, CStatAutoriza
  <1>2. CASE EmissaoNext
    <2>1. PICK n \in Notas : PassoDaEmissao(n)
      BY <1>2, EfeitoDaEmissao
    <2>2. CASE m # n
      BY <2>1, <2>2 DEF PassoDaEmissao, SoMexeEm
    <2>3. CASE m = n
      BY <2>1, <2>3, DesfechosAssumption
      DEF PassoDaEmissao, SoMexeEm, EmissaoEnvia, EmissaoEspera, EmissaoGrava,
          EtapaDaEmissao,
          CStatFinal, CStatAutoriza
    <2>4. QED BY <2>2, <2>3
  <1>3. CASE EventosNext
    BY <1>3, EfeitoDoEvento
  <1>4. QED BY <1>1, <1>2, <1>3, ModoDoPasso

LEMMA TipoInv ==
    ASSUME SistemaTypeOK, RespostaDaSefaz, EventosRegistrados,
           [SistemaNext]_sistemaVars
    PROVE  SistemaTypeOK'
  <1>1. CASE [Next]_vars /\ UNCHANGED <<emissao, pedidos>>
    <2>1. TypeOK'
      BY <1>1, TipoDoPoller, NextTypeOK
    <2>2. EmissaoTypeOK' /\ EventosTypeOK'
      BY <1>1 DEF SistemaTypeOK, EmissaoTypeOK, EventosTypeOK
    <2>3. QED BY <2>1, <2>2 DEF SistemaTypeOK, TypeOK
  <1>2. CASE EmissaoNext /\ UNCHANGED <<pedidos, pollerVars>>
    <2>1. NotasTypeOK' /\ EmissaoTypeOK'
      BY <1>2, EfeitoDaEmissao
      DEF PassoDaEmissao, SoMexeEm, SistemaTypeOK, NotasTypeOK, EmissaoTypeOK
    <2>2. EventosTypeOK' /\ PollerTypeOK'
      BY <1>2 DEF SistemaTypeOK, EventosTypeOK, PollerTypeOK, pollerVars,
         execVars, logVars
    <2>3. QED BY <2>1, <2>2 DEF SistemaTypeOK
  <1>3. CASE EventosNext /\ UNCHANGED <<emissao, pollerVars>>
    <2>1. NotasTypeOK' /\ EventosTypeOK'
      BY <1>3, TipoDoEvento
    <2>2. EmissaoTypeOK' /\ PollerTypeOK'
      BY <1>3 DEF SistemaTypeOK, EmissaoTypeOK, PollerTypeOK, pollerVars,
         execVars, logVars
    <2>3. QED BY <2>1, <2>2 DEF SistemaTypeOK
  <1>4. QED BY <1>1, <1>2, <1>3, ModoDoPasso
LEMMA EtapaInv ==
    ASSUME SistemaTypeOK, EtapaDaEmissao, RespostaDaSefaz, EventosRegistrados,
           MemoriaDoProtocolo, ComLinha, [SistemaNext]_sistemaVars
    PROVE  EtapaDaEmissao'
  <1> SUFFICES ASSUME NEW m \in Notas
        PROVE  /\ emissao'[m].fase = "nova" => sefaz'[m].cstat = "nada"
               /\ emissao'[m].fase \in {"recibo", "pendente"} =>
                     sefaz'[m].cstat # "nada"
               /\ emissao'[m].fase = "protocolo" =>
                     sefaz'[m].cstat \in CStatFinal
               /\ emissao'[m].fase # "fim" => linha'[m].status = "AUSENTE"
    BY DEF EtapaDaEmissao
  <1>1. CASE [Next]_vars /\ UNCHANGED <<emissao, pedidos>>
    <2>1. linha[m].status = "AUSENTE" => linha'[m].status = "AUSENTE"
      BY <1>1, EfeitoDoPoller, TipoDoPoller DEF ComLinha
    <2>2. sefaz[m].cstat = "nada" => sefaz'[m].cstat = "nada"
      BY <1>1, EfeitoDoPoller, TipoDoPoller
    <2>3. QED BY <1>1, <2>1, <2>2, NadaVolta DEF EtapaDaEmissao
  <1>2. CASE EmissaoNext
    <2>1. PICK n \in Notas : PassoDaEmissao(n)
      BY <1>2, EfeitoDaEmissao
    <2>2. CASE m # n
      BY <2>1, <2>2 DEF PassoDaEmissao, SoMexeEm, EtapaDaEmissao
    <2>3. CASE m = n /\ EmissaoEnvia(n)
      BY <2>1, <2>3, DesfechosAssumption
      DEF PassoDaEmissao, SoMexeEm, EmissaoEnvia, EtapaDaEmissao, CStatFinal,
          CStatAutoriza
    <2>4. CASE m = n /\ (EmissaoEspera(n) \/ EmissaoGrava(n))
      BY <2>1, <2>4
      DEF PassoDaEmissao, SoMexeEm, EmissaoEspera, EmissaoGrava, EtapaDaEmissao
    <2>5. QED BY <2>1, <2>2, <2>3, <2>4 DEF PassoDaEmissao
  <1>3. CASE EventosNext /\ UNCHANGED <<emissao, pollerVars>>
    <2>1. linha[m].status = "AUSENTE" => linha'[m].status = "AUSENTE"
      BY <1>3, EfeitoDoEvento DEF ComLinha
    <2>2. QED BY <1>3, <2>1, EfeitoDoEvento DEF EtapaDaEmissao
  <1>4. QED BY <1>1, <1>2, <1>3, ModoDoPasso

LEMMA RespostaInv ==
    ASSUME SistemaTypeOK, EtapaDaEmissao, RespostaDaSefaz, EventosRegistrados,
           [SistemaNext]_sistemaVars
    PROVE  RespostaDaSefaz'
  <1> SUFFICES ASSUME NEW m \in Notas
        PROVE  /\ sefaz'[m].cstat \in Desfechos \union {"nada", "105"}
               /\ sefaz'[m].eventos # {} => sefaz'[m].cstat \in CStatAutoriza
               /\ IsFiniteSet(sefaz'[m].eventos)
    BY DEF RespostaDaSefaz, Autorizada
  <1>1. CASE [Next]_vars
    BY <1>1, EfeitoDoPoller, TipoDoPoller
    DEF RespostaDaSefaz, Autorizada, CStatAutoriza
  <1>2. CASE EmissaoNext
    <2>1. ASSUME emissao[m].fase = "nova" PROVE sefaz[m].eventos = {}
      BY <2>1 DEF EtapaDaEmissao, RespostaDaSefaz, Autorizada, CStatAutoriza
    <2>2. PICK n \in Notas : PassoDaEmissao(n)
      BY <1>2, EfeitoDaEmissao
    <2>3. CASE m # n
      BY <2>2, <2>3 DEF PassoDaEmissao, SoMexeEm, RespostaDaSefaz, Autorizada
    <2>4. CASE m = n
      BY <2>1, <2>2, <2>4
      DEF PassoDaEmissao, SoMexeEm, EmissaoEnvia, EmissaoEspera,
         EmissaoGrava, RespostaDaSefaz, Autorizada
    <2>5. QED BY <2>3, <2>4
  <1>3. CASE EventosNext
    <2>1. ASSUME NEW x \in pedidos, SefazRegistra(x)
          PROVE  /\ sefaz'[m].eventos # {} => sefaz'[m].cstat \in CStatAutoriza
                 /\ IsFiniteSet(sefaz'[m].eventos)
      <3>1. sefaz[m] \in Registro /\ x.nota \in Notas
        BY DEF SistemaTypeOK, NotasTypeOK, EventosTypeOK, Pedido
      <3>2. CASE x.nota # m
        <4>1. sefaz'[m] = sefaz[m]
          BY <2>1, <3>1, <3>2 DEF SefazRegistra, SistemaTypeOK, NotasTypeOK
        <4>2. QED BY <4>1 DEF RespostaDaSefaz, Autorizada
      <3>3. CASE x.nota = m
        <4>1. sefaz'[m] = [sefaz[m] EXCEPT !.eventos = @ \union {x.evento}]
          BY <2>1, <3>1, <3>3 DEF SefazRegistra, SistemaTypeOK, NotasTypeOK
        <4>2. /\ sefaz'[m].eventos = sefaz[m].eventos \union {x.evento}
              /\ sefaz'[m].cstat = sefaz[m].cstat
          BY <3>1, <4>1 DEF Registro
        <4>3. IsFiniteSet(sefaz'[m].eventos)
          <5>1. IsFiniteSet(sefaz[m].eventos)
            BY DEF RespostaDaSefaz
          <5>2. IsFiniteSet(sefaz[m].eventos \union {x.evento})
            BY <5>1, FS_AddElement
          <5>3. QED BY <4>2, <5>2
        <4>4. QED BY <2>1, <3>3, <4>2, <4>3 DEF SefazRegistra, Autorizada
      <3>4. QED BY <3>2, <3>3
    <2>2. ASSUME UNCHANGED sefaz
          PROVE  /\ sefaz'[m].eventos # {} => sefaz'[m].cstat \in CStatAutoriza
                 /\ IsFiniteSet(sefaz'[m].eventos)
      BY <2>2 DEF RespostaDaSefaz, Autorizada
    <2>3. sefaz'[m].cstat = sefaz[m].cstat
      BY <1>3, EfeitoDoEvento
    <2>4. QED BY <1>3, <2>1, <2>2, <2>3, PassosDoPedido
          DEF Enviar, Abandonar, Gravar, notasVars, RespostaDaSefaz
  <1>4. QED BY <1>1, <1>2, <1>3, ModoDoPasso DEF RespostaDaSefaz

LEMMA ComLinhaInv ==
    ASSUME SistemaTypeOK, EtapaDaEmissao, RespostaDaSefaz, EventosRegistrados,
           MemoriaDoProtocolo, ComLinha, [SistemaNext]_sistemaVars
    PROVE  ComLinha'
  <1>1. \A p \in Pollers : \A n \in fila'[p] :
            n \in Notas /\ linha[n].status # "AUSENTE"
    <2>1. CASE [Next]_vars
      <3>1. \A p \in Pollers : fila'[p] \subseteq Notas
        BY <2>1, TipoDoPoller, NextTypeOK DEF TypeOK, PollerTypeOK
      <3>2. QED BY <2>1, <3>1, EfeitoNaSessao, TipoDoPoller DEF ComLinha
    <2>2. CASE UNCHANGED pollerVars
      BY <2>2 DEF ComLinha, pollerVars, execVars, SistemaTypeOK, PollerTypeOK
    <2>3. QED BY <2>1, <2>2, ModoDoPasso
  <1>2. \A p \in Pollers, n \in Notas :
            memoria'[p][n] # "limpa" => linha[n].status # "AUSENTE"
    <2>1. CASE [Next]_vars
      BY <2>1, EfeitoNaSessao, TipoDoPoller DEF ComLinha
    <2>2. CASE UNCHANGED pollerVars
      BY <2>2 DEF ComLinha, pollerVars
    <2>3. QED BY <2>1, <2>2, ModoDoPasso
  <1>3. \A x \in pedidos' : x.nota \in Notas /\ linha[x.nota].status # "AUSENTE"
    <2>0. \A x \in pedidos : x.nota \in Notas
      BY DEF SistemaTypeOK, EventosTypeOK, Pedido
    <2>1. ASSUME NEW r \in Pedidos, NEW n \in Notas, NEW e \in Evento,
                 Enviar(r, n, e)
          PROVE  \A x \in pedidos' :
                    x.nota \in Notas /\ linha[x.nota].status # "AUSENTE"
      BY <2>0, <2>1 DEF Enviar, ComLinha
    <2>2. ASSUME NEW x \in pedidos, SefazRegistra(x)
          PROVE  \A y \in pedidos' :
                    y.nota \in Notas /\ linha[y.nota].status # "AUSENTE"
      <3>1. [x EXCEPT !.fase = "aceito"].nota = x.nota
        BY DEF SistemaTypeOK, EventosTypeOK, Pedido
      <3>2. QED BY <2>0, <2>2, <3>1 DEF SefazRegistra, ComLinha
    <2>3. ASSUME pedidos' \subseteq pedidos
          PROVE  \A x \in pedidos' :
                    x.nota \in Notas /\ linha[x.nota].status # "AUSENTE"
      BY <2>0, <2>3 DEF ComLinha
    <2>4. QED BY <2>1, <2>2, <2>3, ModoDoPasso, PassosDoPedido
          DEF Abandonar, Gravar
  <1>4. QED BY <1>1, <1>2, <1>3, NadaVolta DEF ComLinha

LEMMA MemoriaInv ==
    ASSUME SistemaTypeOK, EtapaDaEmissao, RespostaDaSefaz, EventosRegistrados,
           MemoriaDoProtocolo, [SistemaNext]_sistemaVars
    PROVE  MemoriaDoProtocolo'
  <1>1. CASE [Next]_vars
    BY <1>1, TipoDoPoller, MemoriaDoProtocoloInv
  <1>2. CASE UNCHANGED pollerVars
    <2>1. memoria' = memoria
      BY <1>2 DEF pollerVars
    <2>2. QED BY <2>1, NadaVolta DEF MemoriaDoProtocolo, MapearStatusFinal
  <1>3. QED BY <1>1, <1>2, ModoDoPasso
-----------------------------------------------------------------------------
(* Where a row's new status comes from: a session's memory, an emission's    *)
(* protocol or receipt, or an accepted cancellation.                         *)
LEMMA OrigemDoNovoStatus ==
    ASSUME SistemaTypeOK, EtapaDaEmissao, RespostaDaSefaz, EventosRegistrados,
           MemoriaDoProtocolo, [SistemaNext]_sistemaVars, NEW m \in Notas
    PROVE  \/ /\ linha'[m].status = linha[m].status
              /\ linha'[m].recibo = linha[m].recibo
           \/ /\ sefaz[m].cstat \in CStatFinal
              /\ linha'[m].status \in {MapearStatusFinal(sefaz[m].cstat),
                                      StatusDaEmissao(sefaz[m].cstat)}
           \/ /\ sefaz[m].cstat # "nada"
              /\ linha'[m].status = "PROCESSANDO" /\ linha'[m].recibo
           \/ /\ linha'[m].status = "CANCELADA"
              /\ \E x \in pedidos : /\ x.nota = m /\ x.fase = "aceito"
                                    /\ x.evento.tp = "110111"
  <1>1. CASE [Next]_vars
    BY <1>1, EfeitoDoPoller, TipoDoPoller DEF MemoriaDoProtocolo
  <1>2. CASE EmissaoNext
    <2>1. PICK n \in Notas : PassoDaEmissao(n)
      BY <1>2, EfeitoDaEmissao
    <2>2. CASE m # n
      BY <2>1, <2>2 DEF PassoDaEmissao, SoMexeEm
    <2>3. CASE m = n /\ EmissaoGrava(n)
      BY <2>1, <2>3 DEF EmissaoGrava, EtapaDaEmissao
    <2>4. CASE EmissaoEnvia(n) \/ EmissaoEspera(n)
      BY <2>4 DEF EmissaoEnvia, EmissaoEspera
    <2>5. QED BY <2>1, <2>2, <2>3, <2>4 DEF PassoDaEmissao
  <1>3. CASE EventosNext
    BY <1>3, EfeitoDoEvento
  <1>4. QED BY <1>1, <1>2, <1>3, ModoDoPasso

LEMMA StatusDaEmissaoEFinal ==
    ASSUME NEW c
    PROVE  /\ StatusDaEmissao(c) \in {"AUTORIZADA", "REJEITADA"}
           /\ StatusDaEmissao(c) = "AUTORIZADA" <=> c \in CStatAutoriza
           /\ MapearStatusFinal(c) = "AUTORIZADA" => c \in CStatAutoriza
  BY DEF StatusDaEmissao, MapearStatusFinal, CStatAutoriza

LEMMA DecididaInv ==
    ASSUME SistemaTypeOK, EtapaDaEmissao, RespostaDaSefaz, EventosRegistrados,
           MemoriaDoProtocolo, DecididaNaSefaz, [SistemaNext]_sistemaVars
    PROVE  DecididaNaSefaz'
  <1> SUFFICES ASSUME NEW m \in Notas, linha'[m].status \in Finais
               PROVE  sefaz[m].cstat \in CStatFinal
    BY NadaVolta DEF DecididaNaSefaz
  <1>1. QED BY OrigemDoNovoStatus DEF DecididaNaSefaz, Finais

LEMMA PendenteInv ==
    ASSUME SistemaTypeOK, EtapaDaEmissao, RespostaDaSefaz, EventosRegistrados,
           MemoriaDoProtocolo, PendenteTemLote, [SistemaNext]_sistemaVars
    PROVE  PendenteTemLote'
  <1> SUFFICES ASSUME NEW m \in Notas, linha'[m].status = "PROCESSANDO"
               PROVE  linha'[m].recibo /\ sefaz[m].cstat # "nada"
    BY NadaVolta DEF PendenteTemLote
  <1>1. "PROCESSANDO" \notin {MapearStatusFinal(sefaz[m].cstat),
                              StatusDaEmissao(sefaz[m].cstat)}
    BY MapearEFinal, StatusDaEmissaoEFinal DEF Finais
  <1>2. QED BY <1>1, OrigemDoNovoStatus DEF PendenteTemLote

LEMMA ConfirmadoInv ==
    ASSUME SistemaTypeOK, EtapaDaEmissao, RespostaDaSefaz, EventosRegistrados,
           MemoriaDoProtocolo, PedidosCoerentes, StatusConfirmado,
           [SistemaNext]_sistemaVars
    PROVE  StatusConfirmado'
  <1> SUFFICES ASSUME NEW m \in Notas
        PROVE  /\ linha'[m].status = "AUTORIZADA" => Autorizada(m)
               /\ linha'[m].status = "CANCELADA" =>
                     Autorizada(m) /\ CanceladaNaSefaz(m)
    BY NadaVolta DEF StatusConfirmado, Autorizada, CanceladaNaSefaz, CStatFinal
  <1>1. CASE linha'[m].status = "AUTORIZADA"
    BY <1>1, OrigemDoNovoStatus, StatusDaEmissaoEFinal
    DEF StatusConfirmado, Autorizada
  <1>2. CASE linha'[m].status = "CANCELADA"
    <2>1. "CANCELADA" \notin {MapearStatusFinal(sefaz[m].cstat),
                              StatusDaEmissao(sefaz[m].cstat)}
      BY MapearEFinal, StatusDaEmissaoEFinal DEF Finais
    <2>2. CASE linha[m].status = "CANCELADA"
      BY <2>2 DEF StatusConfirmado
    <2>3. CASE linha[m].status # "CANCELADA"
      <3>1. PICK x \in pedidos : /\ x.nota = m /\ x.fase = "aceito"
                                 /\ x.evento.tp = "110111"
        BY <1>2, <2>1, <2>3, OrigemDoNovoStatus
      <3>2. CanceladaNaSefaz(m)
        BY <3>1 DEF PedidosCoerentes, CanceladaNaSefaz
      <3>3. QED BY <3>2 DEF RespostaDaSefaz, CanceladaNaSefaz
    <2>4. QED BY <2>2, <2>3
  <1>3. QED BY <1>1, <1>2

LEMMA RegistradosInv ==
    ASSUME SistemaTypeOK, EtapaDaEmissao, RespostaDaSefaz, EventosRegistrados,
           MemoriaDoProtocolo, PedidosCoerentes, [SistemaNext]_sistemaVars
    PROVE  EventosRegistrados'
  <1> SUFFICES ASSUME NEW m \in Notas
               PROVE  linha'[m].eventos \subseteq sefaz[m].eventos
    BY NadaVolta DEF EventosRegistrados
  <1>1. CASE [Next]_vars
    BY <1>1, EfeitoDoPoller, TipoDoPoller DEF EventosRegistrados
  <1>2. CASE EmissaoNext
    <2>1. PICK n \in Notas : PassoDaEmissao(n)
      BY <1>2, EfeitoDaEmissao
    <2>2. linha'[m] = linha[m] \/ linha'[m].eventos = {}
      BY <2>1 DEF PassoDaEmissao, SoMexeEm, EmissaoEnvia, EmissaoEspera,
         EmissaoGrava
    <2>3. QED BY <2>2 DEF EventosRegistrados
  <1>3. CASE EventosNext
    <2>1. CASE linha'[m].eventos = linha[m].eventos
      BY <2>1 DEF EventosRegistrados
    <2>2. ASSUME NEW x \in pedidos, x.nota = m, x.fase = "aceito",
                 linha'[m].eventos = x.lidos \union {x.evento}
          PROVE  linha'[m].eventos \subseteq sefaz[m].eventos
      BY <2>2 DEF PedidosCoerentes
    <2>3. QED BY <1>3, <2>1, <2>2, EfeitoDoEvento
  <1>4. QED BY <1>1, <1>2, <1>3, ModoDoPasso
-----------------------------------------------------------------------------
(* More events, at least as many letters.                                    *)
LEMMA CartasMonotonas ==
    ASSUME NEW S, NEW T, S \subseteq T, IsFiniteSet(T)
    PROVE  /\ Cardinality(Cartas(S)) \in Nat
           /\ Cardinality(Cartas(T)) \in Nat
           /\ Cardinality(Cartas(S)) <= Cardinality(Cartas(T))
  <1>1. Cartas(S) \subseteq Cartas(T)
    BY DEF Cartas
  <1>2. IsFiniteSet(Cartas(T)) /\ IsFiniteSet(S)
    BY CartasFinitas, FS_Subset
  <1>3. QED BY <1>1, <1>2, CartasFinitas, FS_Subset

LEMMA PedidosInv ==
    ASSUME SistemaTypeOK, EtapaDaEmissao, RespostaDaSefaz, EventosRegistrados,
           MemoriaDoProtocolo, PedidosCoerentes, [SistemaNext]_sistemaVars
    PROVE  PedidosCoerentes'
  <1> DEFINE Lugar(y) ==
        /\ y.evento.tp = "110111" => y.evento = Cancelamento
        /\ y.evento.tp = "110110" =>
              y.evento.seq <= Cardinality(Cartas(sefaz[y.nota].eventos)) + 1
  <1> SUFFICES ASSUME NEW y \in pedidos'
        PROVE  /\ y.lidos \subseteq sefaz'[y.nota].eventos
               /\ y.fase = "aceito" => y.evento \in sefaz'[y.nota].eventos
               /\ y.evento.tp = "110111" => y.evento = Cancelamento
               /\ y.evento.tp = "110110" => y.evento.seq <=
                     Cardinality(Cartas(sefaz'[y.nota].eventos)) + 1
    BY DEF PedidosCoerentes, Cartas, Cancelamento
  <1>1. y \in Pedido /\ y.nota \in Notas /\ y.evento.seq \in Nat
    BY TipoInv DEF SistemaTypeOK, EventosTypeOK, Pedido, Evento
  <1>2. /\ sefaz[y.nota].eventos \subseteq sefaz'[y.nota].eventos
        /\ Cardinality(Cartas(sefaz[y.nota].eventos)) \in Nat
        /\ Cardinality(Cartas(sefaz'[y.nota].eventos)) \in Nat
        /\ Cardinality(Cartas(sefaz[y.nota].eventos)) <=
              Cardinality(Cartas(sefaz'[y.nota].eventos))
    <2>1. IsFiniteSet(sefaz'[y.nota].eventos)
      BY <1>1, RespostaInv DEF RespostaDaSefaz
    <2>2. sefaz[y.nota].eventos \subseteq sefaz'[y.nota].eventos
      BY <1>1, NadaVolta
    <2>3. QED BY <2>1, <2>2, CartasMonotonas
  <1>3. SUFFICES /\ y.lidos \subseteq sefaz[y.nota].eventos
                 /\ y.fase = "aceito" => y.evento \in sefaz'[y.nota].eventos
                 /\ Lugar(y)
    BY <1>1, <1>2
  <1>4. CASE y \in pedidos
    BY <1>2, <1>4 DEF PedidosCoerentes
  <1>5. CASE y \notin pedidos
    <2>1. EventosNext
      BY <1>5, ModoDoPasso
    <2>2. ASSUME NEW r \in Pedidos, NEW n \in Notas, NEW e \in Evento,
                 Enviar(r, n, e),
                 \/ e.tp # "110110" /\ (e.tp = "110111" => e = Cancelamento)
                 \/ /\ e.tp = "110110"
                    /\ e.seq = Cardinality(Cartas(linha[n].eventos)) + 1
          PROVE  /\ y.lidos \subseteq sefaz[y.nota].eventos
                 /\ y.fase = "aceito" => y.evento \in sefaz'[y.nota].eventos
                 /\ Lugar(y)
      <3>1. y = [id |-> r, fase |-> "sefaz", nota |-> n, evento |-> e,
                 lidos |-> linha[n].eventos]
        BY <1>5, <2>2 DEF Enviar
      <3>2. /\ y.fase = "sefaz" /\ y.nota = n /\ y.evento = e
            /\ y.lidos = linha[n].eventos
        BY <3>1
      <3>3. linha[n].eventos \subseteq sefaz[n].eventos
        BY DEF EventosRegistrados
      <3>4. IsFiniteSet(sefaz[n].eventos)
        BY DEF RespostaDaSefaz
      <3>5. /\ Cardinality(Cartas(linha[n].eventos)) \in Nat
            /\ Cardinality(Cartas(linha[n].eventos)) <=
                  Cardinality(Cartas(sefaz[n].eventos))
        BY <3>3, <3>4, CartasMonotonas
      <3>6. e.tp = "110110" =>
               e.seq <= Cardinality(Cartas(sefaz[n].eventos)) + 1
        BY <1>2, <2>2, <3>2, <3>5
      <3>7. e.tp = "110111" => e = Cancelamento
        BY <2>2
      <3>8. QED BY <3>2, <3>3, <3>6, <3>7
    <2>3. ASSUME NEW x \in pedidos, SefazRegistra(x)
          PROVE  /\ y.lidos \subseteq sefaz[y.nota].eventos
                 /\ y.fase = "aceito" => y.evento \in sefaz'[y.nota].eventos
                 /\ Lugar(y)
      <3>1. x \in Pedido /\ x.nota \in Notas
        BY DEF SistemaTypeOK, EventosTypeOK, Pedido
      <3>2. y = [x EXCEPT !.fase = "aceito"]
        BY <1>5, <2>3 DEF SefazRegistra
      <3>3. y.nota = x.nota /\ y.evento = x.evento /\ y.lidos = x.lidos
        BY <3>1, <3>2 DEF Pedido
      <3>4. sefaz'[x.nota] =
               [sefaz[x.nota] EXCEPT !.eventos = @ \union {x.evento}]
        BY <2>3, <3>1 DEF SefazRegistra, SistemaTypeOK, NotasTypeOK
      <3>5. sefaz[x.nota] \in Registro
        BY <3>1 DEF SistemaTypeOK, NotasTypeOK
      <3>6. x.evento \in sefaz'[x.nota].eventos
        BY <3>4, <3>5 DEF Registro
      <3>7. QED BY <3>3, <3>6 DEF PedidosCoerentes
    <2>4. QED BY <1>5, <2>1, <2>2, <2>3, PassosDoPedido DEF Abandonar, Gravar
  <1>6. QED BY <1>4, <1>5

(* A registered letter is the next one.                                      *)
LEMMA CartasInv ==
    ASSUME SistemaTypeOK, EtapaDaEmissao, RespostaDaSefaz, EventosRegistrados,
           MemoriaDoProtocolo, PedidosCoerentes, CartasSequenciais,
           [SistemaNext]_sistemaVars
    PROVE  CartasSequenciais'
  <1> DEFINE Seqs(S) == {e.seq : e \in Cartas(S)}
             Em(S) == Seqs(S) = 1..Cardinality(Cartas(S))
  <1> SUFFICES ASSUME NEW m \in Notas PROVE Em(sefaz'[m].eventos)
    BY DEF CartasSequenciais, Cartas
  <1>1. Em(sefaz[m].eventos)
    BY DEF CartasSequenciais
  <1>2. ASSUME NEW x \in pedidos, SefazRegistra(x), x.nota = m
        PROVE  Em(sefaz'[m].eventos)
    <2> DEFINE S == sefaz[m].eventos
               k == Cardinality(Cartas(S))
    <2>1. x \in Pedido /\ x.evento \in Evento
      BY DEF SistemaTypeOK, EventosTypeOK, Pedido
    <2>2. sefaz'[m] = [sefaz[m] EXCEPT !.eventos = @ \union {x.evento}]
      BY <1>2 DEF SefazRegistra, SistemaTypeOK, NotasTypeOK
    <2>3. sefaz[m] \in Registro /\ S \subseteq Evento
      BY DEF SistemaTypeOK, NotasTypeOK, Registro
    <2>4. sefaz'[m].eventos = S \union {x.evento} /\ x.evento \notin S
      BY <1>2, <2>2, <2>3 DEF Registro, SefazRegistra
    <2>5. CASE x.evento.tp # "110110"
      <3>1. Cartas(S \union {x.evento}) = Cartas(S)
        BY <2>5 DEF Cartas
      <3>2. QED BY <1>1, <2>4, <3>1
    <2>6. CASE x.evento.tp = "110110"
      <3>1. IsFiniteSet(Cartas(S)) /\ k \in Nat
        BY CartasFinitas DEF RespostaDaSefaz
      <3>2. Cartas(S \union {x.evento}) = Cartas(S) \union {x.evento}
        BY <2>6 DEF Cartas
      <3>3. x.evento \notin Cartas(S)
        BY <2>4 DEF Cartas
      <3>4. Cardinality(Cartas(S \union {x.evento})) = k + 1
        BY <3>1, <3>2, <3>3, FS_AddElement
      <3>5. x.evento.seq \in 1..(k + 1)
        BY <1>2, <2>1, <2>6, <3>1 DEF PedidosCoerentes, Evento
      <3>6. x.evento.seq \notin 1..k
        <4> SUFFICES ASSUME x.evento.seq \in 1..k PROVE FALSE
          OBVIOUS
        <4>1. PICK e \in Cartas(S) : e.seq = x.evento.seq
          BY <1>1
        <4>2. e \in Evento /\ e.tp = "110110" /\ e \in S
          BY <2>3 DEF Cartas
        <4>3. e = x.evento
          BY <2>1, <2>6, <4>1, <4>2 DEF Evento
        <4>4. QED BY <2>4, <4>2, <4>3
      <3>7. x.evento.seq = k + 1
        BY <3>1, <3>5, <3>6
      <3>8. Seqs(S \union {x.evento}) = Seqs(S) \union {k + 1}
        BY <3>2, <3>7
      <3>9. 1..(k + 1) = 1..k \union {k + 1}
        BY <3>1
      <3>10. QED BY <1>1, <2>4, <3>4, <3>8, <3>9
    <2>7. QED BY <2>5, <2>6
  <1>3. ASSUME sefaz'[m].eventos = sefaz[m].eventos PROVE Em(sefaz'[m].eventos)
    BY <1>1, <1>3
  <1>4. \/ sefaz'[m].eventos = sefaz[m].eventos
        \/ \E x \in pedidos : SefazRegistra(x) /\ x.nota = m
    <2>1. CASE [Next]_vars
      BY <2>1, EfeitoDoPoller, TipoDoPoller
    <2>2. CASE EmissaoNext
      <3>1. PICK n \in Notas : PassoDaEmissao(n)
        BY <2>2, EfeitoDaEmissao
      <3>2. QED BY <3>1 DEF PassoDaEmissao, SoMexeEm
    <2>3. CASE EventosNext
      <3>1. ASSUME NEW x \in pedidos, SefazRegistra(x), x.nota # m
            PROVE  sefaz'[m] = sefaz[m]
        BY <3>1 DEF SefazRegistra, SistemaTypeOK, NotasTypeOK
      <3>2. QED BY <2>3, <3>1, PassosDoPedido
            DEF Enviar, Abandonar, Gravar, notasVars
    <2>4. QED BY <2>1, <2>2, <2>3, ModoDoPasso
  <1>5. QED BY <1>2, <1>3, <1>4
-----------------------------------------------------------------------------
LEMMA InitSistemaTypeOK == SistemaInit => SistemaTypeOK
  <1> SUFFICES ASSUME SistemaInit PROVE SistemaTypeOK
    OBVIOUS
  <1>1. NotasTypeOK
    BY DEF SistemaInit, NotasTypeOK, Linha, LinhaAusente, Status, Registro
  <1>2. EmissaoTypeOK /\ EventosTypeOK
    BY ReciboMaxAssumption
    DEF SistemaInit, EmissaoInit, EmissaoTypeOK, Pipeline, EventosInit,
        EventosTypeOK
  <1>3. PollerTypeOK
    BY MaxTentativasAssumption, MaxInterrupcoesAssumption
    DEF SistemaInit, PollerInit, PollerTypeOK, Fase, Limpa
  <1>4. QED BY <1>1, <1>2, <1>3 DEF SistemaTypeOK

LEMMA InitSistemaIInv == SistemaInit => SistemaIInv
  <1> SUFFICES ASSUME SistemaInit PROVE SistemaIInv
    OBVIOUS
  <1>1. \A n \in Notas :
           /\ linha[n].status = "AUSENTE" /\ linha[n].eventos = {}
           /\ sefaz[n].cstat = "nada" /\ sefaz[n].eventos = {}
           /\ emissao[n].fase = "nova"
    BY DEF SistemaInit, EmissaoInit, LinhaAusente
  <1>2. /\ \A p \in Pollers : fila[p] = {}
        /\ \A p \in Pollers, n \in Notas : memoria[p][n] = "limpa"
        /\ pedidos = {}
    BY DEF SistemaInit, PollerInit, EventosInit, Limpa
  <1>3. SistemaTypeOK
    BY InitSistemaTypeOK
  <1>4. EtapaDaEmissao
    BY <1>1 DEF EtapaDaEmissao
  <1>5. RespostaDaSefaz
    BY <1>1, FS_EmptySet DEF RespostaDaSefaz
  <1>6. ComLinha /\ MemoriaDoProtocolo /\ PedidosCoerentes
    BY <1>2 DEF ComLinha, MemoriaDoProtocolo, PedidosCoerentes
  <1>7. DecididaNaSefaz /\ StatusConfirmado /\ PendenteTemLote
    BY <1>1 DEF DecididaNaSefaz, Finais, StatusConfirmado, PendenteTemLote
  <1>8. EventosRegistrados
    BY <1>1 DEF EventosRegistrados
  <1>9. CartasSequenciais
    <2>1. ASSUME NEW n \in Notas PROVE Cartas(sefaz[n].eventos) = {}
      BY <1>1 DEF Cartas
    <2>2. QED BY <2>1, FS_EmptySet DEF CartasSequenciais
  <1>10. QED BY <1>3, <1>4, <1>5, <1>6, <1>7, <1>8, <1>9 DEF SistemaIInv

LEMMA NextSistemaIInv ==
    ASSUME SistemaIInv, [SistemaNext]_sistemaVars
    PROVE  SistemaIInv'
  <1> USE DEF SistemaIInv
  <1>1. SistemaTypeOK' /\ EtapaDaEmissao' /\ RespostaDaSefaz'
    BY TipoInv, EtapaInv, RespostaInv
  <1>2. ComLinha' /\ MemoriaDoProtocolo' /\ PedidosCoerentes'
    BY ComLinhaInv, MemoriaInv, PedidosInv
  <1>3. DecididaNaSefaz' /\ StatusConfirmado' /\ PendenteTemLote'
    BY DecididaInv, ConfirmadoInv, PendenteInv
  <1>4. EventosRegistrados' /\ CartasSequenciais'
    BY RegistradosInv, CartasInv
  <1>5. QED BY <1>1, <1>2, <1>3, <1>4

LEMMA SpecSistemaIInv == SistemaSpec => []SistemaIInv
  <1>1. SistemaIInv /\ [SistemaNext]_sistemaVars => SistemaIInv'
    BY NextSistemaIInv
  <1>2. QED BY InitSistemaIInv, <1>1, PTL DEF SistemaSpec

(* The variables of the whole keep their types, in every instance.           *)
THEOREM SistemaTipo == SistemaSpec => []SistemaTypeOK
  <1>1. SistemaIInv => SistemaTypeOK
    BY DEF SistemaIInv
  <1>2. QED BY SpecSistemaIInv, <1>1, PTL

(* Through crashes, lost answers and overlapping executions and requests,    *)
(* the table shows as authorised or cancelled only what SEFAZ granted.       *)
THEOREM TabelaConfirmada == SistemaSpec => []StatusConfirmado
  <1>1. SistemaIInv => StatusConfirmado
    BY DEF SistemaIInv
  <1>2. QED BY SpecSistemaIInv, <1>1, PTL

(* A row left pending can always be decided later.                           *)
THEOREM PendenteDecidivel == SistemaSpec => []PendenteTemLote
  <1>1. SistemaIInv => PendenteTemLote
    BY DEF SistemaIInv
  <1>2. QED BY SpecSistemaIInv, <1>1, PTL

(* However requests interleave, a row lists only events SEFAZ registered.    *)
THEOREM EventosDaSefaz == SistemaSpec => []EventosRegistrados
  <1>1. SistemaIInv => EventosRegistrados
    BY DEF SistemaIInv
  <1>2. QED BY SpecSistemaIInv, <1>1, PTL

(* Overlapping and dying requests leave no gap in the letters' numbers.      *)
THEOREM CartasSemLacuna == SistemaSpec => []CartasSequenciais
  <1>1. SistemaIInv => CartasSequenciais
    BY DEF SistemaIInv
  <1>2. QED BY SpecSistemaIInv, <1>1, PTL
-----------------------------------------------------------------------------
(* The poller takes 150 for a rejection, so this one needs that SEFAZ never  *)
(* answers it.                                                               *)
LEMMA RejeitadaInv ==
    ASSUME "150" \notin Desfechos, SistemaIInv, RejeitadaNaoAutorizada,
           [SistemaNext]_sistemaVars
    PROVE  RejeitadaNaoAutorizada'
  <1> USE DEF SistemaIInv
  <1> SUFFICES ASSUME NEW m \in Notas,
                      linha'[m].status \in {"REJEITADA", "DENEGADA"}
               PROVE  /\ sefaz[m].cstat \in CStatFinal
                      /\ ~Autorizada(m)
    BY NadaVolta DEF RejeitadaNaoAutorizada, Autorizada
  <1>1. CASE linha'[m].status = linha[m].status
    BY <1>1 DEF RejeitadaNaoAutorizada, DecididaNaSefaz, Finais
  <1>2. CASE /\ sefaz[m].cstat \in CStatFinal
             /\ linha'[m].status \in {MapearStatusFinal(sefaz[m].cstat),
                                     StatusDaEmissao(sefaz[m].cstat)}
    <2>1. sefaz[m].cstat # "150"
      BY DEF RespostaDaSefaz
    <2>2. QED BY <1>2, <2>1
          DEF MapearStatusFinal, StatusDaEmissao, Autorizada, CStatAutoriza
  <1>3. QED BY <1>1, <1>2, OrigemDoNovoStatus

(* Unless a note was authorised out of time (150), the table never shows as  *)
(* rejected or denied a note that SEFAZ authorised.                          *)
THEOREM RejeitadaCorreta ==
    ASSUME "150" \notin Desfechos
    PROVE  SistemaSpec => []RejeitadaNaoAutorizada
  <1>1. SistemaInit => RejeitadaNaoAutorizada
    BY DEF SistemaInit, LinhaAusente, RejeitadaNaoAutorizada
  <1>2. SistemaIInv /\ RejeitadaNaoAutorizada /\ [SistemaNext]_sistemaVars
           => RejeitadaNaoAutorizada'
    BY RejeitadaInv
  <1>3. QED BY SpecSistemaIInv, <1>1, <1>2, PTL DEF SistemaSpec

-----------------------------------------------------------------------------
(* Emissions and requests respect the poller's row locks, so what Poller     *)
(* promises without webhooks it keeps in the whole.                          *)
TravaRespeitada == NenhumaTravaOrfa /\ EmMaosTravada

LEMMA TravaRespeitadaInv ==
    ASSUME ComUrl = {}, SistemaIInv, TravaRespeitada, [SistemaNext]_sistemaVars
    PROVE  TravaRespeitada'
  <1> USE DEF SistemaIInv
  <1>1. CASE [Next]_vars
    BY <1>1, TipoDoPoller, NenhumaTravaOrfaInv, EmMaosTravadaInv
    DEF TravaRespeitada
  <1>2. ASSUME UNCHANGED pollerVars, trava' = trava,
               \A m \in Notas, p \in Pollers : trava[m] = p =>
                  linha'[m].status = linha[m].status
        PROVE  TravaRespeitada'
    <2>1. NenhumaTravaOrfa'
      BY <1>2 DEF TravaRespeitada, NenhumaTravaOrfa, pollerVars, execVars
    <2>2. EmMaosTravada'
      BY <1>2 DEF TravaRespeitada, EmMaosTravada, EmMaos, Sujas, pollerVars,
         execVars
    <2>3. QED BY <2>1, <2>2 DEF TravaRespeitada
  <1>3. CASE EmissaoNext /\ UNCHANGED pollerVars
    <2>1. PICK n \in Notas : PassoDaEmissao(n)
      BY <1>3, EfeitoDaEmissao
    <2>2. ASSUME NEW p \in Pollers PROVE trava[n] # p
      BY <2>1, <2>2 DEF PassoDaEmissao, SoMexeEm, EtapaDaEmissao,
         TravaRespeitada, NenhumaTravaOrfa
    <2>3. QED BY <1>2, <1>3, <2>1, <2>2 DEF PassoDaEmissao, SoMexeEm
  <1>4. CASE EventosNext /\ UNCHANGED pollerVars
    <2>1. ASSUME NEW x \in pedidos, Gravar(x), NEW m \in Notas,
                 NEW p \in Pollers, trava[m] = p
          PROVE  linha'[m].status = linha[m].status
      <3>1. x.nota # m
        BY <2>1, LivreAssumption DEF Gravar
      <3>2. QED BY <2>1, <3>1 DEF Gravar, SistemaTypeOK, NotasTypeOK
    <2>2. trava' = trava
      BY <1>4, PassosDoPedido
      DEF Enviar, SefazRegistra, Abandonar, Gravar, notasVars
    <2>3. (\E x \in pedidos : Gravar(x)) \/ linha' = linha
      BY <1>4, PassosDoPedido DEF Enviar, SefazRegistra, Abandonar, notasVars
    <2>4. QED BY <1>2, <1>4, <2>1, <2>2, <2>3
  <1>5. QED BY <1>1, <1>3, <1>4, ModoDoPasso

LEMMA SpecTravaRespeitada ==
    ASSUME ComUrl = {} PROVE SistemaSpec => []TravaRespeitada
  <1>1. SistemaInit => TravaRespeitada
    BY LivreAssumption DEF SistemaInit, PollerInit, TravaRespeitada,
       NenhumaTravaOrfa, EmMaosTravada, EmMaos, Sujas, Limpa
  <1>2. SistemaIInv /\ TravaRespeitada /\ [SistemaNext]_sistemaVars
           => TravaRespeitada'
    BY TravaRespeitadaInv
  <1>3. QED BY SpecSistemaIInv, <1>1, <1>2, PTL DEF SistemaSpec

(* With emissions and requests around it too, the poller keeps overlapping   *)
(* executions apart as long as no company has a webhook.                     *)
THEOREM ExclusivoNoSistema ==
    ASSUME ComUrl = {} PROVE SistemaSpec => []ProcessamentoExclusivo
  <1>1. SistemaIInv /\ TravaRespeitada => ProcessamentoExclusivo
    BY DEF SistemaIInv, SistemaTypeOK, PollerTypeOK, TravaRespeitada,
       EmMaosTravada, ProcessamentoExclusivo, EmMaos, Sujas
  <1>2. QED BY SpecSistemaIInv, SpecTravaRespeitada, <1>1, PTL

(* Every row moves as the life cycle allows.                                 *)
LEMMA MovimentoPermitido ==
    ASSUME ComUrl = {}, SistemaIInv, TravaRespeitada, RejeitadaNaoAutorizada,
           [SistemaNext]_sistemaVars, NEW m \in Notas
    PROVE  \/ linha'[m].status = linha[m].status
           \/ <<linha[m].status, linha'[m].status>> \in Ciclo!Movimento
  <1> USE DEF SistemaIInv
  <1>1. CASE [Next]_vars
    <2>1. ASSUME NEW p \in Pollers, memoria[p][m] # "limpa"
          PROVE  linha[m].status = "PROCESSANDO" /\ memoria[p][m] \in Finais
      BY <2>1, MapearEFinal DEF TravaRespeitada, EmMaosTravada, EmMaos, Sujas,
         NenhumaTravaOrfa, MemoriaDoProtocolo
    <2>2. QED BY <1>1, <2>1, EfeitoDoPoller, TipoDoPoller
          DEF Ciclo!Movimento, Finais
  <1>2. CASE EmissaoNext
    <2>1. PICK n \in Notas : PassoDaEmissao(n)
      BY <1>2, EfeitoDaEmissao
    <2>2. CASE m # n \/ EmissaoEnvia(n) \/ EmissaoEspera(n)
      BY <2>1, <2>2 DEF PassoDaEmissao, SoMexeEm, EmissaoEnvia, EmissaoEspera
    <2>3. CASE m = n /\ EmissaoGrava(n)
      <3>1. linha[m].status = "AUSENTE"
        BY <2>1, <2>3 DEF PassoDaEmissao, SoMexeEm, EtapaDaEmissao
      <3>2. linha'[m].status \in {"PROCESSANDO", "AUTORIZADA", "REJEITADA"}
        BY <2>3, StatusDaEmissaoEFinal DEF EmissaoGrava
      <3>3. QED BY <3>1, <3>2 DEF Ciclo!Movimento
    <2>4. QED BY <2>1, <2>2, <2>3 DEF PassoDaEmissao
  <1>3. CASE EventosNext
    <2>1. ASSUME NEW x \in pedidos, x.nota = m, x.fase = "aceito"
          PROVE  linha[m].status \in {"PROCESSANDO", "AUTORIZADA", "CANCELADA"}
      <3>1. linha[m].status # "AUSENTE"
        BY <2>1 DEF ComLinha
      <3>2. Autorizada(m)
        BY <2>1 DEF PedidosCoerentes, RespostaDaSefaz
      <3>3. linha[m].status \in Status
        BY DEF SistemaTypeOK, NotasTypeOK, Linha
      <3>4. QED BY <3>1, <3>2, <3>3 DEF RejeitadaNaoAutorizada, Status, Finais
    <2>2. QED BY <1>3, <2>1, EfeitoDoEvento DEF Ciclo!Movimento
  <1>4. QED BY <1>1, <1>2, <1>3, ModoDoPasso

(* Without webhooks and without 150, emission, poller and event handlers     *)
(* together implement the life cycle: a note is recorded once, decided at    *)
(* most once, and a cancellation is never undone.                            *)
THEOREM SistemaImplementaCiclo ==
    ASSUME ComUrl = {}, "150" \notin Desfechos
    PROVE  SistemaSpec => ImplementaCiclo
  <1> DEFINE St == [n \in Notas |-> linha[n].status]
  <1>1. SistemaInit => Ciclo!Init
    BY DEF SistemaInit, LinhaAusente, Ciclo!Init
  <1>2. SistemaIInv /\ TravaRespeitada /\ RejeitadaNaoAutorizada
        /\ [SistemaNext]_sistemaVars => [Ciclo!Next]_St
    <2> SUFFICES ASSUME SistemaIInv, TravaRespeitada, RejeitadaNaoAutorizada,
                        [SistemaNext]_sistemaVars
                 PROVE  Ciclo!Next
      OBVIOUS
    <2>1. SistemaTypeOK'
      BY NextSistemaIInv DEF SistemaIInv
    <2>2. St' \in [Notas -> Ciclo!Todos]
      BY <2>1 DEF SistemaTypeOK, NotasTypeOK, Linha, Status, Finais, Ciclo!Todos
    <2>3. \A n \in Notas : \/ St'[n] = St[n]
                           \/ <<St[n], St'[n]>> \in Ciclo!Movimento
      BY MovimentoPermitido
    <2>4. QED BY <2>2, <2>3 DEF Ciclo!Next
  <1>3. QED
    BY SpecSistemaIInv, SpecTravaRespeitada, RejeitadaCorreta, <1>1, <1>2, PTL
    DEF SistemaSpec, ImplementaCiclo, Ciclo!Spec

=============================================================================
