---------------------------- MODULE Poller_proofs ----------------------------
(***************************************************************************)
(* What holds of the poller for every set of notes, executions, batch       *)
(* limit, number of webhook attempts and cStats.                            *)
(***************************************************************************)
EXTENDS Poller, TLAPS

(* A status waiting in a session is the one SEFAZ's protocol maps to.        *)
MemoriaDoProtocolo ==
    \A p \in Pollers, n \in Notas : memoria[p][n] # "limpa" =>
        /\ sefaz[n].cstat \in CStatFinal
        /\ memoria[p][n] = MapearStatusFinal(sefaz[n].cstat)

(* So is the status of a webhook being delivered, which is still in memory   *)
(* or already in the row.                                                    *)
AvisoDoProtocolo ==
    \A p \in Pollers : \A a \in aviso[p] :
        /\ sefaz[a[1]].cstat \in CStatFinal
        /\ a[2] = MapearStatusFinal(sefaz[a[1]].cstat)
        /\ \/ memoria[p][a[1]] = a[2]
           \/ linha[a[1]].status = a[2]

(* A pending status of a note with a webhook is the one being announced.     *)
SujaComAviso ==
    \A p \in Pollers, n \in ComUrl : memoria[p][n] # "limpa" =>
        /\ fase[p] \in {"postar", "registrar"}
        /\ <<n, memoria[p][n]>> \in aviso[p]

(* What the delivery has done by each phase.                                 *)
Entrega ==
    \A p \in Pollers :
        /\ fase[p] \in {"ocioso", "lote"} => tentativa[p] = 1
        /\ fase[p] = "registrar" => aviso[p] \subseteq postados
        /\ fase[p] = "registrar" /\ sucesso[p] =>
              aviso[p] \subseteq recebidos
        /\ tentativa[p] > 1 => \A a \in aviso[p] :
              [nota |-> a[1], status |-> a[2], sucesso |-> FALSE,
               tentativa |-> tentativa[p] - 1] \in logs

IInv ==
    /\ TypeOK
    /\ StatusDoProtocolo
    /\ MemoriaDoProtocolo
    /\ AvisoDoProtocolo
    /\ SujaComAviso
    /\ Entrega
    /\ AvisoAntesDoStatus
    /\ LogFiel
    /\ NenhumaTravaOrfa

-----------------------------------------------------------------------------
(* Next, one disjunct per kind of step.                                      *)
LEMMA Passos ==
    ASSUME [Next]_vars
    PROVE  \/ \E p \in Pollers : Selecionar(p)
           \/ \E p \in Pollers, n \in Notas : ConsultarPendente(p, n)
           \/ \E p \in Pollers, n \in Notas : ConsultarIlegivel(p, n)
           \/ \E p \in Pollers, n \in Notas : ConsultarFinal(p, n)
           \/ \E p \in Pollers : Postar(p)
           \/ \E p \in Pollers : Registrar(p)
           \/ \E p \in Pollers : Concluir(p)
           \/ \E p \in Pollers : Interromper(p)
           \/ \E n \in Notas : Envelhecer(n)
           \/ \E n \in Notas : SefazProcessa(n) /\ UNCHANGED pollerVars
           \/ UNCHANGED vars
  BY DEF Next, PollerNext, PassoPoller

LEMMA MapearEFinal == ASSUME NEW c PROVE MapearStatusFinal(c) \in Finais
  BY DEF MapearStatusFinal, Finais

LEMMA InitTypeOK == Init => TypeOK
  <1> SUFFICES ASSUME Init PROVE TypeOK
    OBVIOUS
  <1>1. NotasTypeOK
    BY DEF Init, NotasTypeOK, Linha, LinhaAusente, Status, Registro, Finais
  <1>2. PollerTypeOK
    BY MaxTentativasAssumption, MaxInterrupcoesAssumption
    DEF Init, PollerInit, PollerTypeOK, Fase, Limpa
  <1>3. QED BY <1>1, <1>2 DEF TypeOK

(* The effect of a commit on the types of what it writes.                    *)
LEMMA CommitTypeOK ==
    ASSUME TypeOK, NEW p \in Pollers, Commit(p)
    PROVE  /\ linha' \in [Notas -> Linha]
           /\ trava' \in [Notas -> Pollers \union {Livre}]
           /\ memoria' \in [Pollers -> [Notas -> Finais \union {"limpa"}]]
  <1>1. linha' \in [Notas -> Linha]
    <2>1. ASSUME NEW n \in Notas, n \in Sujas(p)
          PROVE  [linha[n] EXCEPT !.status = memoria[p][n]] \in Linha
      <3>1. linha[n] \in Linha
        BY DEF TypeOK, NotasTypeOK
      <3>2. memoria[p][n] \in Status
        BY <2>1 DEF TypeOK, PollerTypeOK, Sujas, Status
      <3>3. QED BY <3>1, <3>2 DEF Linha
    <2>2. QED BY <2>1 DEF TypeOK, NotasTypeOK, Commit
  <1>2. trava' \in [Notas -> Pollers \union {Livre}]
    BY DEF TypeOK, NotasTypeOK, Commit
  <1>3. memoria' \in [Pollers -> [Notas -> Finais \union {"limpa"}]]
    BY DEF TypeOK, PollerTypeOK, Commit, Limpa
  <1>4. QED BY <1>1, <1>2, <1>3

LEMMA NextTypeOK == ASSUME TypeOK, [Next]_vars PROVE TypeOK'
  <1> USE DEF TypeOK, NotasTypeOK, PollerTypeOK
  <1>1. ASSUME NEW p \in Pollers, Selecionar(p) PROVE TypeOK'
    BY <1>1 DEF Selecionar, Candidatas, Fase, logVars
  <1>2. ASSUME NEW p \in Pollers, NEW n \in Notas, ConsultarPendente(p, n)
        PROVE  TypeOK'
    BY <1>2 DEF ConsultarPendente, Visitar, notasVars, logVars
  <1>3. ASSUME NEW p \in Pollers, NEW n \in Notas, ConsultarIlegivel(p, n)
        PROVE  TypeOK'
    BY <1>3, MaxInterrupcoesAssumption
    DEF ConsultarIlegivel, Visitar, notasVars, logVars
  <1>4. ASSUME NEW p \in Pollers, NEW n \in Notas, ConsultarFinal(p, n)
        PROVE  TypeOK'
    <2>1. MapearStatusFinal(sefaz[n].cstat) \in Finais
      BY MapearEFinal
    <2>2. memoria' \in [Pollers -> [Notas -> Finais \union {"limpa"}]]
      BY <1>4, <2>1 DEF ConsultarFinal
    <2>3. aviso' \in [Pollers -> SUBSET (Notas \X Finais)]
      BY <1>4, <2>1 DEF ConsultarFinal
    <2>4. /\ fila' \in [Pollers -> SUBSET Notas]
          /\ fase' \in [Pollers -> Fase]
      BY <1>4 DEF ConsultarFinal, Visitar, Fase
    <2>5. QED BY <1>4, <2>2, <2>3, <2>4 DEF ConsultarFinal, notasVars, logVars
  <1>5. ASSUME NEW p \in Pollers, Postar(p) PROVE TypeOK'
    BY <1>5 DEF Postar, Fase, notasVars
  <1>6. ASSUME NEW p \in Pollers, Registrar(p) PROVE TypeOK'
    <2>1. /\ fase' \in [Pollers -> Fase]
          /\ aviso' \in [Pollers -> SUBSET (Notas \X Finais)]
          /\ sucesso' \in [Pollers -> BOOLEAN]
      BY <1>6 DEF Registrar, Fase
    <2>2. tentativa' \in [Pollers -> 1..MaxTentativas]
      BY <1>6, MaxTentativasAssumption DEF Registrar, FimDaEntrega
    <2>3. logs' \subseteq Log
      BY <1>6 DEF Registrar, Log
    <2>4. QED BY <1>6, <2>1, <2>2, <2>3, CommitTypeOK DEF Registrar
  <1>7. ASSUME NEW p \in Pollers, Concluir(p) PROVE TypeOK'
    <2>1. fase' \in [Pollers -> Fase]
      BY <1>7 DEF Concluir, Fase
    <2>2. QED BY <1>7, <2>1, CommitTypeOK DEF Concluir, logVars
  <1>8. ASSUME NEW p \in Pollers, Interromper(p) PROVE TypeOK'
    BY <1>8, MaxInterrupcoesAssumption, MaxTentativasAssumption
    DEF Interromper, Fase, Limpa, logVars
  <1>9. ASSUME NEW n \in Notas, Envelhecer(n) PROVE TypeOK'
    BY <1>9 DEF Envelhecer, notasVars, execVars, logVars
  <1>10. ASSUME NEW n \in Notas, SefazProcessa(n) /\ UNCHANGED pollerVars
         PROVE  TypeOK'
    <2>1. sefaz' \in [Notas -> Registro]
      BY <1>10, DesfechosAssumption DEF SefazProcessa, Registro
    <2>2. QED BY <1>10, <2>1 DEF SefazProcessa, pollerVars, execVars, logVars
  <1>11. CASE UNCHANGED vars
    BY <1>11 DEF vars, notasVars, pollerVars, execVars, logVars
  <1>12. QED
    BY <1>1, <1>2, <1>3, <1>4, <1>5, <1>6, <1>7, <1>8, <1>9, <1>10, <1>11,
       Passos

-----------------------------------------------------------------------------
(* What a commit of p's session does to one note.                            *)
LEMMA EfeitoDoCommit ==
    ASSUME TypeOK, NEW p \in Pollers, Commit(p), NEW n \in Notas
    PROVE  /\ linha'[n].status = IF memoria[p][n] = "limpa"
                                 THEN linha[n].status ELSE memoria[p][n]
           /\ linha'[n].recibo = linha[n].recibo
           /\ memoria[p][n] # "limpa" => trava[n] \in {p, Livre}
           /\ trava'[n] = IF trava[n] = p THEN Livre ELSE trava[n]
           /\ memoria'[p][n] = "limpa"
           /\ \A q \in Pollers : q # p => memoria'[q] = memoria[q]
  <1>1. linha[n] \in Linha
    BY DEF TypeOK, NotasTypeOK
  <1>2. memoria[p][n] = "limpa" => linha'[n] = linha[n]
    BY DEF Commit, Sujas
  <1>3. memoria[p][n] # "limpa" =>
           linha'[n] = [linha[n] EXCEPT !.status = memoria[p][n]]
    BY DEF Commit, Sujas
  <1>4. [linha[n] EXCEPT !.status = memoria[p][n]].status = memoria[p][n]
        /\ [linha[n] EXCEPT !.status = memoria[p][n]].recibo = linha[n].recibo
    BY <1>1 DEF Linha
  <1>5. /\ memoria[p][n] # "limpa" => trava[n] \in {p, Livre}
        /\ trava'[n] = IF trava[n] = p THEN Livre ELSE trava[n]
    BY DEF Commit, PodeGravar, Sujas
  <1>6. /\ memoria'[p][n] = "limpa"
        /\ \A q \in Pollers : q # p => memoria'[q] = memoria[q]
    BY DEF Commit, Limpa, TypeOK, PollerTypeOK
  <1>7. QED BY <1>2, <1>3, <1>4, <1>5, <1>6

(* SEFAZ's final answer for a note never changes.                            *)
LEMMA SefazEstavel ==
    ASSUME TypeOK, [Next]_vars, NEW n \in Notas, sefaz[n].cstat \in CStatFinal
    PROVE  sefaz'[n].cstat = sefaz[n].cstat
  <1>1. ASSUME NEW m \in Notas, SefazProcessa(m)
        PROVE  sefaz'[n].cstat = sefaz[n].cstat
    <2>1. m # n
      BY <1>1 DEF SefazProcessa, CStatFinal, CStatAutoriza
    <2>2. QED BY <1>1, <2>1 DEF SefazProcessa, TypeOK, NotasTypeOK
  <1>2. ASSUME UNCHANGED sefaz PROVE sefaz'[n].cstat = sefaz[n].cstat
    BY <1>2
  <1>3. (\E m \in Notas : SefazProcessa(m)) \/ UNCHANGED sefaz
    BY Passos DEF Selecionar, ConsultarPendente, ConsultarIlegivel,
       ConsultarFinal, Postar, Registrar, Concluir, Interromper, Envelhecer,
       notasVars, vars
  <1>4. QED BY <1>1, <1>2, <1>3

(* Only a commit changes a row's status or a session's memory of it, but for *)
(* a note that was just consulted or a session that was rolled back.         *)
LEMMA QuemEscreve ==
    ASSUME [Next]_vars
    PROVE  \/ \E p \in Pollers : Registrar(p) \/ Concluir(p)
           \/ \E p \in Pollers, n \in Notas : ConsultarFinal(p, n)
           \/ \E p \in Pollers : Interromper(p)
           \/ UNCHANGED <<linha, memoria>>
  BY Passos DEF Selecionar, ConsultarPendente, ConsultarIlegivel, Postar,
     Envelhecer, SefazProcessa, notasVars, pollerVars, vars

LEMMA MemoriaDoProtocoloInv ==
    ASSUME TypeOK, MemoriaDoProtocolo, [Next]_vars
    PROVE  MemoriaDoProtocolo'
  <1> SUFFICES ASSUME NEW q \in Pollers, NEW m \in Notas,
                      memoria'[q][m] # "limpa"
               PROVE  /\ sefaz'[m].cstat \in CStatFinal
                      /\ memoria'[q][m] = MapearStatusFinal(sefaz'[m].cstat)
    BY DEF MemoriaDoProtocolo, MapearStatusFinal
  <1>1. ASSUME memoria'[q][m] = memoria[q][m]
        PROVE  /\ sefaz'[m].cstat \in CStatFinal
               /\ memoria'[q][m] = MapearStatusFinal(sefaz'[m].cstat)
    BY <1>1, SefazEstavel DEF MemoriaDoProtocolo
  <1>2. ASSUME NEW p \in Pollers, Registrar(p) \/ Concluir(p)
        PROVE  memoria'[q][m] = memoria[q][m]
    BY <1>2, EfeitoDoCommit DEF Registrar, Concluir
  <1>3. ASSUME NEW p \in Pollers, NEW n \in Notas, ConsultarFinal(p, n)
        PROVE  \/ memoria'[q][m] = memoria[q][m]
               \/ /\ sefaz'[m].cstat \in CStatFinal
                  /\ memoria'[q][m] = MapearStatusFinal(sefaz'[m].cstat)
    BY <1>3 DEF ConsultarFinal, Decidida, notasVars, TypeOK, PollerTypeOK
  <1>4. ASSUME NEW p \in Pollers, Interromper(p)
        PROVE  memoria'[q][m] = memoria[q][m]
    BY <1>4 DEF Interromper, Limpa, TypeOK, PollerTypeOK
  <1>5. QED BY <1>1, <1>2, <1>3, <1>4, QuemEscreve

LEMMA StatusDoProtocoloInv ==
    ASSUME TypeOK, MemoriaDoProtocolo, StatusDoProtocolo, [Next]_vars
    PROVE  StatusDoProtocolo'
  <1> SUFFICES ASSUME NEW m \in Notas, linha'[m].status \in Finais
               PROVE  /\ sefaz'[m].cstat \in CStatFinal
                      /\ linha'[m].status = MapearStatusFinal(sefaz'[m].cstat)
    BY DEF StatusDoProtocolo, MapearStatusFinal
  <1>1. \/ linha'[m].status = linha[m].status
        \/ \E p \in Pollers : /\ memoria[p][m] # "limpa"
                              /\ linha'[m].status = memoria[p][m]
    BY QuemEscreve, EfeitoDoCommit
    DEF Registrar, Concluir, ConsultarFinal, Interromper, notasVars
  <1>2. CASE linha'[m].status = linha[m].status
    BY <1>2, SefazEstavel DEF StatusDoProtocolo
  <1>3. ASSUME NEW p \in Pollers, memoria[p][m] # "limpa",
               linha'[m].status = memoria[p][m]
        PROVE  /\ sefaz'[m].cstat \in CStatFinal
               /\ linha'[m].status = MapearStatusFinal(sefaz'[m].cstat)
    BY <1>3, SefazEstavel DEF MemoriaDoProtocolo
  <1>4. QED BY <1>1, <1>2, <1>3

-----------------------------------------------------------------------------
(* A row is written, and a lock taken or freed, only as the lock allows.     *)
LEMMA NenhumaTravaOrfaInv ==
    ASSUME TypeOK, NenhumaTravaOrfa, [Next]_vars
    PROVE  NenhumaTravaOrfa'
  <1> SUFFICES ASSUME NEW m \in Notas, NEW q \in Pollers, trava'[m] = q
               PROVE  fase'[q] # "ocioso" /\ linha'[m].status = "PROCESSANDO"
    BY DEF NenhumaTravaOrfa
  <1> USE LivreAssumption DEF NenhumaTravaOrfa, TypeOK, NotasTypeOK, PollerTypeOK
  <1>1. ASSUME NEW p \in Pollers, Selecionar(p)
        PROVE  fase'[q] # "ocioso" /\ linha'[m].status = "PROCESSANDO"
    BY <1>1 DEF Selecionar, Candidatas
  <1>2. ASSUME NEW p \in Pollers, NEW n \in Notas,
               ConsultarPendente(p, n) \/ ConsultarIlegivel(p, n)
        PROVE  fase'[q] # "ocioso" /\ linha'[m].status = "PROCESSANDO"
    BY <1>2 DEF ConsultarPendente, ConsultarIlegivel, notasVars
  <1>3. ASSUME NEW p \in Pollers, NEW n \in Notas, ConsultarFinal(p, n)
        PROVE  fase'[q] # "ocioso" /\ linha'[m].status = "PROCESSANDO"
    BY <1>3 DEF ConsultarFinal, Visitar, notasVars
  <1>4. ASSUME NEW p \in Pollers, Postar(p)
        PROVE  fase'[q] # "ocioso" /\ linha'[m].status = "PROCESSANDO"
    BY <1>4 DEF Postar, notasVars
  <1>5. ASSUME NEW p \in Pollers, Registrar(p) \/ Concluir(p)
        PROVE  fase'[q] # "ocioso" /\ linha'[m].status = "PROCESSANDO"
    <2>1. Commit(p)
      BY <1>5 DEF Registrar, Concluir
    <2>2. /\ trava[m] = q
          /\ q # p
          /\ linha'[m].status = linha[m].status
      BY <2>1, EfeitoDoCommit
    <2>3. fase'[q] = fase[q]
      BY <1>5, <2>2 DEF Registrar, Concluir
    <2>4. QED BY <2>2, <2>3
  <1>6. ASSUME NEW p \in Pollers, Interromper(p)
        PROVE  fase'[q] # "ocioso" /\ linha'[m].status = "PROCESSANDO"
    BY <1>6 DEF Interromper
  <1>7. ASSUME NEW n \in Notas,
               \/ Envelhecer(n)
               \/ SefazProcessa(n) /\ UNCHANGED pollerVars
        PROVE  fase'[q] # "ocioso" /\ linha'[m].status = "PROCESSANDO"
    BY <1>7 DEF Envelhecer, SefazProcessa, notasVars, execVars, pollerVars
  <1>8. CASE UNCHANGED vars
    BY <1>8 DEF vars, notasVars, pollerVars, execVars
  <1> HIDE DEF NenhumaTravaOrfa, TypeOK, NotasTypeOK, PollerTypeOK
  <1>9. QED BY <1>1, <1>2, <1>3, <1>4, <1>5, <1>6, <1>7, <1>8, Passos

LEMMA AvisoDoProtocoloInv ==
    ASSUME TypeOK, MemoriaDoProtocolo, StatusDoProtocolo, AvisoDoProtocolo,
           [Next]_vars
    PROVE  AvisoDoProtocolo'
  <1> DEFINE Bom(q, a) == /\ sefaz[a[1]].cstat \in CStatFinal
                          /\ a[2] = MapearStatusFinal(sefaz[a[1]].cstat)
                          /\ \/ memoria[q][a[1]] = a[2]
                             \/ linha[a[1]].status = a[2]
  <1> SUFFICES ASSUME NEW q \in Pollers, NEW a \in aviso'[q]
               PROVE  Bom(q, a)'
    BY DEF AvisoDoProtocolo
  <1> USE DEF TypeOK, NotasTypeOK, PollerTypeOK
  (* An announcement that was already being delivered.                       *)
  <1>1. ASSUME a \in aviso[q],
               \/ memoria'[q][a[1]] = memoria[q][a[1]]
               \/ linha'[a[1]].status = a[2],
               \/ linha'[a[1]].status = linha[a[1]].status
               \/ linha'[a[1]].status = a[2]
        PROVE  Bom(q, a)'
    <2>1. a[1] \in Notas
      BY <1>1
    <2>2. sefaz'[a[1]].cstat = sefaz[a[1]].cstat
      BY <1>1, <2>1, SefazEstavel DEF AvisoDoProtocolo
    <2>3. QED BY <1>1, <2>2 DEF AvisoDoProtocolo, MapearStatusFinal
  <1>2. ASSUME NEW p \in Pollers, Registrar(p) \/ Concluir(p) PROVE Bom(q, a)'
    <2>1. Commit(p) /\ a \in aviso[q]
      BY <1>2 DEF Registrar, Concluir
    <2>2. a[1] \in Notas
      BY <2>1
    <2>3. \/ linha'[a[1]].status = linha[a[1]].status
          \/ linha'[a[1]].status = a[2]
      <3>1. memoria[p][a[1]] # "limpa" => memoria[p][a[1]] = a[2]
        BY <2>1, <2>2 DEF MemoriaDoProtocolo, AvisoDoProtocolo
      <3>2. QED BY <2>1, <2>2, <3>1, EfeitoDoCommit
    <2>4. \/ memoria'[q][a[1]] = memoria[q][a[1]]
          \/ linha'[a[1]].status = a[2]
      <3>1. CASE q # p
        BY <3>1, <2>1, <2>2, EfeitoDoCommit
      <3>2. CASE q = p
        <4>1. CASE memoria[q][a[1]] = a[2]
          <5>1. a[2] # "limpa"
            BY <2>1 DEF Finais
          <5>2. QED BY <3>2, <4>1, <5>1, <2>1, <2>2, EfeitoDoCommit
        <4>2. CASE memoria[q][a[1]] # a[2]
          <5>1. linha[a[1]].status = a[2]
            BY <4>2, <2>1 DEF AvisoDoProtocolo
          <5>2. QED BY <5>1, <2>3
        <4>3. QED BY <4>1, <4>2
      <3>3. QED BY <3>1, <3>2
    <2>5. QED BY <1>1, <2>1, <2>3, <2>4
  <1>3. ASSUME NEW p \in Pollers, NEW n \in Notas, ConsultarFinal(p, n)
        PROVE  Bom(q, a)'
    <2> DEFINE s == MapearStatusFinal(sefaz[n].cstat)
    <2>1. /\ sefaz' = sefaz /\ linha' = linha
          /\ sefaz[n].cstat \in CStatFinal
          /\ memoria' = [memoria EXCEPT ![p][n] = s]
      BY <1>3 DEF ConsultarFinal, Decidida, notasVars
    <2>2. CASE a \in aviso[q]
      <3>1. a[1] \in Notas /\ a[2] = MapearStatusFinal(sefaz[a[1]].cstat)
        BY <2>2 DEF AvisoDoProtocolo
      <3>2. memoria'[q][a[1]] \in {memoria[q][a[1]], a[2]}
        BY <3>1, <2>1
      <3>3. \/ memoria'[q][a[1]] = a[2]
            \/ linha'[a[1]].status = a[2]
        BY <2>1, <2>2, <3>2 DEF AvisoDoProtocolo
      <3>4. QED BY <2>1, <2>2, <3>3 DEF AvisoDoProtocolo, MapearStatusFinal
    <2>3. CASE a \notin aviso[q]
      <3>1. q = p /\ a = <<n, s>>
        BY <1>3, <2>3 DEF ConsultarFinal
      <3>2. memoria'[q][n] = s
        BY <3>1, <2>1
      <3>3. QED BY <2>1, <3>1, <3>2 DEF MapearStatusFinal
    <2>4. QED BY <2>2, <2>3
  <1>4. ASSUME NEW p \in Pollers, Interromper(p) PROVE Bom(q, a)'
    BY <1>4, <1>1 DEF Interromper
  <1>5. ASSUME UNCHANGED <<aviso, linha, memoria>> PROVE Bom(q, a)'
    BY <1>5, <1>1
  <1>6. QED
    BY <1>2, <1>3, <1>4, <1>5, Passos DEF Selecionar, ConsultarPendente,
       ConsultarIlegivel, Postar, Envelhecer, SefazProcessa, notasVars,
       execVars, pollerVars, vars

LEMMA SujaComAvisoInv ==
    ASSUME TypeOK, SujaComAviso, [Next]_vars
    PROVE  SujaComAviso'
  <1> DEFINE Bom(q, m) == /\ fase[q] \in {"postar", "registrar"}
                          /\ <<m, memoria[q][m]>> \in aviso[q]
  <1> SUFFICES ASSUME NEW q \in Pollers, NEW m \in ComUrl,
                      memoria'[q][m] # "limpa"
               PROVE  Bom(q, m)'
    BY DEF SujaComAviso
  <1>0. m \in Notas
    BY ComUrlAssumption
  <1> USE DEF TypeOK, PollerTypeOK
  <1>1. ASSUME UNCHANGED <<memoria, aviso>>,
               fase'[q] = fase[q] \/ fase'[q] = "registrar"
        PROVE  Bom(q, m)'
    BY <1>1 DEF SujaComAviso
  <1>2. ASSUME NEW p \in Pollers, Selecionar(p) PROVE Bom(q, m)'
    <2>1. p # q
      BY <1>2 DEF Selecionar, SujaComAviso
    <2>2. QED BY <1>1, <1>2, <2>1 DEF Selecionar
  <1>3. ASSUME NEW p \in Pollers, Postar(p) PROVE Bom(q, m)'
    BY <1>1, <1>3 DEF Postar
  <1>4. ASSUME NEW p \in Pollers, NEW n \in Notas, ConsultarFinal(p, n)
        PROVE  Bom(q, m)'
    <2>1. CASE q # p
      BY <1>4, <2>1 DEF ConsultarFinal, SujaComAviso
    <2>2. CASE q = p
      <3>1. memoria[q][m] = "limpa"
        BY <1>4, <2>2 DEF ConsultarFinal, Visitar, SujaComAviso
      <3>2. m = n
        BY <1>0, <1>4, <2>2, <3>1 DEF ConsultarFinal
      <3>3. QED BY <1>4, <2>2, <3>2 DEF ConsultarFinal
    <2>3. QED BY <2>1, <2>2
  <1>5. ASSUME NEW p \in Pollers, Registrar(p) \/ Concluir(p) PROVE Bom(q, m)'
    <2>1. Commit(p)
      BY <1>5 DEF Registrar, Concluir
    <2>2. q # p /\ memoria'[q][m] = memoria[q][m]
      BY <1>0, <2>1, EfeitoDoCommit
    <2>3. fase'[q] = fase[q] /\ aviso'[q] = aviso[q]
      BY <1>5, <2>2 DEF Registrar, Concluir
    <2>4. QED BY <2>2, <2>3 DEF SujaComAviso
  <1>6. ASSUME NEW p \in Pollers, Interromper(p) PROVE Bom(q, m)'
    <2>1. q # p
      BY <1>0, <1>6 DEF Interromper, Limpa
    <2>2. QED BY <1>6, <2>1 DEF Interromper, SujaComAviso
  <1>7. ASSUME UNCHANGED <<fase, memoria, aviso>> PROVE Bom(q, m)'
    BY <1>1, <1>7
  <1> HIDE DEF TypeOK, PollerTypeOK, Bom
  <1>8. QED
    BY <1>2, <1>3, <1>4, <1>5, <1>6, <1>7, Passos DEF ConsultarPendente,
       ConsultarIlegivel, Envelhecer, SefazProcessa, execVars, pollerVars, vars

LEMMA EntregaInv ==
    ASSUME TypeOK, Entrega, [Next]_vars
    PROVE  Entrega'
  <1> DEFINE Bom(q) ==
        /\ fase[q] \in {"ocioso", "lote"} => tentativa[q] = 1
        /\ fase[q] = "registrar" => aviso[q] \subseteq postados
        /\ fase[q] = "registrar" /\ sucesso[q] => aviso[q] \subseteq recebidos
        /\ tentativa[q] > 1 => \A a \in aviso[q] :
              [nota |-> a[1], status |-> a[2], sucesso |-> FALSE,
               tentativa |-> tentativa[q] - 1] \in logs
  <1> SUFFICES ASSUME NEW q \in Pollers PROVE Bom(q)'
    BY DEF Entrega
  <1>0. Bom(q)
    BY DEF Entrega
  <1> USE DEF TypeOK, PollerTypeOK
  (* An execution that is not the one moving.                                *)
  <1>1. ASSUME fase'[q] = fase[q], aviso'[q] = aviso[q],
               sucesso'[q] = sucesso[q], tentativa'[q] = tentativa[q],
               postados \subseteq postados', recebidos \subseteq recebidos',
               logs \subseteq logs'
        PROVE  Bom(q)'
    BY <1>0, <1>1
  <1>2. ASSUME NEW p \in Pollers, Selecionar(p) PROVE Bom(q)'
    BY <1>0, <1>2 DEF Selecionar, logVars
  <1>3. ASSUME NEW p \in Pollers, NEW n \in Notas, ConsultarFinal(p, n)
        PROVE  Bom(q)'
    <2>1. CASE q # p \/ n \notin ComUrl
      BY <1>1, <1>3, <2>1 DEF ConsultarFinal, logVars
    <2>2. CASE q = p /\ n \in ComUrl
      <3>1. fase'[q] = "postar" /\ tentativa'[q] = tentativa[q]
        BY <1>3, <2>2 DEF ConsultarFinal
      <3>2. tentativa[q] = 1
        BY <1>0, <1>3, <2>2 DEF ConsultarFinal, Visitar
      <3>3. QED BY <3>1, <3>2
    <2>3. QED BY <2>1, <2>2
  <1>4. ASSUME NEW p \in Pollers, Postar(p) PROVE Bom(q)'
    <2>1. CASE q # p
      BY <1>1, <1>4, <2>1 DEF Postar
    <2>2. CASE q = p
      <3>1. /\ fase'[q] = "registrar"
            /\ aviso' = aviso /\ tentativa' = tentativa /\ logs' = logs
            /\ postados' = postados \union aviso[q]
        BY <1>4, <2>2 DEF Postar
      <3>2. sucesso'[q] => recebidos' = recebidos \union aviso[q]
        BY <1>4, <2>2 DEF Postar
      <3>3. QED BY <1>0, <3>1, <3>2
    <2>3. QED BY <2>1, <2>2
  <1>5. ASSUME NEW p \in Pollers, Registrar(p) PROVE Bom(q)'
    <2>1. CASE q # p
      BY <1>1, <1>5, <2>1 DEF Registrar
    <2>2. CASE q = p /\ FimDaEntrega(p)
      <3>1. fase'[q] = "lote" /\ tentativa'[q] = 1
        BY <1>5, <2>2 DEF Registrar
      <3>2. QED BY <3>1
    <2>3. CASE q = p /\ ~FimDaEntrega(p)
      <3>1. /\ fase'[q] = "postar" /\ aviso' = aviso
            /\ tentativa'[q] = tentativa[q] + 1
            /\ sucesso[q] = FALSE
        BY <1>5, <2>3 DEF Registrar, FimDaEntrega
      <3>2. tentativa'[q] - 1 = tentativa[q]
        BY <3>1
      <3>3. \A a \in aviso[q] :
               [nota |-> a[1], status |-> a[2], sucesso |-> FALSE,
                tentativa |-> tentativa[q]] \in logs'
        BY <1>5, <2>3, <3>1 DEF Registrar
      <3>4. QED BY <3>1, <3>2, <3>3
    <2>4. QED BY <2>1, <2>2, <2>3
  <1>6. ASSUME NEW p \in Pollers, Concluir(p) PROVE Bom(q)'
    BY <1>0, <1>6 DEF Concluir, logVars
  <1>7. ASSUME NEW p \in Pollers, Interromper(p) PROVE Bom(q)'
    <2>1. CASE q # p
      BY <1>1, <1>7, <2>1 DEF Interromper, logVars
    <2>2. CASE q = p
      <3>1. fase'[q] = "ocioso" /\ tentativa'[q] = 1
        BY <1>7, <2>2 DEF Interromper
      <3>2. QED BY <3>1
    <2>3. QED BY <2>1, <2>2
  <1>8. ASSUME UNCHANGED <<fase, aviso, sucesso, tentativa, postados,
                           recebidos, logs>>
        PROVE  Bom(q)'
    BY <1>1, <1>8
  <1> HIDE DEF TypeOK, PollerTypeOK, Bom
  <1>9. QED
    BY <1>2, <1>3, <1>4, <1>5, <1>6, <1>7, <1>8, Passos
    DEF ConsultarPendente, ConsultarIlegivel, Envelhecer, SefazProcessa,
        execVars, logVars, pollerVars, vars

(* A webhook once POSTed and a log once written stay so.                     *)
LEMMA HistoricoCresce ==
    ASSUME [Next]_vars
    PROVE  /\ postados \subseteq postados'
           /\ recebidos \subseteq recebidos'
           /\ logs \subseteq logs'
  BY Passos DEF Selecionar, ConsultarPendente, ConsultarIlegivel,
     ConsultarFinal, Postar, Registrar, Concluir, Interromper, Envelhecer,
     SefazProcessa, logVars, pollerVars, vars

(* Where a row's new status comes from.                                      *)
LEMMA OrigemDoStatus ==
    ASSUME TypeOK, [Next]_vars, NEW m \in Notas,
           linha'[m].status # linha[m].status
    PROVE  \E p \in Pollers : /\ Registrar(p) \/ Concluir(p)
                              /\ memoria[p][m] # "limpa"
                              /\ linha'[m].status = memoria[p][m]
  BY QuemEscreve, EfeitoDoCommit
  DEF Registrar, Concluir, ConsultarFinal, Interromper, notasVars

LEMMA AvisoAntesDoStatusInv ==
    ASSUME TypeOK, SujaComAviso, Entrega, AvisoAntesDoStatus, [Next]_vars
    PROVE  AvisoAntesDoStatus'
  <1> SUFFICES ASSUME NEW m \in ComUrl, linha'[m].status \in Finais
               PROVE  <<m, linha'[m].status>> \in postados'
    BY DEF AvisoAntesDoStatus
  <1>0. m \in Notas
    BY ComUrlAssumption
  <1>1. CASE linha'[m].status = linha[m].status
    BY <1>1, HistoricoCresce DEF AvisoAntesDoStatus
  <1>2. CASE linha'[m].status # linha[m].status
    <2>1. PICK p \in Pollers : /\ Registrar(p) \/ Concluir(p)
                               /\ memoria[p][m] # "limpa"
                               /\ linha'[m].status = memoria[p][m]
      BY <1>0, <1>2, OrigemDoStatus
    <2>2. /\ fase[p] \in {"postar", "registrar"}
          /\ <<m, memoria[p][m]>> \in aviso[p]
      BY <2>1 DEF SujaComAviso
    <2>3. fase[p] = "registrar"
      BY <2>1, <2>2 DEF Registrar, Concluir
    <2>4. <<m, memoria[p][m]>> \in postados
      BY <2>2, <2>3 DEF Entrega
    <2>5. QED BY <2>1, <2>4, HistoricoCresce
  <1>3. QED BY <1>1, <1>2

(* A decided note keeps its status: whatever is still in a session's memory  *)
(* about it comes from the same protocol.                                    *)
LEMMA DecisaoEstavelPasso ==
    ASSUME TypeOK, StatusDoProtocolo, MemoriaDoProtocolo, [Next]_vars,
           NEW m \in Notas, linha[m].status \in Finais
    PROVE  linha'[m].status = linha[m].status
  <1>1. SUFFICES ASSUME linha'[m].status # linha[m].status PROVE FALSE
    OBVIOUS
  <1>2. PICK p \in Pollers : /\ memoria[p][m] # "limpa"
                             /\ linha'[m].status = memoria[p][m]
    BY <1>1, OrigemDoStatus
  <1>3. linha'[m].status = MapearStatusFinal(sefaz[m].cstat)
    BY <1>2 DEF MemoriaDoProtocolo
  <1>4. QED BY <1>1, <1>3 DEF StatusDoProtocolo

LEMMA LogFielInv ==
    ASSUME TypeOK, StatusDoProtocolo, MemoriaDoProtocolo, AvisoDoProtocolo,
           Entrega, LogFiel, [Next]_vars
    PROVE  LogFiel'
  <1> DEFINE Anterior(l) == [nota |-> l.nota, status |-> l.status,
                            sucesso |-> FALSE, tentativa |-> l.tentativa - 1]
             Bom(l) == /\ linha[l.nota].status = l.status
                       /\ l.sucesso => <<l.nota, l.status>> \in recebidos
                       /\ l.tentativa > 1 => Anterior(l) \in logs
  <1> SUFFICES ASSUME NEW l \in logs' PROVE Bom(l)'
    BY DEF LogFiel
  <1>1. CASE l \in logs
    <2>1. l.nota \in Notas /\ l.status \in Finais
      BY <1>1 DEF TypeOK, PollerTypeOK, Log
    <2>2. Bom(l)
      BY <1>1 DEF LogFiel
    <2>3. linha'[l.nota].status = linha[l.nota].status
      BY <2>1, <2>2, DecisaoEstavelPasso
    <2>4. QED BY <2>2, <2>3, HistoricoCresce
  <1>2. CASE l \notin logs
    <2>1. PICK p \in Pollers : Registrar(p)
      BY <1>2, Passos DEF Selecionar, ConsultarPendente, ConsultarIlegivel,
         ConsultarFinal, Postar, Concluir, Interromper, Envelhecer, logVars,
         pollerVars, vars
    <2>2. PICK a \in aviso[p] :
             l = [nota |-> a[1], status |-> a[2], tentativa |-> tentativa[p],
                  sucesso |-> sucesso[p]]
      BY <1>2, <2>1 DEF Registrar
    <2>3. /\ a[1] \in Notas /\ a[2] \in Finais /\ a = <<a[1], a[2]>>
          /\ tentativa[p] \in 1..MaxTentativas
      BY DEF TypeOK, PollerTypeOK
    <2>4. linha'[a[1]].status = a[2]
      <3>1. CASE memoria[p][a[1]] = a[2]
        <4>1. memoria[p][a[1]] # "limpa"
          BY <2>3, <3>1 DEF Finais
        <4>2. QED BY <2>1, <2>3, <3>1, <4>1, EfeitoDoCommit DEF Registrar
      <3>2. CASE linha[a[1]].status = a[2]
        BY <2>3, <3>2, DecisaoEstavelPasso
      <3>3. QED BY <3>1, <3>2 DEF AvisoDoProtocolo
    <2>5. sucesso[p] => a \in recebidos
      BY <2>1 DEF Entrega, Registrar
    <2>6. tentativa[p] > 1 => Anterior(l) \in logs
      <3>1. Anterior(l) = [nota |-> a[1], status |-> a[2], sucesso |-> FALSE,
                           tentativa |-> tentativa[p] - 1]
        BY <2>2
      <3>2. tentativa[p] > 1 =>
               [nota |-> a[1], status |-> a[2], sucesso |-> FALSE,
                tentativa |-> tentativa[p] - 1] \in logs
        BY DEF Entrega
      <3> HIDE DEF Anterior
      <3>3. QED BY <3>1, <3>2
    <2>7. /\ l.nota = a[1] /\ l.status = a[2]
          /\ l.tentativa = tentativa[p] /\ l.sucesso = sucesso[p]
      BY <2>2
    <2>8. QED BY <2>3, <2>4, <2>5, <2>6, <2>7, HistoricoCresce
  <1>3. QED BY <1>1, <1>2

-----------------------------------------------------------------------------
LEMMA InitIInv == Init => IInv
  <1> SUFFICES ASSUME Init PROVE IInv
    OBVIOUS
  <1>1. TypeOK
    BY InitTypeOK
  <1>2. /\ StatusDoProtocolo
        /\ AvisoAntesDoStatus
    BY ComUrlAssumption DEF Init, StatusDoProtocolo, AvisoAntesDoStatus, LinhaAusente, Finais
  <1>3. /\ MemoriaDoProtocolo
        /\ AvisoDoProtocolo
        /\ SujaComAviso
        /\ Entrega
        /\ LogFiel
    BY ComUrlAssumption DEF Init, PollerInit, MemoriaDoProtocolo,
       AvisoDoProtocolo, SujaComAviso, Entrega, LogFiel, Limpa
  <1>4. NenhumaTravaOrfa
    BY LivreAssumption DEF Init, NenhumaTravaOrfa
  <1>5. QED BY <1>1, <1>2, <1>3, <1>4 DEF IInv

LEMMA NextIInv == ASSUME IInv, [Next]_vars PROVE IInv'
  BY NextTypeOK, StatusDoProtocoloInv, MemoriaDoProtocoloInv,
     AvisoDoProtocoloInv, SujaComAvisoInv, EntregaInv, AvisoAntesDoStatusInv,
     LogFielInv, NenhumaTravaOrfaInv DEF IInv

LEMMA SpecIInv == Spec => []IInv
  <1>1. IInv /\ [Next]_vars => IInv'
    BY NextIInv
  <1>2. QED BY InitIInv, <1>1, PTL DEF Spec

(* The variables of the poller keep their types, in every instance.          *)
THEOREM TipoCorreto == Spec => []TypeOK
  <1>1. IInv => TypeOK
    BY DEF IInv
  <1>2. QED BY SpecIInv, <1>1, PTL

(* However many executions overlap and whichever of them are interrupted, a  *)
(* status the poller writes is the one SEFAZ's protocol maps to.             *)
THEOREM StatusCorreto == Spec => []StatusDoProtocolo
  <1>1. IInv => StatusDoProtocolo
    BY DEF IInv
  <1>2. QED BY SpecIInv, <1>1, PTL

(* No note is decided in the table before its webhook was attempted.         *)
THEOREM AvisoPrecedeStatus == Spec => []AvisoAntesDoStatus
  <1>1. IInv => AvisoAntesDoStatus
    BY DEF IInv
  <1>2. QED BY SpecIInv, <1>1, PTL

(* Every row of webhook_logs tells the truth, and retries are consecutive.   *)
THEOREM LogCorreto == Spec => []LogFiel
  <1>1. IInv => LogFiel
    BY DEF IInv
  <1>2. QED BY SpecIInv, <1>1, PTL

(* An execution leaves no row lock behind, however it ends.                  *)
THEOREM TravasLiberadas == Spec => []NenhumaTravaOrfa
  <1>1. IInv => NenhumaTravaOrfa
    BY DEF IInv
  <1>2. QED BY SpecIInv, <1>1, PTL

(* A decided note keeps its status through every later commit.               *)
THEOREM DecisaoNaoMuda == Spec => DecisaoEstavel
  <1>1. IInv /\ [Next]_vars =>
           [\A n \in Notas : linha[n].status \in Finais =>
               linha'[n].status = linha[n].status]_vars
    BY DecisaoEstavelPasso DEF IInv
  <1>2. QED BY SpecIInv, <1>1, PTL DEF Spec, DecisaoEstavel

-----------------------------------------------------------------------------
(* Without webhooks nothing commits in the middle of a batch, so whatever an *)
(* execution has in hand it still holds locked.                              *)
EmMaosTravada ==
    /\ \A p \in Pollers : fase[p] \in {"ocioso", "lote"}
    /\ \A p \in Pollers, n \in Notas : n \in EmMaos(p) => trava[n] = p

LEMMA EmMaosTravadaInv ==
    ASSUME ComUrl = {}, TypeOK, EmMaosTravada, [Next]_vars
    PROVE  EmMaosTravada'
  <1> DEFINE SemEntrega(q) == fase[q] \in {"ocioso", "lote"}
             NaMao(q, m) == m \in fila[q] \/ memoria[q][m] # "limpa"
  <1>0. \A q \in Pollers, m \in Notas : m \in EmMaos(q) <=> NaMao(q, m)
    BY DEF EmMaos, Sujas
  <1>00. \A q \in Pollers, m \in Notas : (m \in EmMaos(q) <=> NaMao(q, m))'
    BY DEF EmMaos, Sujas
  <1> SUFFICES ASSUME NEW q \in Pollers
               PROVE  /\ SemEntrega(q)'
                      /\ \A m \in Notas : NaMao(q, m)' => trava'[m] = q
    BY <1>00 DEF EmMaosTravada
  <1>1. /\ SemEntrega(q)
        /\ \A p \in Pollers, m \in Notas : NaMao(p, m) => trava[m] = p
    BY <1>0 DEF EmMaosTravada
  <1> DEFINE Meta == /\ SemEntrega(q)'
                     /\ \A m \in Notas : NaMao(q, m)' => trava'[m] = q
  <1> USE DEF TypeOK, NotasTypeOK, PollerTypeOK
  <1>2. ASSUME NEW p \in Pollers, Selecionar(p) PROVE Meta
    BY <1>1, <1>2, LivreAssumption DEF Selecionar, Candidatas
  <1>3. ASSUME NEW p \in Pollers, NEW n \in Notas,
               ConsultarPendente(p, n) \/ ConsultarIlegivel(p, n)
        PROVE  Meta
    BY <1>1, <1>3
    DEF ConsultarPendente, ConsultarIlegivel, Visitar, notasVars
  <1>4. ASSUME NEW p \in Pollers, NEW n \in Notas, ConsultarFinal(p, n)
        PROVE  Meta
    BY <1>1, <1>4 DEF ConsultarFinal, Visitar, notasVars
  <1>5. ASSUME NEW p \in Pollers, Postar(p) \/ Registrar(p) PROVE FALSE
    BY <1>0, <1>5 DEF EmMaosTravada, Postar, Registrar
  <1>6. ASSUME NEW p \in Pollers, Concluir(p) PROVE Meta
    BY <1>1, <1>6 DEF Concluir, Commit, Limpa
  <1>7. ASSUME NEW p \in Pollers, Interromper(p) PROVE Meta
    BY <1>1, <1>7 DEF Interromper, Limpa
  <1>8. ASSUME UNCHANGED <<fase, fila, memoria, trava>> PROVE Meta
    BY <1>1, <1>8
  <1> HIDE DEF TypeOK, NotasTypeOK, PollerTypeOK, SemEntrega, NaMao
  <1>9. Meta
    BY <1>2, <1>3, <1>4, <1>5, <1>6, <1>7, <1>8, Passos
    DEF Envelhecer, SefazProcessa, notasVars, execVars, pollerVars, vars
  <1>10. QED BY <1>9

(* FOR UPDATE SKIP LOCKED does separate overlapping executions as long as no *)
(* company of the batch has a webhook: the exclusion is lost only through    *)
(* the commits of the webhook log.                                           *)
THEOREM ExclusivoSemWebhook ==
    ASSUME ComUrl = {} PROVE Spec => []ProcessamentoExclusivo
  <1>1. Init => TypeOK /\ EmMaosTravada
    BY InitTypeOK DEF Init, PollerInit, EmMaosTravada, EmMaos, Sujas, Limpa
  <1>2. TypeOK /\ EmMaosTravada /\ [Next]_vars => (TypeOK /\ EmMaosTravada)'
    BY NextTypeOK, EmMaosTravadaInv
  <1>3. TypeOK /\ EmMaosTravada => ProcessamentoExclusivo
    BY DEF TypeOK, PollerTypeOK, EmMaosTravada, ProcessamentoExclusivo, EmMaos,
       Sujas
  <1>4. QED BY <1>1, <1>2, <1>3, PTL DEF Spec

=============================================================================
