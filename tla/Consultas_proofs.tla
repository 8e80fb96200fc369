-------------------------- MODULE Consultas_proofs --------------------------
(***************************************************************************)
(* How old the answer of a query can be, for every set of keys, every time *)
(* to live, and requests of every length.                                  *)
(***************************************************************************)
EXTENDS Api_proofs

(* How old an answer can be: in a coroutine, no older than its request     *)
(* unless it was found in the KV, and then by what a key can be at its end *)
(* and the request; in the KV, by the time it has left.                    *)
FasesDoItem == {"inicio", "falta", "obtido", "pronto", "falhou"}

ItemRecente(item, k, d) ==
    /\ DOMAIN item = {"fase", "idade", "doKv"}
    /\ item.fase \in FasesDoItem
    /\ item.idade \in Nat
    /\ item.fase = "obtido" => item.idade <= d
    /\ item.idade <= Prazo[k] + Atraso + d

Aberta(r) == r.fase = "consultando" \/ Correndo(r.itens) # {}

ConsultaRecente(r) ==
    r.op = "consulta" =>
        /\ r.itens = [k \in DOMAIN r.itens |-> r.itens[k]]
        /\ DOMAIN r.itens \subseteq Chaves
        /\ IF Aberta(r)
           THEN /\ "duracao" \in DOMAIN r
                /\ r.duracao \in 0..Atraso
                /\ r.fase \in {"consultando", "500"}
                /\ \A k \in DOMAIN r.itens : ItemRecente(r.itens[k], k, r.duracao)
           ELSE \A k \in DOMAIN r.itens : ItemRecente(r.itens[k], k, Atraso)

KvRecente ==
    /\ kv = [k \in Chaves |-> kv[k]]
    /\ \A k \in Chaves :
          /\ kv[k] \in [idade : Nat, resta : Nat]
          /\ kv[k].resta > 0 => kv[k].idade + kv[k].resta <= Prazo[k] + Atraso

RecenteIInv == Forma /\ (\A p \in Pedidos : ConsultaRecente(req[p])) /\ KvRecente

(* The types of the times.                                                 *)
LEMMA PrazoTipo ==
    /\ Atraso \in Nat
    /\ \A k \in Chaves : Prazo[k] \in Nat /\ Prazo[k] > 0
  BY PrazoAssumption, AtrasoAssumption

(* Who is not a query stays out of this.                                   *)
LEMMA SemConsulta ==
    ASSUME Forma, KvRecente, \A p \in Pedidos : ConsultaRecente(req[p]),
           [ApiNext]_apiVars, UNCHANGED kv,
           \A p \in Pedidos : req'[p] = req[p] \/ req'[p].op # "consulta"
    PROVE  RecenteIInv'
  <1>1. Forma' BY FormaInv
  <1>2. KvRecente' BY DEF KvRecente
  <1>3. \A p \in Pedidos : ConsultaRecente(req'[p])
    BY DEF ConsultaRecente
  <1>4. QED BY <1>1, <1>2, <1>3 DEF RecenteIInv

(* One query changes.                                                      *)
LEMMA UmaConsulta ==
    ASSUME RecenteIInv, [ApiNext]_apiVars, KvRecente', NEW p \in Pedidos, NEW r, Fica(p, r),
           ConsultaRecente(r)
    PROVE  RecenteIInv'
  <1>1. Forma' BY FormaInv DEF RecenteIInv
  <1>2. \A q \in Pedidos : ConsultaRecente(req'[q])
    BY EfeitoDeFica DEF RecenteIInv, Outros
  <1>3. QED BY <1>1, <1>2 DEF RecenteIInv

(* A failed request keeps of its coroutines those that go on.              *)
LEMMA FalhaRecente ==
    ASSUME NEW d \in 0..Atraso, NEW r, r.duracao = d, NEW itens,
           itens = [k \in DOMAIN itens |-> itens[k]], DOMAIN itens \subseteq Chaves,
           \A k \in DOMAIN itens : ItemRecente(itens[k], k, d)
    PROVE  ConsultaRecente(Falha(r, itens))
  <1> DEFINE f == Falha(r, itens)
             c == Correndo(itens)
  <1>1. /\ f.op = "consulta" /\ f.fase = "500"
        /\ f.itens = [k \in c |-> itens[k]]
        /\ c # {} => f.duracao = d
        /\ "duracao" \in DOMAIN f
    BY DEF Falha, Restrict, Correndo
  <1>2. c \subseteq DOMAIN itens
    BY DEF Correndo
  <1>3. Correndo(f.itens) = c
    BY <1>1, <1>2 DEF Correndo
  <1>4. CASE c = {}
    BY <1>1, <1>3, <1>4 DEF ConsultaRecente, Aberta
  <1>5. CASE c # {}
    <2>1. Aberta(f) /\ f.duracao \in 0..Atraso
      BY <1>1, <1>3, <1>5 DEF Aberta
    <2>2. \A k \in DOMAIN f.itens : ItemRecente(f.itens[k], k, f.duracao)
      BY <1>1, <1>2, <1>5
    <2>3. DOMAIN f.itens \subseteq Chaves /\ f.itens = [k \in DOMAIN f.itens |-> f.itens[k]]
      BY <1>1, <1>2
    <2>4. QED BY <1>1, <2>1, <2>2, <2>3 DEF ConsultaRecente
  <1>6. QED BY <1>4, <1>5

(* A coroutine moves on with an answer that is recent.                     *)
LEMMA PoeItemRecente ==
    ASSUME RecenteIInv, [ApiNext]_apiVars, KvRecente', NEW p \in Pedidos, NEW k, NEW item,
           req[p].op = "consulta", k \in Correndo(req[p].itens), PoeItem(p, k, item),
           ItemRecente(item, k, req[p].duracao)
    PROVE  RecenteIInv'
  <1> DEFINE itens == [req[p].itens EXCEPT ![k] = item]
             d == req[p].duracao
  <1>1. /\ Aberta(req[p]) /\ d \in 0..Atraso /\ "duracao" \in DOMAIN req[p]
        /\ req[p].itens = [j \in DOMAIN req[p].itens |-> req[p].itens[j]]
        /\ DOMAIN req[p].itens \subseteq Chaves
        /\ \A j \in DOMAIN req[p].itens : ItemRecente(req[p].itens[j], j, d)
    BY DEF RecenteIInv, ConsultaRecente, Aberta
  <1>2. /\ DOMAIN itens = DOMAIN req[p].itens
        /\ itens = [j \in DOMAIN itens |-> itens[j]]
        /\ \A j \in DOMAIN itens : ItemRecente(itens[j], j, d)
    BY <1>1
  <1>3. CASE req[p].fase = "consultando"
    <2> DEFINE s == [req[p] EXCEPT !.itens = itens]
    <2>1. {"op", "fase", "itens"} \subseteq DOMAIN req[p]
      BY DEF RecenteIInv, Forma, ComCampos
    <2>2. /\ s.op = "consulta" /\ s.fase = "consultando" /\ s.duracao = d /\ s.itens = itens
          /\ "duracao" \in DOMAIN s
      BY <1>1, <1>3, <2>1
    <2>3. ConsultaRecente(s)
      <3> HIDE DEF s, itens
      <3>1. QED BY <1>1, <1>2, <2>2 DEF ConsultaRecente, Aberta
    <2>4. QED BY <1>3, <2>3, UmaConsulta DEF PoeItem
  <1>4. CASE req[p].fase # "consultando"
    <2>1. ConsultaRecente(Falha(req[p], itens))
      BY <1>1, <1>2, FalhaRecente
    <2>2. QED BY <1>4, <2>1, UmaConsulta DEF PoeItem
  <1>5. QED BY <1>3, <1>4

(* Each step of a coroutine keeps the ages within their bounds.            *)
LEMMA RecenteConsultas ==
    ASSUME RecenteIInv, [ApiNext]_apiVars, NEW p \in Pedidos, ConNext(p)
    PROVE  RecenteIInv'
  <1> DEFINE r == req[p]
             d == req[p].duracao
  <1>1. Forma /\ KvRecente /\ ConsultaRecente(r)
    BY DEF RecenteIInv
  <1>2. ASSUME NEW k \in Chaves, ItemEm(p, k, "inicio") \/ ItemEm(p, k, "falta")
                                     \/ ItemEm(p, k, "obtido")
        PROVE  /\ r.op = "consulta" /\ k \in Correndo(r.itens) /\ d \in 0..Atraso
               /\ ItemRecente(r.itens[k], k, d)
    BY <1>1, <1>2 DEF ItemEm, Correndo, ConsultaRecente, Aberta
  <1>3. UNCHANGED kv => KvRecente'
    BY <1>1 DEF KvRecente
  <1>4. CASE \E t \in Pedidos, lote \in BOOLEAN,
                chaves \in (SUBSET Gtins \union SUBSET Ufs) \ {{}} :
                Consultar(p, t, chaves, lote)
    <2>1. PICK t \in Pedidos, lote \in BOOLEAN,
               chaves \in (SUBSET Gtins \union SUBSET Ufs) \ {{}} : Consultar(p, t, chaves, lote)
      BY <1>4
    <2> DEFINE s == [op |-> "consulta", fase |-> "consultando", lote |-> lote,
                     itens |-> [k \in chaves |-> Item("inicio", 0, FALSE)],
                     registrados |-> {}, duracao |-> 0]
    <2>2. chaves \subseteq Chaves
      BY <2>1 DEF Consultar, Chaves
    <2>3. ASSUME NEW k \in chaves PROVE ItemRecente(s.itens[k], k, 0)
      <3>1. k \in Chaves
        BY <2>2
      <3>2. QED BY <3>1, PrazoTipo DEF ItemRecente, Item, FasesDoItem
    <2>4. ConsultaRecente(s)
      <3>1. /\ s.fase = "consultando" /\ s.duracao = 0 /\ "duracao" \in DOMAIN s
            /\ DOMAIN s.itens = chaves /\ s.itens = [k \in chaves |-> s.itens[k]]
        OBVIOUS
      <3> HIDE DEF s
      <3>2. QED BY <2>3, <2>2, <3>1, PrazoTipo DEF ConsultaRecente, Aberta
    <2>5. Fica(p, s) /\ UNCHANGED kv
      BY <2>1 DEF Consultar
    <2>6. QED BY <1>3, <2>4, <2>5, UmaConsulta
  <1>5. CASE \E k \in Chaves : LerKv(p, k)
    <2>1. PICK k \in Chaves : LerKv(p, k)
      BY <1>5
    <2> DEFINE item == IF kv[k].resta > 0 THEN Item("pronto", kv[k].idade, TRUE)
                       ELSE Item("falta", 0, FALSE)
    <2>2. ItemEm(p, k, "inicio") /\ PoeItem(p, k, item) /\ UNCHANGED kv
      BY <2>1 DEF LerKv
    <2>3. kv[k].idade \in Nat /\ kv[k].resta \in Nat
            /\ (kv[k].resta > 0 => kv[k].idade <= Prazo[k] + Atraso)
      BY <1>1, PrazoTipo DEF KvRecente
    <2>4. ItemRecente(item, k, d)
      BY <1>2, <2>2, <2>3, PrazoTipo DEF ItemRecente, Item, FasesDoItem
    <2>5. QED BY <1>2, <1>3, <2>2, <2>4, PoeItemRecente
  <1>6. CASE \E k \in Chaves : SefazResponde(p, k)
    <2>1. PICK k \in Chaves : SefazResponde(p, k)
      BY <1>6
    <2>2. ItemEm(p, k, "falta") /\ PoeItem(p, k, Item("obtido", 0, FALSE)) /\ UNCHANGED kv
      BY <2>1 DEF SefazResponde
    <2>3. ItemRecente(Item("obtido", 0, FALSE), k, d)
      BY <1>2, <2>2, PrazoTipo DEF ItemRecente, Item, FasesDoItem
    <2>4. QED BY <1>2, <1>3, <2>2, <2>3, PoeItemRecente
  <1>7. CASE \E k \in Chaves : GravarKv(p, k)
    <2>1. PICK k \in Chaves : GravarKv(p, k)
      BY <1>7
    <2> DEFINE item == [r.itens[k] EXCEPT !.fase = "pronto"]
    <2>2. /\ ItemEm(p, k, "obtido") /\ PoeItem(p, k, item)
          /\ kv' = [kv EXCEPT ![k] = [idade |-> r.itens[k].idade, resta |-> Prazo[k]]]
      BY <2>1 DEF GravarKv
    <2>3. ItemRecente(r.itens[k], k, d) /\ r.itens[k].idade <= d /\ d \in 0..Atraso
      BY <1>2, <2>2 DEF ItemEm, ItemRecente
    <2>4. ItemRecente(item, k, d)
      BY <2>3 DEF ItemRecente, FasesDoItem
    <2>5. KvRecente'
      <3>1. kv' = [j \in Chaves |-> kv'[j]]
        BY <1>1, <2>2 DEF KvRecente
      <3>2. kv'[k] = [idade |-> r.itens[k].idade, resta |-> Prazo[k]]
              /\ \A j \in Chaves \ {k} : kv'[j] = kv[j]
        BY <1>1, <2>2 DEF KvRecente
      <3>3. r.itens[k].idade \in Nat
        BY <2>3 DEF ItemRecente
      <3>4. kv'[k] \in [idade : Nat, resta : Nat]
              /\ kv'[k].idade + kv'[k].resta <= Prazo[k] + Atraso
        BY <2>3, <3>2, <3>3, PrazoTipo
      <3>5. QED BY <1>1, <3>1, <3>2, <3>4 DEF KvRecente
    <2>6. QED BY <1>2, <2>2, <2>4, <2>5, PoeItemRecente
  <1>8. CASE \E k \in Chaves : FalharItem(p, k)
    <2>1. PICK k \in Chaves : FalharItem(p, k)
      BY <1>8
    <2> DEFINE itens == [r.itens EXCEPT ![k].fase = "falhou"]
    <2>2. /\ r.op = "consulta" /\ k \in Correndo(r.itens) /\ UNCHANGED kv
          /\ Fica(p, Falha(r, itens))
      BY <2>1 DEF FalharItem
    <2>3. /\ d \in 0..Atraso /\ k \in DOMAIN r.itens
          /\ r.itens = [j \in DOMAIN r.itens |-> r.itens[j]] /\ DOMAIN r.itens \subseteq Chaves
          /\ \A j \in DOMAIN r.itens : ItemRecente(r.itens[j], j, d)
      BY <1>1, <2>2 DEF ConsultaRecente, Aberta, Correndo
    <2>4. /\ DOMAIN itens = DOMAIN r.itens /\ itens = [j \in DOMAIN itens |-> itens[j]]
          /\ \A j \in DOMAIN r.itens \ {k} : itens[j] = r.itens[j]
          /\ itens[k] = [r.itens[k] EXCEPT !.fase = "falhou"]
      BY <2>3
    <2>5. ItemRecente(itens[k], k, d)
      <3>1. ItemRecente(r.itens[k], k, d)
        BY <2>3
      <3>2. QED BY <2>4, <3>1 DEF ItemRecente, FasesDoItem
    <2>6. ConsultaRecente(Falha(r, itens))
      <3> HIDE DEF itens
      <3>1. QED BY <2>3, <2>4, <2>5, FalhaRecente
    <2>7. QED BY <1>3, <2>2, <2>6, UmaConsulta
  <1>9. CASE \E k \in Chaves : Registrar(p, k)
    <2>1. PICK k \in Chaves : Registrar(p, k)
      BY <1>9
    <2> DEFINE s == [r EXCEPT !.registrados = @ \union {k}]
    <2>2. /\ r.op = "consulta" /\ r.fase = "consultando" /\ UNCHANGED kv
          /\ {"op", "fase", "itens"} \subseteq DOMAIN r
      BY <1>1, <2>1 DEF Registrar, Em, Forma, ComCampos
    <2>3. Fica(p, s)
      BY <2>1 DEF Registrar, Fica
    <2>4. "duracao" \in DOMAIN r
      BY <1>1, <2>2 DEF ConsultaRecente, Aberta
    <2>5. /\ DOMAIN s = DOMAIN r /\ s.op = r.op /\ s.fase = r.fase /\ s.itens = r.itens
          /\ s.duracao = r.duracao
      BY <2>2, <2>4
    <2>6. ConsultaRecente(s)
      <3> HIDE DEF s, r
      <3>1. QED BY <1>1, <2>5 DEF ConsultaRecente, Aberta
    <2>7. QED BY <1>3, <2>2, <2>3, <2>6, UmaConsulta
  <1>10. CASE ResponderConsulta(p)
    <2> DEFINE s == [op |-> "consulta", fase |-> "200", itens |-> r.itens]
    <2>1. /\ r.op = "consulta" /\ r.fase = "consultando" /\ UNCHANGED kv /\ Prontos(p)
          /\ Fica(p, s)
      BY <1>10 DEF ResponderConsulta, Em
    <2>2. Correndo(s.itens) = {}
      BY <2>1 DEF Prontos, Correndo
    <2>3. \A k \in DOMAIN r.itens : ItemRecente(r.itens[k], k, d) /\ k \in Chaves
      BY <1>1, <2>1 DEF ConsultaRecente, Aberta
    <2>4. d \in 0..Atraso
      BY <1>1, <2>1 DEF ConsultaRecente, Aberta
    <2>5. \A k \in DOMAIN r.itens : ItemRecente(r.itens[k], k, Atraso)
      BY <2>1, <2>3, <2>4, PrazoTipo DEF ItemRecente, Prontos
    <2>6. ConsultaRecente(s)
      BY <1>1, <2>1, <2>2, <2>5 DEF ConsultaRecente, Aberta
    <2>7. QED BY <1>3, <2>1, <2>6, UmaConsulta
  <1>11. CASE FalharRegistro(p)
    <2>1. r.op = "consulta" /\ r.fase = "consultando" /\ UNCHANGED kv
            /\ Fica(p, Falha(r, r.itens))
      BY <1>11 DEF FalharRegistro, Em
    <2>2. ConsultaRecente(Falha(r, r.itens))
      BY <1>1, <2>1, FalhaRecente DEF ConsultaRecente, Aberta
    <2>3. QED BY <1>3, <2>1, <2>2, UmaConsulta
  <1>12. QED
    BY <1>4, <1>5, <1>6, <1>7, <1>8, <1>9, <1>10, <1>11 DEF ConNext

(* A tick ages what is at hand and what is cached alike.                   *)
LEMMA RecenteTempo ==
    ASSUME RecenteIInv, [ApiNext]_apiVars, PassarTempo
    PROVE  RecenteIInv'
  <1>1. Forma /\ KvRecente /\ (\A p \in Pedidos : ConsultaRecente(req[p]))
    BY DEF RecenteIInv
  <1>2. Forma'
    BY <1>1, FormaInv
  <1>3. KvRecente'
    <2>1. kv' = [k \in Chaves |-> IF kv[k].resta <= 1 THEN Vazio
                                  ELSE [idade |-> kv[k].idade + 1, resta |-> kv[k].resta - 1]]
      BY DEF PassarTempo
    <2>2. QED BY <1>1, <2>1, PrazoTipo DEF KvRecente, Vazio
  <1>4. ASSUME NEW p \in Pedidos PROVE ConsultaRecente(req'[p])
    <2> DEFINE r == req[p]
    <2>1. CASE ~Andando(p)
      BY <1>1, <2>1 DEF PassarTempo
    <2>2. CASE Andando(p)
      <3> DEFINE mais(item) == IF item.fase \in {"obtido", "pronto"}
                               THEN [item EXCEPT !.idade = @ + 1] ELSE item
                 itens == [k \in DOMAIN r.itens |-> mais(r.itens[k])]
      <3>1. /\ r.op = "consulta" /\ Aberta(r) /\ r.duracao < Atraso
            /\ {"op", "fase", "itens"} \subseteq DOMAIN r
        BY <1>1, <2>2 DEF Andando, Aberta, PassarTempo, Forma, ComCampos
      <3>2. /\ "duracao" \in DOMAIN r /\ r.duracao \in 0..Atraso
            /\ r.fase \in {"consultando", "500"} /\ DOMAIN r.itens \subseteq Chaves
            /\ \A k \in DOMAIN r.itens : ItemRecente(r.itens[k], k, r.duracao)
        BY <1>1, <3>1 DEF ConsultaRecente
      <3>3. req'[p] = [r EXCEPT !.duracao = @ + 1, !.itens = itens]
        BY <2>2 DEF PassarTempo
      <3>4. /\ req'[p].op = "consulta" /\ req'[p].fase = r.fase /\ req'[p].itens = itens
            /\ req'[p].duracao = r.duracao + 1 /\ "duracao" \in DOMAIN req'[p]
        BY <3>1, <3>2, <3>3
      <3>5. ASSUME NEW k \in DOMAIN r.itens
            PROVE  /\ ItemRecente(mais(r.itens[k]), k, r.duracao + 1)
                   /\ mais(r.itens[k]).fase = r.itens[k].fase
        <4>1. ItemRecente(r.itens[k], k, r.duracao) /\ k \in Chaves
          BY <3>2
        <4>2. QED BY <3>2, <4>1, PrazoTipo DEF ItemRecente
      <3>6. Correndo(itens) = Correndo(r.itens)
        BY <3>5 DEF Correndo
      <3>7. Aberta(req'[p]) /\ r.duracao + 1 \in 0..Atraso
        <4> HIDE DEF itens
        <4>1. Aberta(req'[p])
          BY <3>1, <3>4, <3>6 DEF Aberta
        <4>2. QED BY <3>1, <3>2, <4>1, PrazoTipo
      <3>8. \A k \in DOMAIN itens : ItemRecente(itens[k], k, r.duracao + 1)
        BY <3>5
      <3>9. itens = [k \in DOMAIN itens |-> itens[k]] /\ DOMAIN itens \subseteq Chaves
        BY <3>2
      <3> HIDE DEF itens
      <3>10. QED BY <3>2, <3>4, <3>7, <3>8, <3>9 DEF ConsultaRecente
    <2>3. QED BY <2>1, <2>2
  <1>5. QED BY <1>2, <1>3, <1>4 DEF RecenteIInv

(* The invariant of the ages is inductive.                                 *)
LEMMA NextRecenteIInv ==
    ASSUME RecenteIInv, [ApiNext]_apiVars
    PROVE  RecenteIInv'
  <1> USE DEF RecenteIInv
  <1>1. ASSUME UNCHANGED kv, NEW p \in Pedidos, NEW r, Fica(p, r), r.op # "consulta"
        PROVE  RecenteIInv'
    BY <1>1, EfeitoDeFica, SemConsulta DEF Outros
  <1>2. ASSUME UNCHANGED kv, NEW p \in Pedidos, NEW v, Segue(p, v), req[p].op # "consulta"
        PROVE  RecenteIInv'
    BY <1>2, EfeitoDeSegue, SemConsulta DEF Outros, SoMudaFase, Forma, ComCampos
  <1>3. CASE CadNext /\ UNCHANGED kv
    <2>1. CASE \E p \in Pedidos, cnpj \in Cnpjs : CriarEmpresa(p, cnpj)
      BY <1>3, <2>1, <1>1 DEF CriarEmpresa
    <2>2. CASE \E p \in Pedidos : Inserir(p)
      BY <1>3, <2>2, <1>2 DEF Inserir, Em
    <2>3. CASE \E p \in Pedidos, k \in Prefixos : GravarCadastro(p, k)
      BY <1>3, <2>3, <1>2 DEF GravarCadastro, Em
    <2>4. CASE \E p \in Pedidos : EntregarCredenciais(p)
      BY <1>3, <2>4, <1>2 DEF EntregarCredenciais, Em
    <2>5. CASE \E p, s \in Pedidos, k \in Prefixos : Login(p, s, k)
      BY <1>3, <2>5, <1>1 DEF Login
    <2>6. CASE \E p, t \in Pedidos : Refresh(p, t) \/ Recusar(p, t) \/ Atualizar(p, t)
      BY <1>3, <2>6, <1>1 DEF Refresh, Recusar, Atualizar
    <2>7. CASE \E p \in Pedidos : GravarEmpresa(p)
      BY <1>3, <2>7, <1>2 DEF GravarEmpresa, Em
    <2>8. CASE \E c \in DOMAIN clientes : DesativarCliente(c)
      BY <1>3, <2>8, SemConsulta DEF DesativarCliente
    <2>9. QED BY <1>3, <2>1, <2>2, <2>3, <2>4, <2>5, <2>6, <2>7, <2>8 DEF CadNext
  <1>4. CASE \E p \in Pedidos : FonteNext(p) /\ UNCHANGED kv
    BY <1>4, <1>1 DEF FonteNext, CriarEntidade, RemoverClasse, ExportarTudo
  <1>5. CASE \E p \in Pedidos : LgpdNext(p) /\ UNCHANGED kv
    <2>1. PICK p \in Pedidos : LgpdNext(p) /\ UNCHANGED kv
      BY <1>5
    <2>2. req'[p].op # "consulta"
      <3>1. ASSUME NEW r, Fica(p, r), r.op # "consulta" PROVE req'[p].op # "consulta"
        BY <3>1, EfeitoDeFica
      <3>2. ASSUME NEW v, Segue(p, v), req[p].op # "consulta" PROVE req'[p].op # "consulta"
        BY <3>2, EfeitoDeSegue DEF SoMudaFase, Forma, ComCampos
      <3>3. CASE \E t \in Pedidos, d \in Documentos \union {SemCliente} : Emitir(p, t, d)
        BY <3>1, <3>3 DEF Emitir
      <3>4. CASE \E t \in Pedidos, d \in Documentos : Anonimizar(p, t, d)
        BY <3>1, <3>4 DEF Anonimizar
      <3>5. CASE \E t, s \in Pedidos : ConsultarSolicitacao(p, t, s)
        BY <3>1, <3>5 DEF ConsultarSolicitacao
      <3>6. CASE Selecionar(p)
        BY <3>1, <3>6 DEF Selecionar, Em, Forma, ComCampos
      <3>7. CASE GravarNota(p) \/ ApagarDados(p) \/ RegistrarSolicitacao(p)
        BY <3>2, <3>7 DEF GravarNota, ApagarDados, RegistrarSolicitacao, Em
      <3>8. QED BY <2>1, <3>3, <3>4, <3>5, <3>6, <3>7 DEF LgpdNext
    <2>3. QED BY <2>1, <2>2, LgpdCampos, SemConsulta DEF Outros
  <1>6. CASE \E p \in Pedidos : ConNext(p)
    BY <1>6, RecenteConsultas
  <1>7. CASE \E p \in Pedidos : Interromper(p) /\ UNCHANGED kv
    BY <1>7, <1>2 DEF Interromper
  <1>8. CASE PassarTempo
    BY <1>8, RecenteTempo
  <1>9. CASE \E k \in Chaves : KvPerde(k)
    <2>1. KvRecente'
      BY <1>9 DEF KvPerde, KvRecente, Vazio
    <2>2. QED BY <1>9, <2>1, FormaInv DEF KvPerde
  <1>10. CASE UNCHANGED apiVars
    BY <1>10, SemConsulta DEF apiVars
  <1>11. CASE \E p \in Pedidos :
                 BlocoNext(p) /\ UNCHANGED <<empresas, clientes, notas, solicitacoes, kv>>
    BY <1>11, EfeitoDoBloco, SemConsulta DEF PassoDoBloco, Outros
  <1>12. CASE LacoLivre /\ ForaDoBloco
    BY <1>12, <1>3, <1>4, <1>5, <1>6, <1>7, <1>8, <1>9 DEF ForaDoBloco
  <1>13. QED
    BY <1>10, <1>11, <1>12 DEF ApiNext

(* Nothing is cached at first.                                             *)
LEMMA InitRecenteIInv == ApiInit => RecenteIInv
  <1> SUFFICES ASSUME ApiInit PROVE RecenteIInv
    OBVIOUS
  <1>1. Forma
    BY InitCadastroIInv DEF CadastroIInv
  <1>2. \A p \in Pedidos : req[p].op # "consulta"
    BY AntesRespondidos DEF ApiInit, ReqInit, Livre
  <1>3. KvRecente
    BY DEF ApiInit, ConInit, Vazio, KvRecente
  <1>4. QED BY <1>1, <1>2, <1>3 DEF RecenteIInv, ConsultaRecente

(* Whatever coroutines cache and find it, and however the requests overlap, *)
(* an answer is at most its time to live and two requests old.             *)
THEOREM CacheRecente == ApiSpec => []RespostaRecente
  <1>1. RecenteIInv /\ [ApiNext]_apiVars => RecenteIInv'
    BY NextRecenteIInv
  <1>2. RecenteIInv => RespostaRecente
    <2> SUFFICES ASSUME RecenteIInv PROVE RespostaRecente
      OBVIOUS
    <2>1. ASSUME NEW p \in Pedidos, Em(p, "consulta", "200"), NEW k \in DOMAIN req[p].itens
          PROVE  req[p].itens[k].idade <= Prazo[k] + 2 * Atraso
      <3>1. ItemRecente(req[p].itens[k], k, Atraso) /\ k \in Chaves
        BY <2>1 DEF RecenteIInv, ConsultaRecente, Em
      <3>2. QED BY <3>1, PrazoTipo DEF ItemRecente
    <2>2. \A k \in Chaves : kv[k].resta > 0 => kv[k].idade + kv[k].resta <= Prazo[k] + Atraso
      BY DEF RecenteIInv, KvRecente
    <2>3. QED BY <2>1, <2>2 DEF RespostaRecente
  <1>3. QED BY InitRecenteIInv, <1>1, <1>2, PTL DEF ApiSpec
=============================================================================
