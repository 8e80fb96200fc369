----------------------------- MODULE Api_proofs -----------------------------
(***************************************************************************)
(* What holds of the requests of the API for every set of them, of CNPJs,  *)
(* prefixes and documents: one company for a CNPJ, logins by the owner,    *)
(* nothing of another company, the truth of the records of erasure, the    *)
(* note of a document and what a removal takes from the store.             *)
(***************************************************************************)
EXTENDS Api, FiniteSetTheorems, SequenceTheorems, WellFoundedInduction, TLAPS

Credenciais == {"criar", "login", "refresh"}
ComToken    == {"emitir", "atualizar", "anonimizar", "solicitacao"}

(* The fields a request of each operation keeps to its end.                *)
ComCampos(r) ==
    /\ {"op", "fase"} \subseteq DOMAIN r
    /\ r.op = "criar" => "cnpj" \in DOMAIN r
    /\ r.op = "login" => {"segredo", "prefixo", "sub"} \subseteq DOMAIN r
    /\ r.op = "refresh" => {"segredo", "sub"} \subseteq DOMAIN r
    /\ r.op \in ComToken => {"token", "empresa"} \subseteq DOMAIN r
    /\ "token" \in DOMAIN r => r.op \in ComToken
    /\ r.op = "emitir" => "doc" \in DOMAIN r
    /\ r.op = "anonimizar" => {"doc", "alvo", "vistas"} \subseteq DOMAIN r
    /\ r.op = "solicitacao" /\ r.fase = "200" => "lida" \in DOMAIN r
    /\ r.op = "consulta" => "itens" \in DOMAIN r

Forma ==
    /\ req = [p \in Pedidos |-> req[p]]
    /\ \A p \in Pedidos : ComCampos(req[p])

(* All of a request but where it is stays as it was.                       *)
SoMudaFase(r, s) ==
    /\ DOMAIN s = DOMAIN r
    /\ \A x \in DOMAIN r \ {"fase"} : s[x] = r[x]

Outros(p) == \A q \in Pedidos \ {p} : req'[q] = req[q]
-----------------------------------------------------------------------------
(* A request moves on to a phase.                                          *)
LEMMA EfeitoDeSegue ==
    ASSUME Forma, NEW p \in Pedidos, NEW v, Segue(p, v)
    PROVE  /\ req' = [q \in Pedidos |-> req'[q]]
           /\ req'[p].fase = v
           /\ SoMudaFase(req[p], req'[p])
           /\ Outros(p)
  <1>1. "fase" \in DOMAIN req[p]
    BY DEF Forma, ComCampos
  <1>2. req'[p] = [req[p] EXCEPT !.fase = v]
    BY DEF Forma, Segue
  <1>3. req'[p].fase = v /\ SoMudaFase(req[p], req'[p])
    BY <1>1, <1>2 DEF SoMudaFase
  <1>4. Outros(p)
    BY DEF Forma, Segue, Outros
  <1>5. req' = [q \in Pedidos |-> req'[q]]
    BY DEF Forma, Segue
  <1>6. QED BY <1>3, <1>4, <1>5

(* A request becomes another record.                                       *)
LEMMA EfeitoDeFica ==
    ASSUME Forma, NEW p \in Pedidos, NEW r, Fica(p, r)
    PROVE  /\ req' = [q \in Pedidos |-> req'[q]]
           /\ req'[p] = r
           /\ Outros(p)
  BY DEF Forma, Fica, Outros

(* Moving on loses no field of the operation.                              *)
LEMMA CamposFicam ==
    ASSUME NEW r, NEW s, ComCampos(r), SoMudaFase(r, s),
           s.fase = "200" => r.op # "solicitacao"
    PROVE  ComCampos(s) /\ s.op = r.op
  BY DEF ComCampos, SoMudaFase

-----------------------------------------------------------------------------
(* The steps that concern neither the companies nor the notes: a request   *)
(* that carries no token is made or goes on.                               *)
Alheia(p) ==
    /\ req[p].op \in {"nenhuma", "consulta"}
    /\ req'[p].op \in {"entidade", "remover", "exportar", "consulta", "recusado"}
    /\ req'[p].op = "remover" => \E c \in Classes : RemoverClasse(p, c)
    /\ req'[p].op = "entidade" => req'[p].fase = "200"
    /\ "token" \notin DOMAIN req'[p]
    /\ ComCampos(req'[p])

PassoAlheio ==
    /\ UNCHANGED <<empresas, clientes, notas, solicitacoes>>
    /\ req' = [p \in Pedidos |-> req'[p]]
    /\ \A p \in Pedidos : req'[p] = req[p] \/ Alheia(p)

(* A request not made yet has no operation and no token.                   *)
LEMMA Novos ==
    ASSUME Forma, NEW p \in Pedidos, Novo(p)
    PROVE  req[p].op = "nenhuma" /\ req[p].fase = "livre" /\ "token" \notin DOMAIN req[p]
  BY DEF Novo, Livre

(* The steps on the store of entities concern others (PassoAlheio).        *)
LEMMA FonteAlheia ==
    ASSUME Forma, NEW p \in Pedidos, FonteNext(p),
           UNCHANGED <<empresas, clientes, notas, solicitacoes, kv>>
    PROVE  PassoAlheio
  <1>1. SUFFICES ASSUME NEW r, Novo(p), Fica(p, r),
                        {"op", "fase"} \subseteq DOMAIN r, "token" \notin DOMAIN r,
                        r.op \in {"entidade", "remover", "exportar"},
                        r.op = "remover" => \E c \in Classes : RemoverClasse(p, c),
                        r.op = "entidade" => r.fase = "200"
                 PROVE  PassoAlheio
    BY DEF FonteNext, CriarEntidade, RemoverClasse, ExportarTudo
  <1>2. ComCampos(r)
    BY <1>1 DEF ComCampos, ComToken
  <1>3. QED BY <1>1, <1>2, EfeitoDeFica, Novos DEF PassoAlheio, Alheia, Outros

(* What a query has to keep.                                               *)
LEMMA CamposDaConsulta ==
    ASSUME NEW r, {"op", "fase", "itens"} \subseteq DOMAIN r, "token" \notin DOMAIN r,
           r.op = "consulta"
    PROVE  ComCampos(r)
  BY DEF ComCampos, ComToken

(* The steps of the queries concern others (PassoAlheio).                  *)
LEMMA ConsultaAlheia ==
    ASSUME Forma, NEW p \in Pedidos, ConNext(p), UNCHANGED <<notas, solicitacoes, fonteVars>>
    PROVE  PassoAlheio
  <1> DEFINE DeConsulta(r) == /\ r.op = "consulta" /\ "token" \notin DOMAIN r
                              /\ {"op", "fase", "itens"} \subseteq DOMAIN r
  <1>1. req[p].op = "consulta" => DeConsulta(req[p])
    BY DEF Forma, ComCampos, ComToken
  <1>2. ASSUME NEW r, NEW itens PROVE DeConsulta(Falha(r, itens))
    BY DEF Falha
  <1>3. ASSUME NEW r, NEW s, Fica(p, s), DeConsulta(s), UNCHANGED cadVars,
               Novo(p) \/ req[p].op = "consulta"
        PROVE  PassoAlheio
    BY <1>3, EfeitoDeFica, Novos, CamposDaConsulta DEF PassoAlheio, Alheia, Outros, cadVars
  <1>4. ASSUME NEW k, NEW item, req[p].op = "consulta", PoeItem(p, k, item), UNCHANGED cadVars
        PROVE  PassoAlheio
    <2> DEFINE itens == [req[p].itens EXCEPT ![k] = item]
    <2>1. DeConsulta([req[p] EXCEPT !.itens = itens])
      BY <1>1, <1>4
    <2>2. QED BY <1>2, <1>3, <1>4, <2>1 DEF PoeItem
  <1>5. CASE \E t \in Pedidos, lote \in BOOLEAN,
                chaves \in (SUBSET Gtins \union SUBSET Ufs) \ {{}} :
                Consultar(p, t, chaves, lote)
    BY <1>5, <1>3 DEF Consultar, Autentica
  <1>6. CASE \E k \in Chaves : LerKv(p, k)
    BY <1>6, <1>4 DEF LerKv, ItemEm
  <1>7. CASE \E k \in Chaves : SefazResponde(p, k)
    BY <1>7, <1>4 DEF SefazResponde, ItemEm
  <1>8. CASE \E k \in Chaves : GravarKv(p, k)
    BY <1>8, <1>4 DEF GravarKv, ItemEm
  <1>9. CASE \E k \in Chaves : FalharItem(p, k)
    BY <1>9, <1>2, <1>3 DEF FalharItem
  <1>10. CASE \E k \in Chaves : Registrar(p, k)
    <2>1. PICK k \in Chaves : Registrar(p, k)
      BY <1>10
    <2>2. Fica(p, [req[p] EXCEPT !.registrados = @ \union {k}])
      BY <2>1 DEF Registrar, Fica
    <2>3. QED BY <1>1, <1>3, <2>1, <2>2 DEF Registrar, Em
  <1>11. CASE ResponderConsulta(p)
    BY <1>11, <1>3 DEF ResponderConsulta, Em
  <1>12. CASE FalharRegistro(p)
    BY <1>12, <1>2, <1>3 DEF FalharRegistro, Em
  <1>13. QED
    BY <1>5, <1>6, <1>7, <1>8, <1>9, <1>10, <1>11, <1>12 DEF ConNext

(* The passing of time concerns others.                                    *)
LEMMA TempoAlheio ==
    ASSUME Forma, PassarTempo, UNCHANGED <<notas, solicitacoes, fonteVars>>
    PROVE  PassoAlheio
  <1>1. SUFFICES ASSUME NEW p \in Pedidos, Andando(p)
                 PROVE  Alheia(p)
    BY DEF PassoAlheio, PassarTempo, cadVars
  <1>2. req[p].op = "consulta" /\ {"op", "fase", "itens"} \subseteq DOMAIN req[p]
            /\ "token" \notin DOMAIN req[p]
    BY <1>1 DEF Andando, Forma, ComCampos, ComToken
  <1>3. DOMAIN req'[p] = DOMAIN req[p] /\ req'[p].op = req[p].op
    BY <1>1, <1>2 DEF PassarTempo
  <1>4. QED BY <1>2, <1>3, CamposDaConsulta DEF Alheia

(* The steps of an emission in its block: all of the request but where it is *)
(* and the notes it exports stays as it was.                                *)
PassoDoBloco(p) ==
    /\ BlocoNext(p)
    /\ UNCHANGED <<empresas, clientes, notas, solicitacoes, kv>>
    /\ req' = [q \in Pedidos |-> req'[q]]
    /\ Outros(p)
    /\ NoBloco(p)
    /\ req'[p].op = "emitir"
    /\ req'[p].fase \in {"trocada", "convertida", "enviado", "500"}
    /\ DOMAIN req'[p] = DOMAIN req[p]
    /\ \A x \in DOMAIN req[p] \ {"fase", "notas"} : req'[p][x] = req[p][x]

LEMMA EfeitoDoBloco ==
    ASSUME Forma, NEW p \in Pedidos, BlocoNext(p),
           UNCHANGED <<empresas, clientes, notas, solicitacoes, kv>>
    PROVE  PassoDoBloco(p)
  <1>1. "op" \in DOMAIN req[p] /\ "fase" \in DOMAIN req[p] /\ ComCampos(req[p])
    BY DEF Forma, ComCampos
  <1>2. CASE \E c \in Classes : ConverterParte(p, c)
    BY <1>2 DEF ConverterParte, PassoDoBloco, Outros, NoBloco, Forma
  <1>3. ASSUME NEW v \in {"convertida", "500"}, Segue(p, v), NoBloco(p)
        PROVE  PassoDoBloco(p)
    BY <1>1, <1>3, EfeitoDeSegue DEF PassoDoBloco, SoMudaFase, NoBloco
  <1>4. CASE ConverterNota(p)
    BY <1>3, <1>4 DEF ConverterNota, Em, NoBloco
  <1>5. CASE ExportarNota(p)
    <2>1. /\ req'[p] = [req[p] EXCEPT !.notas = NotasDa(fonte[p]), !.fase = "enviado"]
          /\ Outros(p) /\ req' = [q \in Pedidos |-> req'[q]]
      BY <1>5, EfeitoDeFica DEF ExportarNota
    <2>2. /\ DOMAIN req'[p] = DOMAIN req[p] /\ req'[p].fase = "enviado"
          /\ \A x \in DOMAIN req[p] \ {"fase", "notas"} : req'[p][x] = req[p][x]
      BY <1>1, <2>1
    <2>3. NoBloco(p) /\ req'[p].op = "emitir"
      BY <1>1, <1>5, <2>2 DEF ExportarNota, Em, NoBloco
    <2>4. QED BY <2>1, <2>2, <2>3 DEF PassoDoBloco
  <1>6. CASE FalharNoBloco(p)
    BY <1>3, <1>6 DEF FalharNoBloco
  <1>7. QED BY <1>2, <1>4, <1>5, <1>6 DEF BlocoNext

(* In its block an emission keeps the fields it has.                        *)
LEMMA CamposNoBloco ==
    ASSUME Forma, NEW p \in Pedidos, PassoDoBloco(p)
    PROVE  /\ ComCampos(req'[p]) /\ req[p].op = "emitir"
           /\ req'[p].token = req[p].token /\ req'[p].empresa = req[p].empresa
           /\ "token" \in DOMAIN req[p]
  BY DEF Forma, PassoDoBloco, NoBloco, ComCampos, ComToken

(* A step is of the credentials, of the notes, an interruption, of others, or *)
(* of an emission in its block, when no other has its own.                   *)
LEMMA ModoDoPasso ==
    ASSUME Forma, [ApiNext]_apiVars
    PROVE  \/ CadNext /\ LacoLivre /\ UNCHANGED <<notas, solicitacoes, kv, fonteVars>>
           \/ \E p \in Pedidos : LgpdNext(p) /\ LacoLivre /\ UNCHANGED kv
           \/ \E p \in Pedidos : /\ Interromper(p) /\ LacoLivre
                                 /\ UNCHANGED <<empresas, clientes, notas, solicitacoes>>
           \/ PassoAlheio
           \/ \E p \in Pedidos : PassoDoBloco(p)
  <1>1. CASE UNCHANGED apiVars
    BY <1>1 DEF apiVars, PassoAlheio, Forma
  <1>2. CASE \E k \in Chaves : KvPerde(k) /\ UNCHANGED <<notas, solicitacoes, fonteVars>>
    BY <1>2 DEF KvPerde, cadVars, PassoAlheio, Forma
  <1>3. CASE \E p \in Pedidos : /\ BlocoNext(p)
                                /\ UNCHANGED <<empresas, clientes, notas, solicitacoes, kv>>
    BY <1>3, EfeitoDoBloco
  <1>4. CASE LacoLivre /\ ForaDoBloco
    BY <1>2, <1>4, FonteAlheia, ConsultaAlheia, TempoAlheio DEF ForaDoBloco
  <1>5. QED BY <1>1, <1>3, <1>4 DEF ApiNext
-----------------------------------------------------------------------------
(* The rows of a creation: both or none, of a request that got to the commit *)
(* (its answer may have been lost), and no other of the same CNPJ in the   *)
(* table or in a flush.                                                    *)
Linhas ==
    /\ empresas = [e \in DOMAIN empresas |-> empresas[e]]
    /\ clientes = [c \in DOMAIN clientes |-> clientes[c]]
    /\ DOMAIN empresas \subseteq Pedidos
    /\ \A e \in DOMAIN empresas : DOMAIN empresas[e] = {"cnpj", "csc"}
    /\ \A c \in DOMAIN clientes : DOMAIN clientes[c] = {"empresa", "prefixo", "ativo"}

Criadas ==
    \A e \in DOMAIN empresas :
        /\ req[e].op = "criar" /\ req[e].cnpj = empresas[e].cnpj
        /\ req[e].fase \in {"gravado", "201", "500"}

EmFlush ==
    \A p \in Pedidos : Em(p, "criar", "inserido") =>
        /\ Com(req[p].cnpj) = {}
        /\ \A q \in Pedidos :
              Em(q, "criar", "inserido") /\ req[q].cnpj = req[p].cnpj => q = p

CadastroIInv == Forma /\ Linhas /\ Criadas /\ EmFlush /\ EmpresaUnica

(* The steps no request of creation takes part in.                         *)
SemCriar ==
    /\ UNCHANGED cadVars
    /\ \A p \in Pedidos : req'[p] = req[p] \/ (req[p].op # "criar" /\ req'[p].op # "criar")

(* Nothing of the companies is disturbed by who does not create one.       *)
LEMMA SemCriarInv ==
    ASSUME CadastroIInv, SemCriar
    PROVE  (Linhas /\ Criadas /\ EmFlush /\ EmpresaUnica)'
  <1> USE DEF CadastroIInv, SemCriar, cadVars
  <1>1. Linhas'
    BY DEF Linhas
  <1>2. Criadas'
    BY DEF Linhas, Criadas
  <1>3. EmFlush'
    BY DEF EmFlush, Em, Com
  <1>4. EmpresaUnica'
    BY DEF EmpresaUnica, Em, Com
  <1>5. QED BY <1>1, <1>2, <1>3, <1>4

(* A creation goes on to v, and nothing is committed.                      *)
LEMMA CriarSegueInv ==
    ASSUME CadastroIInv, UNCHANGED cadVars, NEW p \in Pedidos, NEW v,
           req[p].op = "criar", Segue(p, v),
           \/ v = "inserido" /\ Com(req[p].cnpj) = {} /\ p \notin DOMAIN empresas
              /\ \A q \in Pedidos : Em(q, "criar", "inserido") => req[q].cnpj # req[p].cnpj
           \/ v = "500"
           \/ v = "201" /\ req[p].fase = "gravado"
    PROVE  (Linhas /\ Criadas /\ EmFlush /\ EmpresaUnica)'
  <1> USE DEF CadastroIInv, cadVars
  <1>1. /\ req'[p].op = "criar" /\ req'[p].cnpj = req[p].cnpj /\ req'[p].fase = v
        /\ Outros(p)
    BY EfeitoDeSegue DEF Forma, ComCampos, SoMudaFase
  <1>2. Linhas'
    BY DEF Linhas
  <1>3. Criadas'
    BY <1>1 DEF Linhas, Criadas, Outros
  <1>4. EmFlush'
    BY <1>1 DEF EmFlush, Em, Com, Outros
  <1>5. EmpresaUnica'
    BY <1>1 DEF EmpresaUnica, Em, Com, Outros
  <1>6. QED BY <1>2, <1>3, <1>4, <1>5

(* A creation starts, by the SELECT.                                       *)
LEMMA CriarInv ==
    ASSUME CadastroIInv, NEW p \in Pedidos, NEW cnpj, CriarEmpresa(p, cnpj)
    PROVE  (Linhas /\ Criadas /\ EmFlush /\ EmpresaUnica)'
  <1> USE DEF CadastroIInv, cadVars
  <1>1. /\ req'[p] = [op |-> "criar", cnpj |-> cnpj,
                      fase |-> IF Com(cnpj) = {} THEN "lido" ELSE "409"]
        /\ Outros(p) /\ UNCHANGED cadVars
    BY EfeitoDeFica DEF CriarEmpresa
  <1>2. p \notin DOMAIN empresas
    BY Novos DEF CriarEmpresa, Criadas
  <1>3. Linhas'
    BY <1>1 DEF Linhas
  <1>4. Criadas'
    BY <1>1, <1>2 DEF Linhas, Criadas, Outros
  <1>5. EmFlush'
    BY <1>1 DEF EmFlush, Em, Com, Outros
  <1>6. EmpresaUnica'
    BY <1>1 DEF EmpresaUnica, Em, Com, Outros
  <1>7. QED BY <1>3, <1>4, <1>5, <1>6

(* The commit of a creation: its CNPJ was free in the flush, and still is. *)
LEMMA GravarInv ==
    ASSUME CadastroIInv, NEW p \in Pedidos, NEW k, GravarCadastro(p, k)
    PROVE  (Linhas /\ Criadas /\ EmFlush /\ EmpresaUnica)'
  <1> USE DEF CadastroIInv
  <1>1. /\ req[p].op = "criar" /\ req[p].fase = "inserido"
        /\ req'[p].op = "criar" /\ req'[p].cnpj = req[p].cnpj /\ req'[p].fase = "gravado"
        /\ Outros(p)
    BY EfeitoDeSegue DEF GravarCadastro, Em, Forma, ComCampos, SoMudaFase
  <1>2. /\ DOMAIN empresas' = DOMAIN empresas \union {p}
        /\ DOMAIN clientes' = DOMAIN clientes \union {p}
        /\ empresas'[p] = [cnpj |-> req[p].cnpj, csc |-> p]
        /\ clientes'[p] = [empresa |-> p, prefixo |-> k, ativo |-> TRUE]
        /\ \A e \in DOMAIN empresas \ {p} : empresas'[e] = empresas[e]
        /\ \A c \in DOMAIN clientes \ {p} : clientes'[c] = clientes[c]
        /\ empresas' = [e \in DOMAIN empresas' |-> empresas'[e]]
        /\ clientes' = [c \in DOMAIN clientes' |-> clientes'[c]]
    BY DEF GravarCadastro
  <1>3. p \notin DOMAIN empresas
    BY <1>1 DEF Criadas
  <1>4. \A e \in DOMAIN empresas : empresas[e].cnpj # req[p].cnpj
    BY <1>1 DEF EmFlush, Em, Com
  <1>5. Linhas'
    BY <1>2 DEF Linhas
  <1>6. Criadas'
    BY <1>1, <1>2, <1>3 DEF Linhas, Criadas, Outros
  <1>7. EmFlush'
    BY <1>1, <1>2 DEF EmFlush, Em, Com, Outros
  <1>8. EmpresaUnica'
    <2>1. ASSUME NEW e \in DOMAIN empresas', NEW f \in DOMAIN empresas',
                 empresas'[e].cnpj = empresas'[f].cnpj
          PROVE  e = f
      BY <1>2, <1>3, <1>4, <2>1 DEF EmpresaUnica
    <2>2. /\ DOMAIN clientes' = DOMAIN empresas'
          /\ \A c \in DOMAIN clientes' : clientes'[c].empresa = c
      BY <1>2 DEF EmpresaUnica
    <2>3. ASSUME NEW q \in Pedidos, req'[q].op = "criar", req'[q].fase \in {"gravado", "201"}
          PROVE  q \in DOMAIN empresas' /\ empresas'[q].cnpj = req'[q].cnpj
      BY <1>1, <1>2, <1>3, <2>3 DEF EmpresaUnica, Outros
    <2>4. ASSUME NEW q \in Pedidos, Em(q, "criar", "409")'
          PROVE  Com(req[q].cnpj)' # {}
      BY <1>1, <1>2, <1>3, <2>4 DEF EmpresaUnica, Outros, Em, Com
    <2>5. QED BY <1>1, <2>1, <2>2, <2>3, <2>4 DEF EmpresaUnica, Em, Com, Outros
  <1>9. QED BY <1>5, <1>6, <1>7, <1>8

(* Disabling a client changes no key.                                      *)
LEMMA DesativarInv ==
    ASSUME CadastroIInv, NEW c \in DOMAIN clientes, DesativarCliente(c)
    PROVE  (Linhas /\ Criadas /\ EmFlush /\ EmpresaUnica)'
  <1>1. /\ DOMAIN clientes' = DOMAIN clientes
        /\ clientes' = [d \in DOMAIN clientes' |-> clientes'[d]]
        /\ \A d \in DOMAIN clientes : /\ DOMAIN clientes'[d] = DOMAIN clientes[d]
                                      /\ clientes'[d].empresa = clientes[d].empresa
        /\ UNCHANGED <<empresas, req>>
    BY DEF DesativarCliente, CadastroIInv, Linhas
  <1>2. QED BY <1>1 DEF CadastroIInv, Linhas, Criadas, EmFlush, EmpresaUnica, Em, Com

(* The update of a company keeps its CNPJ.                                 *)
LEMMA GravarEmpresaInv ==
    ASSUME CadastroIInv, NEW p \in Pedidos, GravarEmpresa(p)
    PROVE  (Linhas /\ Criadas /\ EmFlush /\ EmpresaUnica)'
  <1> USE DEF CadastroIInv
  <1>1. req[p].op = "atualizar" /\ req'[p].op = "atualizar" /\ Outros(p)
    BY EfeitoDeSegue DEF GravarEmpresa, Em, Forma, ComCampos, SoMudaFase
  <1>2. /\ DOMAIN empresas' = DOMAIN empresas
        /\ empresas' = [e \in DOMAIN empresas' |-> empresas'[e]]
        /\ \A e \in DOMAIN empresas : /\ DOMAIN empresas'[e] = DOMAIN empresas[e]
                                      /\ empresas'[e].cnpj = empresas[e].cnpj
        /\ UNCHANGED clientes
    BY DEF GravarEmpresa, Linhas
  <1>3. Linhas' /\ Criadas'
    BY <1>1, <1>2 DEF Linhas, Criadas, Outros
  <1>4. \A x : Com(x)' = Com(x)
    BY <1>2 DEF Com
  <1>5. EmFlush'
    BY <1>1, <1>4 DEF EmFlush, Em, Outros
  <1>6. EmpresaUnica'
    <2>1. \A e, f \in DOMAIN empresas' : empresas'[e].cnpj = empresas'[f].cnpj => e = f
      BY <1>2 DEF EmpresaUnica
    <2>2. /\ DOMAIN clientes' = DOMAIN empresas'
          /\ \A c \in DOMAIN clientes' : clientes'[c].empresa = c
      BY <1>2 DEF EmpresaUnica
    <2>3. ASSUME NEW q \in Pedidos, req'[q].op = "criar", req'[q].fase \in {"gravado", "201"}
          PROVE  q \in DOMAIN empresas' /\ empresas'[q].cnpj = req'[q].cnpj
      BY <1>1, <1>2, <2>3 DEF EmpresaUnica, Outros
    <2>4. ASSUME NEW q \in Pedidos, Em(q, "criar", "409")'
          PROVE  (Com(req[q].cnpj) # {})'
      BY <1>1, <1>2, <2>4 DEF EmpresaUnica, Outros, Em, Com
    <2>5. QED BY <2>1, <2>2, <2>3, <2>4 DEF EmpresaUnica, Em
  <1>7. QED BY <1>3, <1>5, <1>6
-----------------------------------------------------------------------------
(* What a request of the notes leaves of itself.                           *)
LEMMA LgpdCampos ==
    ASSUME Forma, NEW p \in Pedidos, LgpdNext(p)
    PROVE  /\ UNCHANGED cadVars
           /\ req' = [q \in Pedidos |-> req'[q]]
           /\ Outros(p)
           /\ ComCampos(req'[p])
           /\ req[p].op \notin Credenciais /\ req'[p].op \notin Credenciais
  <1> USE DEF ComToken, Credenciais
  <1>1. CASE \E t \in Pedidos, d \in Documentos \union {SemCliente} : Emitir(p, t, d)
    <2>1. PICK t \in Pedidos, d \in Documentos \union {SemCliente} : Emitir(p, t, d)
      BY <1>1
    <2>2. PICK e : Fica(p, [op |-> "emitir", fase |-> "trocada", token |-> t, doc |-> d,
                            empresa |-> e, anterior |-> modulo, notas |-> <<>>])
      BY <2>1 DEF Emitir
    <2>3. QED BY <2>1, <2>2, EfeitoDeFica, Novos DEF Emitir, Autentica, ComCampos
  <1>2. CASE \E t \in Pedidos, d \in Documentos : Anonimizar(p, t, d)
    BY <1>2, EfeitoDeFica, Novos DEF Anonimizar, Autentica, ComCampos
  <1>3. CASE \E t, s \in Pedidos : ConsultarSolicitacao(p, t, s)
    BY <1>3, EfeitoDeFica, Novos DEF ConsultarSolicitacao, Autentica, ComCampos
  <1>4. CASE GravarNota(p)
    BY <1>4, EfeitoDeSegue, CamposFicam DEF GravarNota, Em, Forma
  <1>5. CASE Selecionar(p)
    <2>1. {"op", "fase", "alvo", "vistas"} \subseteq DOMAIN req[p] /\ req[p].op = "anonimizar"
            /\ ComCampos(req[p])
      BY <1>5 DEF Selecionar, Em, Forma, ComCampos
    <2>2. /\ UNCHANGED cadVars /\ Outros(p) /\ req' = [q \in Pedidos |-> req'[q]]
          /\ req'[p] = [req[p] EXCEPT !.alvo = NotasDoDocumento(req[p].empresa, req[p].doc),
                              !.vistas = DOMAIN notas, !.fase = "selecionado"]
      BY <1>5, EfeitoDeFica DEF Selecionar
    <2>3. DOMAIN req'[p] = DOMAIN req[p] /\ req'[p].op = req[p].op
      BY <2>1, <2>2
    <2>4. QED BY <2>1, <2>2, <2>3 DEF ComCampos
  <1>6. CASE ApagarDados(p)
    BY <1>6, EfeitoDeSegue, CamposFicam DEF ApagarDados, Em, Forma
  <1>7. CASE RegistrarSolicitacao(p)
    BY <1>7, EfeitoDeSegue, CamposFicam DEF RegistrarSolicitacao, Em, Forma
  <1>8. QED
    BY <1>1, <1>2, <1>3, <1>4, <1>5, <1>6, <1>7 DEF LgpdNext

(* A request keeps the fields of its operation.                            *)
LEMMA FormaInv ==
    ASSUME Forma, [ApiNext]_apiVars
    PROVE  Forma'
  <1>1. ASSUME NEW p \in Pedidos, req' = [q \in Pedidos |-> req'[q]], Outros(p),
               ComCampos(req'[p])
        PROVE  Forma'
    BY <1>1 DEF Forma, Outros
  <1>2. ASSUME NEW p \in Pedidos, NEW v, Segue(p, v), v # "200" \/ req[p].op # "solicitacao"
        PROVE  Forma'
    BY <1>1, <1>2, EfeitoDeSegue, CamposFicam DEF Forma
  <1>3. ASSUME NEW p \in Pedidos, NEW r, Fica(p, r), ComCampos(r)
        PROVE  Forma'
    BY <1>1, <1>3, EfeitoDeFica
  <1>4. CASE CadNext
    <2> USE DEF ComCampos, ComToken
    <2>1. CASE \E p \in Pedidos, cnpj \in Cnpjs : CriarEmpresa(p, cnpj)
      BY <2>1, <1>3 DEF CriarEmpresa
    <2>2. CASE \E p \in Pedidos : Inserir(p)
      BY <2>2, <1>2 DEF Inserir
    <2>3. CASE \E p \in Pedidos, k \in Prefixos : GravarCadastro(p, k)
      BY <2>3, <1>2 DEF GravarCadastro
    <2>4. CASE \E p \in Pedidos : EntregarCredenciais(p)
      BY <2>4, <1>2 DEF EntregarCredenciais
    <2>5. CASE \E p, s \in Pedidos, k \in Prefixos : Login(p, s, k)
      BY <2>5, <1>3 DEF Login
    <2>6. CASE \E p, t \in Pedidos : Refresh(p, t) \/ Recusar(p, t) \/ Atualizar(p, t)
      BY <2>6, <1>3 DEF Refresh, Recusar, Atualizar
    <2>7. CASE \E p \in Pedidos : GravarEmpresa(p)
      BY <2>7, <1>2 DEF GravarEmpresa, Em
    <2>8. CASE \E c \in DOMAIN clientes : DesativarCliente(c)
      BY <2>8 DEF DesativarCliente, Forma
    <2>9. QED BY <1>4, <2>1, <2>2, <2>3, <2>4, <2>5, <2>6, <2>7, <2>8 DEF CadNext
  <1>5. CASE \E p \in Pedidos : LgpdNext(p)
    BY <1>1, <1>5, LgpdCampos
  <1>6. CASE \E p \in Pedidos : Interromper(p)
    BY <1>2, <1>6 DEF Interromper
  <1>7. CASE PassoAlheio
    BY <1>7 DEF PassoAlheio, Alheia, Forma
  <1>8. CASE \E p \in Pedidos : PassoDoBloco(p)
    BY <1>1, <1>8, CamposNoBloco DEF PassoDoBloco
  <1>9. QED BY <1>4, <1>5, <1>6, <1>7, <1>8, ModoDoPasso

(* The invariant of the companies is inductive.                            *)
LEMMA NextCadastroIInv ==
    ASSUME CadastroIInv, [ApiNext]_apiVars
    PROVE  CadastroIInv'
  <1> USE DEF CadastroIInv
  <1> DEFINE Inv == Linhas /\ Criadas /\ EmFlush /\ EmpresaUnica
  <1> SUFFICES Inv'
    BY FormaInv
  <1>1. ASSUME NEW p \in Pedidos, NEW r, Novo(p), Fica(p, r), r.op # "criar",
               UNCHANGED cadVars
        PROVE  Inv'
    <2>1. SemCriar
      BY <1>1, EfeitoDeFica, Novos DEF SemCriar, Outros
    <2>2. QED BY <2>1, SemCriarInv
  <1>2. CASE CadNext
    <2>1. CASE \E p \in Pedidos, cnpj \in Cnpjs : CriarEmpresa(p, cnpj)
      BY <2>1, CriarInv
    <2>2. CASE \E p \in Pedidos : Inserir(p)
      <3>1. PICK p \in Pedidos : Inserir(p)
        BY <2>2
      <3>2. req[p].op = "criar" /\ p \notin DOMAIN empresas
        BY <3>1 DEF Inserir, Em, Criadas
      <3>3. QED BY <3>1, <3>2, CriarSegueInv DEF Inserir
    <2>3. CASE \E p \in Pedidos, k \in Prefixos : GravarCadastro(p, k)
      BY <2>3, GravarInv
    <2>4. CASE \E p \in Pedidos : EntregarCredenciais(p)
      BY <2>4, CriarSegueInv DEF EntregarCredenciais, Em
    <2>5. CASE \E p, s \in Pedidos, k \in Prefixos : Login(p, s, k)
      BY <2>5, <1>1 DEF Login
    <2>6. CASE \E p, t \in Pedidos : Refresh(p, t) \/ Recusar(p, t) \/ Atualizar(p, t)
      BY <2>6, <1>1 DEF Refresh, Recusar, Atualizar, Autentica
    <2>7. CASE \E p \in Pedidos : GravarEmpresa(p)
      BY <2>7, GravarEmpresaInv
    <2>8. CASE \E c \in DOMAIN clientes : DesativarCliente(c)
      BY <2>8, DesativarInv
    <2>9. QED BY <1>2, <2>1, <2>2, <2>3, <2>4, <2>5, <2>6, <2>7, <2>8 DEF CadNext
  <1>3. CASE \E p \in Pedidos : LgpdNext(p)
    <2>1. SemCriar
      BY <1>3, LgpdCampos DEF SemCriar, Outros, Credenciais
    <2>2. QED BY <2>1, SemCriarInv
  <1>4. CASE \E p \in Pedidos : /\ Interromper(p)
                                /\ UNCHANGED <<empresas, clientes, notas, solicitacoes>>
    <2>1. PICK p \in Pedidos : Segue(p, "500") /\ UNCHANGED cadVars
      BY <1>4 DEF Interromper, cadVars
    <2>2. CASE req[p].op = "criar"
      BY <2>1, <2>2, CriarSegueInv
    <2>3. CASE req[p].op # "criar"
      <3>1. SemCriar
        BY <2>1, <2>3, EfeitoDeSegue DEF SemCriar, Outros, SoMudaFase, Forma, ComCampos
      <3>2. QED BY <3>1, SemCriarInv
    <2>4. QED BY <2>2, <2>3
  <1>5. CASE PassoAlheio
    <2>1. SemCriar
      BY <1>5 DEF PassoAlheio, Alheia, SemCriar, cadVars
    <2>2. QED BY <2>1, SemCriarInv
  <1>6. CASE \E p \in Pedidos : PassoDoBloco(p)
    <2>1. SemCriar
      BY <1>6 DEF PassoDoBloco, NoBloco, Outros, SemCriar, cadVars
    <2>2. QED BY <2>1, SemCriarInv
  <1>7. QED BY <1>2, <1>3, <1>4, <1>5, <1>6, ModoDoPasso

(* What was answered before satisfies it.                                  *)
LEMMA InitCadastroIInv == ApiInit => CadastroIInv
  <1> SUFFICES ASSUME ApiInit PROVE CadastroIInv
    OBVIOUS
  <1> USE DEF ApiInit, ReqInit, CadInit, Livre
  <1>1. \A p \in Pedidos : req[p] = (IF p \in DOMAIN Antes THEN Antes[p] ELSE Livre)
    OBVIOUS
  <1>2. Forma
    BY AntesRespondidos DEF Forma, ComCampos, ComToken
  <1>3. Linhas
    BY AntesAssumption DEF Linhas
  <1>4. Criadas
    BY AntesAssumption, AntesRespondidos DEF Criadas
  <1>5. EmFlush
    BY AntesRespondidos DEF EmFlush, Em
  <1>6. EmpresaUnica
    BY AntesAssumption, AntesRespondidos DEF EmpresaUnica, Em
  <1>7. QED BY <1>2, <1>3, <1>4, <1>5, <1>6 DEF CadastroIInv

(* However many requests ask for a company at once, and wherever they are  *)
(* interrupted, a CNPJ has one company, with its client.                   *)
THEOREM EmpresaPorCnpj == ApiSpec => []EmpresaUnica
  <1>1. CadastroIInv /\ [ApiNext]_apiVars => CadastroIInv'
    BY NextCadastroIInv
  <1>2. CadastroIInv => EmpresaUnica
    BY DEF CadastroIInv
  <1>3. QED BY InitCadastroIInv, <1>1, <1>2, PTL DEF ApiSpec
-----------------------------------------------------------------------------
(* A login or a refresh is answered at once and for good, and its secret is *)
(* of a client.                                                            *)
Sessoes == {"login", "refresh"}

Emitidos ==
    \A p \in Pedidos : req[p].op \in Sessoes =>
        /\ req[p].fase \in Finais
        /\ req[p].segredo \in DOMAIN clientes
        /\ req[p].sub = req[p].segredo

(* Clients are never removed, and only ever disabled.                      *)
ClientesFicam ==
    /\ DOMAIN clientes \subseteq DOMAIN clientes'
    /\ \A c \in DOMAIN clientes :
          /\ clientes'[c].empresa = clientes[c].empresa
          /\ clientes'[c].prefixo = clientes[c].prefixo
          /\ clientes'[c].ativo => clientes[c].ativo

(* No step removes a client or changes its key.                            *)
LEMMA ClientesCrescem ==
    ASSUME CadastroIInv, [ApiNext]_apiVars
    PROVE  ClientesFicam
  <1>1. CASE UNCHANGED clientes
    BY <1>1 DEF ClientesFicam
  <1>2. CASE \E p \in Pedidos, k \in Prefixos : GravarCadastro(p, k)
    <2>1. PICK p \in Pedidos, k \in Prefixos : GravarCadastro(p, k)
      BY <1>2
    <2>2. p \notin DOMAIN clientes
      BY <2>1 DEF GravarCadastro, Em, CadastroIInv, Criadas, EmpresaUnica
    <2>3. QED BY <2>1, <2>2 DEF GravarCadastro, ClientesFicam
  <1>3. CASE \E c \in DOMAIN clientes : DesativarCliente(c)
    BY <1>3 DEF DesativarCliente, ClientesFicam, CadastroIInv, Linhas
  <1>4. CadNext => UNCHANGED clientes \/ (\E p \in Pedidos, k \in Prefixos : GravarCadastro(p, k))
                     \/ (\E c \in DOMAIN clientes : DesativarCliente(c))
    BY DEF CadNext, CriarEmpresa, Inserir, EntregarCredenciais, Login, Refresh, Recusar, Atualizar,
           GravarEmpresa, cadVars
  <1>5. QED
    BY <1>1, <1>2, <1>3, <1>4, ModoDoPasso, LgpdCampos
       DEF CadastroIInv, PassoAlheio, PassoDoBloco, cadVars

(* A request becomes a login or a refresh by these actions only.           *)
LEMMA SessoesFicam ==
    ASSUME CadastroIInv, Emitidos, [ApiNext]_apiVars, NEW p \in Pedidos
    PROVE  \/ req'[p] = req[p]
           \/ req[p].op \notin Sessoes /\ req'[p].op \notin Sessoes
           \/ \E s \in Pedidos, k \in Prefixos : Login(p, s, k)
           \/ \E t \in Pedidos : Refresh(p, t)
  <1> USE DEF CadastroIInv, Sessoes
  <1>1. ASSUME NEW q \in Pedidos, NEW r, Novo(q), Fica(q, r), r.op \notin Sessoes
        PROVE  req'[p] = req[p] \/ (req[p].op \notin Sessoes /\ req'[p].op \notin Sessoes)
    BY <1>1, EfeitoDeFica, Novos DEF Outros
  <1>2. ASSUME NEW q \in Pedidos, NEW v, Segue(q, v), req[q].op \notin Sessoes
        PROVE  req'[p] = req[p] \/ (req[p].op \notin Sessoes /\ req'[p].op \notin Sessoes)
    BY <1>2, EfeitoDeSegue DEF Outros, SoMudaFase, Forma, ComCampos
  <1>3. CASE CadNext
    <2>1. CASE \E q \in Pedidos, cnpj \in Cnpjs : CriarEmpresa(q, cnpj)
      BY <2>1, <1>1 DEF CriarEmpresa
    <2>2. CASE \E q \in Pedidos : Inserir(q)
      BY <2>2, <1>2 DEF Inserir, Em
    <2>3. CASE \E q \in Pedidos, k \in Prefixos : GravarCadastro(q, k)
      BY <2>3, <1>2 DEF GravarCadastro, Em
    <2>4. CASE \E q \in Pedidos : EntregarCredenciais(q)
      BY <2>4, <1>2 DEF EntregarCredenciais, Em
    <2>5. CASE \E q, s \in Pedidos, k \in Prefixos : Login(q, s, k)
      BY <2>5, EfeitoDeFica DEF Login, Outros
    <2>6. CASE \E q, t \in Pedidos : Refresh(q, t)
      BY <2>6, EfeitoDeFica DEF Refresh, Outros
    <2>7. CASE \E q, t \in Pedidos : Recusar(q, t) \/ Atualizar(q, t)
      BY <2>7, <1>1 DEF Recusar, Atualizar, Autentica
    <2>8. CASE \E q \in Pedidos : GravarEmpresa(q)
      BY <2>8, <1>2 DEF GravarEmpresa, Em
    <2>9. CASE \E c \in DOMAIN clientes : DesativarCliente(c)
      BY <2>9 DEF DesativarCliente
    <2>10. QED BY <1>3, <2>1, <2>2, <2>3, <2>4, <2>5, <2>6, <2>7, <2>8, <2>9 DEF CadNext
  <1>4. CASE \E q \in Pedidos : LgpdNext(q)
    BY <1>4, LgpdCampos DEF Outros, Credenciais
  <1>5. CASE \E q \in Pedidos : Interromper(q)
    BY <1>5, <1>2 DEF Interromper, EmCurso, Emitidos
  <1>6. CASE PassoAlheio
    BY <1>6 DEF PassoAlheio, Alheia
  <1>7. CASE \E q \in Pedidos : PassoDoBloco(q)
    BY <1>7 DEF PassoDoBloco, NoBloco, Outros
  <1>8. QED BY <1>3, <1>4, <1>5, <1>6, <1>7, ModoDoPasso

(* What a login answers, by what the table holds then.                     *)
LEMMA RespostaDoLogin ==
    ASSUME CadastroIInv, NEW s \in DOMAIN clientes, NEW k
    PROVE  /\ ResultadoDoLogin(s, k) \in {"200", "401", "500"}
           /\ ResultadoDoLogin(s, k) = "200" => clientes[s].prefixo = k
           /\ clientes[s].prefixo = k =>
                 /\ ComPrefixo(k) = {s} /\ clientes[s].ativo => ResultadoDoLogin(s, k) = "200"
                 /\ ResultadoDoLogin(s, k) = "500" => ComPrefixo(k) # {s}
                 /\ ResultadoDoLogin(s, k) = "401" => ~clientes[s].ativo
  <1>1. IsFiniteSet(ComPrefixo(k))
    <2>1. ComPrefixo(k) \in SUBSET Pedidos
      BY DEF ComPrefixo, CadastroIInv, Linhas, EmpresaUnica
    <2>2. QED BY <2>1, AntesRespondidos, FS_Subset
  <1>2. Cardinality(ComPrefixo(k)) \in Nat
    BY <1>1, FS_CardinalityType
  <1>3. ComPrefixo(k) = {s} => Cardinality(ComPrefixo(k)) = 1
    BY FS_Singleton
  <1>4. clientes[s].prefixo = k => s \in ComPrefixo(k)
    BY DEF ComPrefixo
  <1>5. ComPrefixo(k) = {s} => clientes[s].prefixo = k
    BY DEF ComPrefixo
  <1>6. s \in ComPrefixo(k) /\ ~(Cardinality(ComPrefixo(k)) > 1) => ComPrefixo(k) = {s}
    <2>1. SUFFICES ASSUME s \in ComPrefixo(k), Cardinality(ComPrefixo(k)) <= 1
                   PROVE  ComPrefixo(k) = {s}
      BY <1>2
    <2>2. Cardinality(ComPrefixo(k)) # 0
      BY <1>1, <2>1, FS_EmptySet
    <2>3. Cardinality(ComPrefixo(k)) = 1
      BY <1>2, <2>1, <2>2
    <2>4. PICK x : ComPrefixo(k) = {x}
      BY <1>1, <2>3, FS_Singleton
    <2>5. QED BY <2>1, <2>4
  <1> DEFINE r == ResultadoDoLogin(s, k)
  <1>7. CASE Cardinality(ComPrefixo(k)) > 1
    <2>1. r = "500" /\ ComPrefixo(k) # {s}
      BY <1>3, <1>7 DEF ResultadoDoLogin
    <2>2. QED BY <2>1
  <1>8. CASE ComPrefixo(k) = {s} /\ clientes[s].ativo
    <2>1. r = "200"
      BY <1>3, <1>8 DEF ResultadoDoLogin
    <2>2. QED BY <1>5, <1>8, <2>1
  <1>9. CASE ~(Cardinality(ComPrefixo(k)) > 1) /\ ~(ComPrefixo(k) = {s} /\ clientes[s].ativo)
    <2>1. r = "401"
      BY <1>9 DEF ResultadoDoLogin
    <2>2. QED BY <1>4, <1>6, <1>9, <2>1
  <1>10. QED BY <1>7, <1>8, <1>9

LoginIInv == CadastroIInv /\ Emitidos /\ LoginDoDono

(* The invariant of the logins is inductive.                               *)
LEMMA NextLoginIInv ==
    ASSUME LoginIInv, [ApiNext]_apiVars
    PROVE  LoginIInv'
  <1> USE DEF LoginIInv
  <1>1. CadastroIInv' /\ ClientesFicam
    BY NextCadastroIInv, ClientesCrescem
  <1>2. ASSUME NEW p \in Pedidos, NEW s \in Pedidos, NEW k \in Prefixos, Login(p, s, k)
        PROVE  /\ req'[p].segredo = s /\ req'[p].sub = s /\ req'[p].prefixo = k
               /\ req'[p].fase = ResultadoDoLogin(s, k)
               /\ s \in DOMAIN clientes
               /\ clientes' = clientes
    <2>1. s \in DOMAIN clientes
      BY <1>2 DEF Login, Em, CadastroIInv, EmpresaUnica
    <2>2. req'[p] = [op |-> "login", segredo |-> s, prefixo |-> k, sub |-> s,
                     fase |-> ResultadoDoLogin(s, k)]
      BY <1>2, EfeitoDeFica DEF Login, CadastroIInv
    <2>3. QED BY <1>2, <2>1, <2>2 DEF Login, cadVars
  <1>3. Emitidos'
    <2> SUFFICES ASSUME NEW p \in Pedidos, req'[p].op \in Sessoes
                 PROVE  /\ req'[p].fase \in Finais
                        /\ req'[p].segredo \in DOMAIN clientes'
                        /\ req'[p].sub = req'[p].segredo
      BY DEF Emitidos
    <2>1. CASE req'[p] = req[p]
      BY <1>1, <2>1 DEF Emitidos, ClientesFicam
    <2>2. CASE \E s \in Pedidos, k \in Prefixos : Login(p, s, k)
      <3>1. PICK s \in Pedidos, k \in Prefixos : Login(p, s, k)
        BY <2>2
      <3>2. /\ req'[p].segredo = s /\ req'[p].sub = s /\ s \in DOMAIN clientes
            /\ req'[p].fase = ResultadoDoLogin(s, k) /\ clientes' = clientes
        BY <1>2, <3>1
      <3>3. ResultadoDoLogin(s, k) \in {"200", "401", "500"}
        BY <3>2, RespostaDoLogin
      <3>4. QED BY <3>2, <3>3 DEF Finais
    <2>3. CASE \E t \in Pedidos : Refresh(p, t)
      <3>1. PICK t \in Pedidos : Refresh(p, t)
        BY <2>3
      <3>2. req'[p] = [op |-> "refresh", segredo |-> req[t].segredo, sub |-> req[t].sub,
                       fase |-> "200"]
        BY <3>1, EfeitoDeFica DEF Refresh, CadastroIInv
      <3>3. req[t].segredo \in DOMAIN clientes' /\ req[t].sub = req[t].segredo
        BY <1>1, <3>1 DEF Refresh, Token, Emitidos, ClientesFicam, Sessoes
      <3>4. QED BY <3>2, <3>3 DEF Finais
    <2>4. QED BY <2>1, <2>2, <2>3, SessoesFicam
  <1>4. LoginDoDono'
    <2> DEFINE Certo(p) ==
          LET s == req[p].segredo
              doDono == req[p].op = "login" /\ req[p].prefixo = clientes[s].prefixo
              unico == ComPrefixo(req[p].prefixo) = {s}
          IN  /\ req[p].op = "login" /\ req[p].fase = "200" => doDono
              /\ doDono /\ unico /\ clientes[s].ativo => req[p].fase = "200"
              /\ doDono /\ req[p].fase = "500" => ~unico
              /\ doDono /\ req[p].fase = "401" => ~clientes[s].ativo
    <2> SUFFICES ASSUME NEW p \in Pedidos, req'[p].op = "login"
                 PROVE  Certo(p)'
      BY DEF LoginDoDono
    <2>1. CASE req'[p] = req[p]
      <3>1. Certo(p) /\ req[p].segredo \in DOMAIN clientes
        BY <2>1 DEF LoginDoDono, Emitidos, Sessoes
      <3>2. ASSUME (ComPrefixo(req[p].prefixo) = {req[p].segredo})',
                   req[p].prefixo = clientes[req[p].segredo].prefixo
            PROVE  ComPrefixo(req[p].prefixo) = {req[p].segredo}
        BY <1>1, <2>1, <3>1, <3>2 DEF ComPrefixo, ClientesFicam
      <3>3. QED BY <1>1, <2>1, <3>1, <3>2 DEF ClientesFicam
    <2>2. CASE \E s \in Pedidos, k \in Prefixos : Login(p, s, k)
      <3>1. PICK s \in Pedidos, k \in Prefixos : Login(p, s, k)
        BY <2>2
      <3>2. /\ req'[p].segredo = s /\ req'[p].prefixo = k /\ s \in DOMAIN clientes
            /\ req'[p].fase = ResultadoDoLogin(s, k) /\ clientes' = clientes
        BY <1>2, <3>1
      <3>3. ComPrefixo(req[p].prefixo)' = ComPrefixo(k)
        BY <3>2 DEF ComPrefixo
      <3>4. QED BY <3>2, <3>3, RespostaDoLogin
    <2>3. CASE \E t \in Pedidos : Refresh(p, t)
      BY <2>3, EfeitoDeFica DEF Refresh, CadastroIInv
    <2>4. QED BY <2>1, <2>2, <2>3, SessoesFicam DEF Sessoes
  <1>5. QED BY <1>1, <1>3, <1>4

(* The tokens there are at first are of their owners.                      *)
LEMMA InitLoginIInv == ApiInit => LoginIInv
  <1> SUFFICES ASSUME ApiInit PROVE LoginIInv
    OBVIOUS
  <1>1. CadastroIInv
    BY InitCadastroIInv
  <1>2. \A p \in Pedidos : req[p].op \in Sessoes =>
          /\ p \in DOMAIN Antes /\ req[p] = Antes[p] /\ req[p].op = "login"
          /\ req[p].fase = "200" /\ req[p].segredo \in DOMAIN clientes
          /\ req[p].sub = req[p].segredo
          /\ req[p].prefixo = clientes[req[p].segredo].prefixo
    BY AntesRespondidos DEF ApiInit, ReqInit, CadInit, Livre, Sessoes
  <1>3. Emitidos
    BY <1>2 DEF Emitidos, Finais
  <1>4. LoginDoDono
    BY <1>2 DEF LoginDoDono, Sessoes
  <1>5. QED BY <1>1, <1>3, <1>4 DEF LoginIInv

(* The logins hold in every state.                                         *)
LEMMA SpecLoginIInv == ApiSpec => []LoginIInv
  <1>1. LoginIInv /\ [ApiNext]_apiVars => LoginIInv'
    BY NextLoginIInv
  <1>2. QED BY InitLoginIInv, <1>1, PTL DEF ApiSpec

(* Whatever prefixes are drawn, a login succeeds only for the owner of the *)
(* secret, and fails for the owner only by a shared prefix or once disabled. *)
THEOREM LoginSoDoDono == ApiSpec => []LoginDoDono
  <1>1. LoginIInv => LoginDoDono
    BY DEF LoginIInv
  <1>2. QED BY SpecLoginIInv, <1>1, PTL
-----------------------------------------------------------------------------
(* A request that came with a token is of the company of its secret.       *)
Portador(p) ==
    "token" \in DOMAIN req[p] =>
        /\ req[p].token \in Pedidos
        /\ Token(req[p].token)
        /\ req[p].empresa = req[req[p].token].segredo

(* What an erasure selected is all the company had of the document among the *)
(* rows it saw; once erased, none of it has the data.                      *)
Selecao(p) ==
    req[p].op = "anonimizar" =>
        /\ req[p].alvo \subseteq req[p].vistas
        /\ req[p].vistas \subseteq DOMAIN notas
        /\ \A n \in req[p].vistas :
              n \in req[p].alvo <=> /\ notas[n].empresa = req[p].empresa
                                    /\ notas[n].hash = req[p].doc
        /\ req[p].fase \in {"apagado", "200"} => \A n \in req[p].alvo : ~notas[n].dado

Leitura(p) ==
    Em(p, "solicitacao", "200") =>
        /\ req[p].lida \in DOMAIN solicitacoes
        /\ solicitacoes[req[p].lida].empresa = req[p].empresa

Coerente(p) == Portador(p) /\ Selecao(p) /\ Leitura(p)

LinhaDaNota(n) ==
    /\ n \in Pedidos /\ Em(n, "emitir", "200")
    /\ DOMAIN notas[n] = {"empresa", "dado", "hash"}
    /\ notas[n].empresa = req[n].empresa

LinhaDaSolicitacao(s) ==
    /\ s \in Pedidos /\ Em(s, "anonimizar", "200")
    /\ solicitacoes[s].empresa = req[s].empresa
    /\ solicitacoes[s].hash = req[s].doc
    /\ solicitacoes[s].registros = Cardinality(req[s].alvo)

UltimaEscrita(e) ==
    empresas[e].csc # e =>
        /\ empresas[e].csc \in Pedidos
        /\ Em(empresas[e].csc, "atualizar", "200")
        /\ req[empresas[e].csc].empresa = e

Rastreado ==
    /\ \A p \in Pedidos : Coerente(p)
    /\ \A n \in DOMAIN notas : LinhaDaNota(n)
    /\ \A s \in DOMAIN solicitacoes : LinhaDaSolicitacao(s)
    /\ \A e \in DOMAIN empresas : UltimaEscrita(e)

DonosIInv == LoginIInv /\ Rastreado

(* Rows of notes and of records are added, never moved to another company or *)
(* document, and data that was erased is not put back.                     *)
NotasFicam ==
    /\ DOMAIN notas \subseteq DOMAIN notas'
    /\ \A n \in DOMAIN notas :
          /\ DOMAIN notas'[n] = DOMAIN notas[n]
          /\ notas'[n].empresa = notas[n].empresa
          /\ notas'[n].hash = notas[n].hash
          /\ notas'[n].dado => notas[n].dado

SolicitacoesFicam ==
    /\ DOMAIN solicitacoes \subseteq DOMAIN solicitacoes'
    /\ \A s \in DOMAIN solicitacoes : solicitacoes'[s] = solicitacoes[s]

(* What a token stands for does not change.                                *)
LEMMA TokenFica ==
    ASSUME LoginIInv, [ApiNext]_apiVars, NEW t \in Pedidos, Token(t)
    PROVE  req'[t] = req[t]
  <1>1. req[t].op \in Sessoes /\ req[t].op # "nenhuma"
    BY DEF Token, Sessoes
  <1>2. ASSUME Novo(t) PROVE FALSE
    BY <1>1, <1>2, Novos DEF LoginIInv, CadastroIInv
  <1>3. QED BY <1>1, <1>2, SessoesFicam DEF LoginIInv, Login, Refresh

(* A request that does not change stays coherent with rows that only grow. *)
LEMMA CoerenteFica ==
    ASSUME DonosIInv, [ApiNext]_apiVars, NotasFicam, SolicitacoesFicam,
           NEW p \in Pedidos, req'[p] = req[p]
    PROVE  Coerente(p)'
  <1> USE DEF DonosIInv, Rastreado, Coerente
  <1>1. Portador(p)'
    BY TokenFica DEF Portador, Token
  <1>2. Selecao(p)'
    BY DEF Selecao, NotasFicam
  <1>3. Leitura(p)'
    BY DEF Leitura, Em, SolicitacoesFicam
  <1>4. QED BY <1>1, <1>2, <1>3

(* A request that only moves on stays coherent, if it does not claim to have *)
(* erased.                                                                 *)
LEMMA CoerenteSegue ==
    ASSUME DonosIInv, [ApiNext]_apiVars, NotasFicam, SolicitacoesFicam,
           NEW p \in Pedidos, NEW v, Segue(p, v), ~Token(p),
           req[p].op = "anonimizar" /\ v \in {"apagado", "200"} =>
               \A n \in req[p].alvo : ~notas'[n].dado,
           v = "200" => req[p].op # "solicitacao"
    PROVE  Coerente(p)'
  <1> USE DEF DonosIInv, Rastreado, Coerente
  <1>1. ComCampos(req[p]) /\ SoMudaFase(req[p], req'[p]) /\ req'[p].fase = v
    BY EfeitoDeSegue DEF LoginIInv, CadastroIInv, Forma
  <1>2. req'[p].op = req[p].op /\ DOMAIN req'[p] = DOMAIN req[p]
    BY <1>1 DEF SoMudaFase, ComCampos
  <1>3. Portador(p)'
    <2>1. SUFFICES ASSUME "token" \in DOMAIN req[p]
                   PROVE  Portador(p)'
      BY <1>2 DEF Portador
    <2>2. req'[p].token = req[p].token /\ req'[p].empresa = req[p].empresa
      BY <1>1, <2>1 DEF SoMudaFase, ComCampos
    <2>3. req'[req[p].token] = req[req[p].token]
      BY <2>1, TokenFica DEF Portador
    <2>4. QED BY <2>1, <2>2, <2>3 DEF Portador, Token
  <1>4. Selecao(p)'
    <2>1. SUFFICES ASSUME req[p].op = "anonimizar"
                   PROVE  Selecao(p)'
      BY <1>2 DEF Selecao
    <2>2. /\ req'[p].alvo = req[p].alvo /\ req'[p].vistas = req[p].vistas
          /\ req'[p].empresa = req[p].empresa /\ req'[p].doc = req[p].doc
      BY <1>1, <2>1 DEF SoMudaFase, ComCampos, ComToken
    <2>3. QED BY <1>1, <2>1, <2>2 DEF Selecao, NotasFicam
  <1>5. Leitura(p)'
    BY <1>1, <1>2 DEF Leitura, Em
  <1>6. QED BY <1>3, <1>4, <1>5

(* A request made with a token is of the company of its secret.            *)
LEMMA PortadorNasce ==
    ASSUME LoginIInv, [ApiNext]_apiVars, NEW p \in Pedidos, NEW t \in Pedidos, Autentica(p, t),
           req'[p].token = t, req'[p].empresa = clientes[req[t].sub].empresa
    PROVE  Portador(p)'
  <1>1. req'[t] = req[t]
    BY TokenFica DEF Autentica
  <1>2. clientes[req[t].sub].empresa = req[t].segredo
    BY DEF Autentica, Token, Sessoes, LoginIInv, CadastroIInv, Emitidos, EmpresaUnica
  <1>3. QED BY <1>1, <1>2 DEF Portador, Token, Autentica

(* A request without a token has nothing to be coherent with.              *)
LEMMA CoerenteSemToken ==
    ASSUME Forma', NEW p \in Pedidos, req'[p].op \notin ComToken
    PROVE  Coerente(p)'
  BY DEF Forma, ComCampos, ComToken, Coerente, Portador, Selecao, Leitura, Em

(* A request changes only before it is answered.                           *)
LEMMA RespondidaFica ==
    ASSUME Forma, [ApiNext]_apiVars, NEW p \in Pedidos, req[p].fase \in Finais,
           req[p].op \in ComToken
    PROVE  req'[p] = req[p]
  <1>1. ASSUME NEW q \in Pedidos, NEW r, Novo(q), Fica(q, r)
        PROVE  req'[p] = req[p]
    BY <1>1, EfeitoDeFica, Novos DEF Outros, Finais
  <1>2. ASSUME NEW q \in Pedidos, NEW v, Segue(q, v), req[q].fase \notin Finais
        PROVE  req'[p] = req[p]
    BY <1>2, EfeitoDeSegue DEF Outros
  <1>3. CASE CadNext
    <2>1. CASE \E q \in Pedidos, cnpj \in Cnpjs : CriarEmpresa(q, cnpj)
      BY <2>1, <1>1 DEF CriarEmpresa
    <2>2. CASE \E q \in Pedidos : Inserir(q)
      BY <2>2, <1>2 DEF Inserir, Em, Finais
    <2>3. CASE \E q \in Pedidos, k \in Prefixos : GravarCadastro(q, k)
      BY <2>3, <1>2 DEF GravarCadastro, Em, Finais
    <2>4. CASE \E q \in Pedidos : EntregarCredenciais(q)
      BY <2>4, <1>2 DEF EntregarCredenciais, Em, Finais
    <2>5. CASE \E q, s \in Pedidos, k \in Prefixos : Login(q, s, k)
      BY <2>5, <1>1 DEF Login
    <2>6. CASE \E q, t \in Pedidos : Refresh(q, t) \/ Recusar(q, t) \/ Atualizar(q, t)
      BY <2>6, <1>1 DEF Refresh, Recusar, Atualizar, Autentica
    <2>7. CASE \E q \in Pedidos : GravarEmpresa(q)
      BY <2>7, <1>2 DEF GravarEmpresa, Em, Finais
    <2>8. CASE \E c \in DOMAIN clientes : DesativarCliente(c)
      BY <2>8 DEF DesativarCliente
    <2>9. QED BY <1>3, <2>1, <2>2, <2>3, <2>4, <2>5, <2>6, <2>7, <2>8 DEF CadNext
  <1>4. CASE \E q \in Pedidos : LgpdNext(q)
    <2>1. PICK q \in Pedidos : LgpdNext(q)
      BY <1>4
    <2>2. CASE Novo(q)
      BY <2>1, <2>2, LgpdCampos, Novos DEF Outros, Finais
    <2>3. CASE ~Novo(q)
      <3>1. req[q].fase \notin Finais
        BY <2>1, <2>3 DEF LgpdNext, Emitir, Anonimizar, ConsultarSolicitacao, Autentica,
               GravarNota, Selecionar, ApagarDados, RegistrarSolicitacao, Em, Finais
      <3>2. QED BY <2>1, <3>1, LgpdCampos DEF Outros
    <2>4. QED BY <2>2, <2>3
  <1>5. CASE \E q \in Pedidos : Interromper(q)
    BY <1>5, <1>2 DEF Interromper, EmCurso
  <1>6. CASE PassoAlheio
    BY <1>6 DEF PassoAlheio, Alheia, ComToken
  <1>7. CASE \E q \in Pedidos : PassoDoBloco(q)
    BY <1>7 DEF PassoDoBloco, NoBloco, Outros, Finais
  <1>8. QED BY <1>3, <1>4, <1>5, <1>6, <1>7, ModoDoPasso

(* Who last wrote a company changes only for the one that creates it.      *)
EmpresasFicam ==
    \A e \in DOMAIN empresas' :
        empresas'[e].csc = e \/ (e \in DOMAIN empresas /\ empresas'[e].csc = empresas[e].csc)

(* The rows of before are still theirs, and the new ones are.              *)
LEMMA RastreadoFica ==
    ASSUME DonosIInv, [ApiNext]_apiVars, NotasFicam, SolicitacoesFicam,
           \A p \in Pedidos : req'[p] = req[p] \/ Coerente(p)',
           \A n \in DOMAIN notas' \ DOMAIN notas : LinhaDaNota(n)',
           \A s \in DOMAIN solicitacoes' \ DOMAIN solicitacoes : LinhaDaSolicitacao(s)',
           \A e \in DOMAIN empresas' :
              \/ empresas'[e].csc = e \/ UltimaEscrita(e)'
              \/ e \in DOMAIN empresas /\ empresas'[e].csc = empresas[e].csc
    PROVE  Rastreado'
  <1> USE DEF DonosIInv, Rastreado
  <1>1. Forma
    BY DEF LoginIInv, CadastroIInv
  <1>2. ASSUME NEW p \in Pedidos PROVE Coerente(p)'
    BY CoerenteFica
  <1>3. ASSUME NEW n \in DOMAIN notas' PROVE LinhaDaNota(n)'
    <2>1. SUFFICES ASSUME n \in DOMAIN notas PROVE LinhaDaNota(n)'
      OBVIOUS
    <2>2. req'[n] = req[n]
      BY <1>1, <2>1, RespondidaFica DEF LinhaDaNota, Em, Finais, ComToken
    <2>3. QED BY <2>1, <2>2 DEF LinhaDaNota, Em, NotasFicam
  <1>4. ASSUME NEW s \in DOMAIN solicitacoes' PROVE LinhaDaSolicitacao(s)'
    <2>1. SUFFICES ASSUME s \in DOMAIN solicitacoes PROVE LinhaDaSolicitacao(s)'
      OBVIOUS
    <2>2. req'[s] = req[s]
      BY <1>1, <2>1, RespondidaFica DEF LinhaDaSolicitacao, Em, Finais, ComToken
    <2>3. QED BY <2>1, <2>2 DEF LinhaDaSolicitacao, Em, SolicitacoesFicam
  <1>5. ASSUME NEW e \in DOMAIN empresas' PROVE UltimaEscrita(e)'
    <2>1. CASE empresas'[e].csc = e
      BY <2>1 DEF UltimaEscrita
    <2>2. CASE e \in DOMAIN empresas /\ empresas'[e].csc = empresas[e].csc
                 /\ empresas[e].csc # e
      <3>1. empresas[e].csc \in Pedidos /\ Em(empresas[e].csc, "atualizar", "200")
              /\ req[empresas[e].csc].empresa = e
        BY <2>2 DEF UltimaEscrita
      <3>2. req'[empresas[e].csc] = req[empresas[e].csc]
        BY <1>1, <3>1, RespondidaFica DEF Em, Finais, ComToken
      <3>3. QED BY <2>2, <3>1, <3>2 DEF UltimaEscrita, Em
    <2>3. QED BY <2>1, <2>2
  <1>6. QED BY <1>2, <1>3, <1>4, <1>5

(* The usual step: rows of no table but the companies' and the clients'.   *)
LEMMA RastreadoSemLinhas ==
    ASSUME DonosIInv, [ApiNext]_apiVars, UNCHANGED <<notas, solicitacoes>>, EmpresasFicam,
           \A p \in Pedidos : req'[p] = req[p] \/ Coerente(p)'
    PROVE  Rastreado'
  <1>1. NotasFicam /\ SolicitacoesFicam
    BY DEF NotasFicam, SolicitacoesFicam
  <1>2. QED BY <1>1, RastreadoFica DEF EmpresasFicam
-----------------------------------------------------------------------------
(* The steps of the companies and of the logins.                           *)
LEMMA RastreadoCadastro ==
    ASSUME DonosIInv, CadNext, LacoLivre, UNCHANGED <<notas, solicitacoes, kv, fonteVars>>
    PROVE  Rastreado'
  <1>1. [ApiNext]_apiVars
    BY DEF ApiNext, ForaDoBloco
  <1>2. Forma /\ Linhas /\ Forma'
    BY <1>1, FormaInv DEF DonosIInv, LoginIInv, CadastroIInv
  <1>3. NotasFicam /\ SolicitacoesFicam
    BY DEF NotasFicam, SolicitacoesFicam
  <1>4. ASSUME NEW p \in Pedidos, NEW r, Fica(p, r), r.op \notin ComToken, UNCHANGED cadVars
        PROVE  Rastreado'
    <2>1. Coerente(p)'
      BY <1>2, <1>4, EfeitoDeFica, CoerenteSemToken
    <2>2. QED
      BY <1>1, <1>2, <1>4, <2>1, EfeitoDeFica, RastreadoSemLinhas DEF Outros, EmpresasFicam, cadVars
  <1>5. ASSUME NEW p \in Pedidos, NEW v, Segue(p, v), req[p].op = "criar", EmpresasFicam
        PROVE  Rastreado'
    <2>1. Coerente(p)'
      <3>1. req'[p].op = "criar"
        BY <1>2, <1>5, EfeitoDeSegue DEF SoMudaFase, Forma, ComCampos
      <3>2. QED BY <1>2, <3>1, CoerenteSemToken DEF ComToken
    <2>2. QED BY <1>1, <1>2, <1>5, <2>1, EfeitoDeSegue, RastreadoSemLinhas DEF Outros
  <1>6. CASE \E p \in Pedidos, cnpj \in Cnpjs : CriarEmpresa(p, cnpj)
    BY <1>6, <1>4 DEF CriarEmpresa, ComToken
  <1>7. CASE \E p \in Pedidos : Inserir(p)
    BY <1>7, <1>5 DEF Inserir, Em, EmpresasFicam, cadVars
  <1>8. CASE \E p \in Pedidos, k \in Prefixos : GravarCadastro(p, k)
    <2>1. PICK p \in Pedidos, k \in Prefixos : GravarCadastro(p, k)
      BY <1>8
    <2>2. EmpresasFicam
      BY <2>1 DEF GravarCadastro, EmpresasFicam
    <2>3. QED BY <1>5, <2>1, <2>2 DEF GravarCadastro, Em
  <1>9. CASE \E p \in Pedidos : EntregarCredenciais(p)
    BY <1>9, <1>5 DEF EntregarCredenciais, Em, EmpresasFicam, cadVars
  <1>10. CASE \E p, s \in Pedidos, k \in Prefixos : Login(p, s, k)
    BY <1>10, <1>4 DEF Login, ComToken
  <1>11. CASE \E p, t \in Pedidos : Refresh(p, t) \/ Recusar(p, t)
    BY <1>11, <1>4 DEF Refresh, Recusar, ComToken
  <1>12. CASE \E p, t \in Pedidos : Atualizar(p, t)
    <2>1. PICK p \in Pedidos, t \in Pedidos : Atualizar(p, t)
      BY <1>12
    <2>2. /\ req'[p] = [op |-> "atualizar", fase |-> "autenticado", token |-> t,
                        empresa |-> clientes[req[t].sub].empresa]
          /\ Outros(p) /\ UNCHANGED cadVars
      BY <1>2, <2>1, EfeitoDeFica DEF Atualizar
    <2>3. Coerente(p)'
      <3>1. Portador(p)'
        BY <1>1, <2>1, <2>2, PortadorNasce DEF Atualizar, DonosIInv
      <3>2. QED BY <2>2, <3>1 DEF Coerente, Selecao, Leitura, Em
    <2>4. QED BY <1>1, <2>2, <2>3, RastreadoSemLinhas DEF Outros, EmpresasFicam, cadVars
  <1>13. CASE \E p \in Pedidos : GravarEmpresa(p)
    <2>1. PICK p \in Pedidos : GravarEmpresa(p)
      BY <1>13
    <2>2. req[p].op = "atualizar" /\ req[p].fase = "autenticado" /\ Segue(p, "200")
      BY <2>1 DEF GravarEmpresa, Em
    <2>3. Coerente(p)'
      BY <1>1, <1>3, <2>2, CoerenteSegue DEF Token
    <2>4. req'[p].op = "atualizar" /\ req'[p].fase = "200" /\ req'[p].empresa = req[p].empresa
            /\ Outros(p)
      BY <1>2, <2>2, EfeitoDeSegue DEF SoMudaFase, Forma, ComCampos, ComToken
    <2>5. ASSUME NEW e \in DOMAIN empresas'
          PROVE  UltimaEscrita(e)' \/ (e \in DOMAIN empresas /\ empresas'[e].csc = empresas[e].csc)
      <3>1. CASE e = req[p].empresa
        <4>1. empresas'[e].csc = p
          BY <1>2, <2>1, <2>5, <3>1 DEF GravarEmpresa, Linhas
        <4>2. QED BY <2>4, <3>1, <4>1 DEF UltimaEscrita, Em
      <3>2. CASE e # req[p].empresa
        BY <1>2, <2>1, <2>5, <3>2 DEF GravarEmpresa, Linhas
      <3>3. QED BY <3>1, <3>2
    <2>6. QED BY <1>1, <1>3, <2>3, <2>4, <2>5, RastreadoFica DEF Outros
  <1>14. CASE \E c \in DOMAIN clientes : DesativarCliente(c)
    BY <1>1, <1>14, RastreadoSemLinhas DEF DesativarCliente, EmpresasFicam
  <1>15. QED
    BY <1>6, <1>7, <1>8, <1>9, <1>10, <1>11, <1>12, <1>13, <1>14 DEF CadNext

(* The steps of the emissions, the erasures and the reading of a record.    *)
LEMMA RastreadoLgpd ==
    ASSUME DonosIInv, NEW p \in Pedidos, LgpdNext(p), LacoLivre, UNCHANGED kv
    PROVE  Rastreado'
  <1>1. [ApiNext]_apiVars
    BY DEF ApiNext, ForaDoBloco
  <1>2. Forma /\ (\A q \in Pedidos : Coerente(q))
    BY DEF DonosIInv, LoginIInv, CadastroIInv, Rastreado
  <1>3. EmpresasFicam /\ Outros(p)
    BY <1>2, LgpdCampos DEF EmpresasFicam, cadVars
  <1>4. ASSUME UNCHANGED lgpdVars, Coerente(p)'
        PROVE  Rastreado'
    BY <1>1, <1>3, <1>4, RastreadoSemLinhas DEF lgpdVars, Outros
  <1>5. UNCHANGED lgpdVars => NotasFicam /\ SolicitacoesFicam
    BY DEF lgpdVars, NotasFicam, SolicitacoesFicam
  <1>6. CASE \E t \in Pedidos, d \in Documentos \union {SemCliente} : Emitir(p, t, d)
    <2>1. PICK t \in Pedidos, d \in Documentos \union {SemCliente} : Emitir(p, t, d)
      BY <1>6
    <2>2. req'[p] = [op |-> "emitir", fase |-> "trocada", token |-> t, doc |-> d,
                     empresa |-> clientes[req[t].sub].empresa,
                     anterior |-> modulo, notas |-> <<>>]
      BY <1>2, <2>1, EfeitoDeFica DEF Emitir, EmpresaDoPedido
    <2>3. Portador(p)'
      BY <1>1, <2>1, <2>2, PortadorNasce DEF Emitir, DonosIInv
    <2>4. Coerente(p)'
      BY <2>2, <2>3 DEF Coerente, Selecao, Leitura, Em
    <2>5. QED BY <1>4, <2>1, <2>4 DEF Emitir
  <1>7. CASE \E t \in Pedidos, d \in Documentos : Anonimizar(p, t, d)
    <2>1. PICK t \in Pedidos, d \in Documentos : Anonimizar(p, t, d)
      BY <1>7
    <2>2. req'[p] = [op |-> "anonimizar", token |-> t, doc |-> d,
                     empresa |-> clientes[req[t].sub].empresa, alvo |-> {}, vistas |-> {},
                     fase |-> IF d \in EmDigitos THEN "autenticado" ELSE "400"]
      BY <1>2, <2>1, EfeitoDeFica DEF Anonimizar
    <2>3. Portador(p)'
      BY <1>1, <2>1, <2>2, PortadorNasce DEF Anonimizar, DonosIInv
    <2>4. Selecao(p)' /\ Leitura(p)'
      BY <2>2 DEF Selecao, Leitura, Em
    <2>5. QED BY <1>4, <2>1, <2>3, <2>4 DEF Anonimizar, Coerente
  <1>8. CASE \E t, s \in Pedidos : ConsultarSolicitacao(p, t, s)
    <2>1. PICK t \in Pedidos, s \in Pedidos : ConsultarSolicitacao(p, t, s)
      BY <1>8
    <2> DEFINE e == clientes[req[t].sub].empresa
               r == req'[p]
    <2>2. /\ r.op = "solicitacao" /\ r.token = t /\ r.empresa = e
          /\ r.fase = "200" => /\ r.lida = s
                               /\ s \in DOMAIN solicitacoes /\ solicitacoes[s].empresa = e
      <3>1. CASE s \in DOMAIN solicitacoes /\ solicitacoes[s].empresa = e
        BY <1>2, <2>1, <3>1, EfeitoDeFica DEF ConsultarSolicitacao
      <3>2. CASE ~(s \in DOMAIN solicitacoes /\ solicitacoes[s].empresa = e)
        BY <1>2, <2>1, <3>2, EfeitoDeFica DEF ConsultarSolicitacao
      <3>3. QED BY <3>1, <3>2
    <2>3. Portador(p)'
      BY <1>1, <2>1, <2>2, PortadorNasce DEF ConsultarSolicitacao, DonosIInv
    <2>4. UNCHANGED lgpdVars
      BY <2>1 DEF ConsultarSolicitacao
    <2>5. Selecao(p)' /\ Leitura(p)'
      BY <2>2, <2>4 DEF Selecao, Leitura, Em, lgpdVars
    <2>6. QED BY <1>4, <2>3, <2>4, <2>5 DEF Coerente
  <1>9. CASE GravarNota(p)
    <2>1. /\ req[p].op = "emitir" /\ req[p].fase = "enviado" /\ Segue(p, "200")
          /\ UNCHANGED solicitacoes
          /\ DOMAIN notas' = DOMAIN notas \union {p}
          /\ notas'[p].empresa = req[p].empresa
          /\ DOMAIN notas'[p] = {"empresa", "dado", "hash"}
          /\ \A n \in DOMAIN notas \ {p} : notas'[n] = notas[n]
      BY <1>9 DEF GravarNota, Em
    <2>2. p \notin DOMAIN notas
      BY <2>1 DEF DonosIInv, Rastreado, LinhaDaNota, Em
    <2>3. NotasFicam /\ SolicitacoesFicam
      BY <2>1, <2>2 DEF NotasFicam, SolicitacoesFicam
    <2>4. Coerente(p)'
      BY <1>1, <2>1, <2>3, CoerenteSegue DEF Token
    <2>5. LinhaDaNota(p)'
      <3>1. req'[p].op = "emitir" /\ req'[p].fase = "200" /\ req'[p].empresa = req[p].empresa
        BY <1>2, <2>1, EfeitoDeSegue DEF SoMudaFase, Forma, ComCampos, ComToken
      <3>2. QED BY <2>1, <3>1 DEF LinhaDaNota, Em
    <2>6. QED
      BY <1>1, <1>3, <2>1, <2>3, <2>4, <2>5, RastreadoFica DEF Outros, EmpresasFicam
  <1>10. CASE Selecionar(p)
    <2>1. /\ req[p].op = "anonimizar" /\ req[p].fase = "autenticado" /\ UNCHANGED lgpdVars
          /\ {"op", "fase", "token", "empresa", "doc", "alvo", "vistas"} \subseteq DOMAIN req[p]
      BY <1>2, <1>10 DEF Selecionar, Em, Forma, ComCampos, ComToken
    <2>2. req'[p] = [req[p] EXCEPT !.alvo = NotasDoDocumento(req[p].empresa, req[p].doc),
                                   !.vistas = DOMAIN notas, !.fase = "selecionado"]
      BY <1>2, <1>10, EfeitoDeFica DEF Selecionar
    <2>3. /\ req'[p].op = "anonimizar" /\ req'[p].fase = "selecionado"
          /\ req'[p].token = req[p].token /\ req'[p].empresa = req[p].empresa
          /\ req'[p].doc = req[p].doc /\ req'[p].vistas = DOMAIN notas
          /\ req'[p].alvo = NotasDoDocumento(req[p].empresa, req[p].doc)
      BY <2>1, <2>2
    <2>4. Portador(p)'
      <3>1. Portador(p)
        BY <1>2 DEF Coerente
      <3>2. Token(req[p].token) /\ req[p].token \in Pedidos
        BY <2>1, <3>1 DEF Portador
      <3>3. req'[req[p].token] = req[req[p].token]
        BY <1>1, <3>2, TokenFica DEF DonosIInv
      <3>4. QED BY <2>1, <2>3, <3>1, <3>2, <3>3 DEF Portador, Token
    <2>5. Selecao(p)' /\ Leitura(p)'
      BY <2>1, <2>3 DEF Selecao, Leitura, Em, NotasDoDocumento, lgpdVars
    <2>6. QED BY <1>4, <2>1, <2>4, <2>5 DEF Coerente
  <1>11. CASE ApagarDados(p)
    <2>1. /\ req[p].op = "anonimizar" /\ req[p].fase = "selecionado" /\ Segue(p, "apagado")
          /\ UNCHANGED solicitacoes
      BY <1>11 DEF ApagarDados, Em
    <2>2. req[p].alvo \subseteq DOMAIN notas
      BY <1>2, <2>1 DEF Coerente, Selecao
    <2>3. /\ DOMAIN notas' = DOMAIN notas
          /\ \A n \in DOMAIN notas :
                notas'[n] = [notas[n] EXCEPT !.dado = @ /\ n \notin req[p].alvo]
      BY <1>11 DEF ApagarDados
    <2>4. \A n \in DOMAIN notas : {"empresa", "hash", "dado"} \subseteq DOMAIN notas[n]
      BY DEF DonosIInv, Rastreado, LinhaDaNota
    <2>5. \A n \in DOMAIN notas :
             /\ DOMAIN notas'[n] = DOMAIN notas[n]
             /\ notas'[n].empresa = notas[n].empresa /\ notas'[n].hash = notas[n].hash
             /\ notas'[n].dado <=> notas[n].dado /\ n \notin req[p].alvo
      BY <2>3, <2>4
    <2>6. NotasFicam /\ SolicitacoesFicam
      BY <2>1, <2>3, <2>5 DEF NotasFicam, SolicitacoesFicam
    <2>7. \A n \in req[p].alvo : ~notas'[n].dado
      BY <2>2, <2>5
    <2>8. Coerente(p)'
      BY <1>1, <2>1, <2>6, <2>7, CoerenteSegue DEF Token
    <2>9. QED
      BY <1>1, <1>3, <2>1, <2>3, <2>6, <2>8, RastreadoFica DEF Outros, EmpresasFicam
  <1>12. CASE RegistrarSolicitacao(p)
    <2>1. /\ req[p].op = "anonimizar" /\ req[p].fase = "apagado" /\ Segue(p, "200")
          /\ UNCHANGED notas
          /\ DOMAIN solicitacoes' = DOMAIN solicitacoes \union {p}
          /\ solicitacoes'[p] = [empresa |-> req[p].empresa, hash |-> req[p].doc,
                                 registros |-> Cardinality(req[p].alvo)]
          /\ \A s \in DOMAIN solicitacoes \ {p} : solicitacoes'[s] = solicitacoes[s]
      BY <1>12 DEF RegistrarSolicitacao, Em
    <2>2. p \notin DOMAIN solicitacoes
      BY <2>1 DEF DonosIInv, Rastreado, LinhaDaSolicitacao, Em
    <2>3. NotasFicam /\ SolicitacoesFicam
      BY <2>1, <2>2 DEF NotasFicam, SolicitacoesFicam
    <2>4. \A n \in req[p].alvo : ~notas'[n].dado
      BY <1>2, <2>1 DEF Coerente, Selecao
    <2>5. Coerente(p)'
      BY <1>1, <2>1, <2>3, <2>4, CoerenteSegue DEF Token
    <2>6. LinhaDaSolicitacao(p)'
      <3>1. /\ req'[p].op = "anonimizar" /\ req'[p].fase = "200"
            /\ req'[p].empresa = req[p].empresa /\ req'[p].doc = req[p].doc
            /\ req'[p].alvo = req[p].alvo
        BY <1>2, <2>1, EfeitoDeSegue DEF SoMudaFase, Forma, ComCampos, ComToken
      <3>2. QED BY <2>1, <3>1 DEF LinhaDaSolicitacao, Em
    <2>7. QED
      BY <1>1, <1>3, <2>1, <2>3, <2>5, <2>6, RastreadoFica DEF Outros, EmpresasFicam
  <1>13. QED
    BY <1>6, <1>7, <1>8, <1>9, <1>10, <1>11, <1>12 DEF LgpdNext

(* The invariant of the ownership is inductive.                            *)
LEMMA NextDonosIInv ==
    ASSUME DonosIInv, [ApiNext]_apiVars
    PROVE  DonosIInv'
  <1> USE DEF DonosIInv
  <1>1. Forma /\ Forma'
    BY FormaInv DEF LoginIInv, CadastroIInv
  <1> SUFFICES Rastreado'
    BY NextLoginIInv
  <1>2. CASE CadNext /\ LacoLivre /\ UNCHANGED <<notas, solicitacoes, kv, fonteVars>>
    BY <1>2, RastreadoCadastro
  <1>3. CASE \E p \in Pedidos : LgpdNext(p) /\ LacoLivre /\ UNCHANGED kv
    BY <1>3, RastreadoLgpd
  <1>4. CASE \E p \in Pedidos : /\ Interromper(p)
                                /\ UNCHANGED <<empresas, clientes, notas, solicitacoes>>
    <2>1. PICK p \in Pedidos : /\ Interromper(p)
                               /\ UNCHANGED <<empresas, clientes, notas, solicitacoes>>
      BY <1>4
    <2>2. Segue(p, "500") /\ req[p].fase \notin Finais
      BY <2>1 DEF Interromper, EmCurso
    <2>3. NotasFicam /\ SolicitacoesFicam /\ EmpresasFicam
      BY <2>1 DEF NotasFicam, SolicitacoesFicam, EmpresasFicam
    <2>4. Coerente(p)'
      BY <2>2, <2>3, CoerenteSegue DEF Token, Finais
    <2>5. QED BY <1>1, <2>1, <2>2, <2>3, <2>4, EfeitoDeSegue, RastreadoSemLinhas DEF Outros
  <1>5. CASE PassoAlheio
    <2>1. ASSUME NEW p \in Pedidos, Alheia(p) PROVE Coerente(p)'
      BY <1>1, <2>1, CoerenteSemToken DEF Alheia, ComToken
    <2>2. EmpresasFicam
      BY <1>5 DEF PassoAlheio, EmpresasFicam
    <2>3. QED BY <1>5, <2>1, <2>2, RastreadoSemLinhas DEF PassoAlheio
  <1>6. CASE \E p \in Pedidos : PassoDoBloco(p)
    <2>1. PICK p \in Pedidos : PassoDoBloco(p)
      BY <1>6
    <2>2. /\ req[p].op = "emitir" /\ req'[p].op = "emitir" /\ "token" \in DOMAIN req[p]
          /\ req'[p].token = req[p].token /\ req'[p].empresa = req[p].empresa
      BY <1>1, <2>1, CamposNoBloco DEF PassoDoBloco
    <2>3. Portador(p)
      BY DEF Rastreado, Coerente
    <2>4. req'[req[p].token] = req[req[p].token]
      BY <2>2, <2>3, TokenFica DEF Portador
    <2>5. Coerente(p)'
      BY <2>2, <2>3, <2>4 DEF Coerente, Portador, Token, Selecao, Leitura, Em
    <2>6. EmpresasFicam /\ UNCHANGED <<notas, solicitacoes>> /\ Outros(p)
      BY <2>1 DEF PassoDoBloco, EmpresasFicam
    <2>7. QED BY <2>5, <2>6, RastreadoSemLinhas DEF Outros
  <1>7. QED BY <1>1, <1>2, <1>3, <1>4, <1>5, <1>6, ModoDoPasso

(* It holds at first: there are no rows and no requests with a token.      *)
LEMMA InitDonosIInv == ApiInit => DonosIInv
  <1> SUFFICES ASSUME ApiInit PROVE DonosIInv
    OBVIOUS
  <1>1. LoginIInv
    BY InitLoginIInv
  <1>2. \A p \in Pedidos : req[p].op \notin ComToken /\ "token" \notin DOMAIN req[p]
    BY AntesRespondidos DEF ApiInit, ReqInit, Livre, ComToken
  <1>3. \A p \in Pedidos : Coerente(p)
    BY <1>2 DEF Coerente, Portador, Selecao, Leitura, Em, ComToken
  <1>4. DOMAIN notas = {} /\ DOMAIN solicitacoes = {}
    BY DEF ApiInit, LgpdInit
  <1>5. \A e \in DOMAIN empresas : UltimaEscrita(e)
    BY DEF ApiInit, CadInit, UltimaEscrita
  <1>6. QED BY <1>1, <1>3, <1>4, <1>5 DEF DonosIInv, Rastreado

(* It holds in every state.                                                *)
LEMMA SpecDonosIInv == ApiSpec => []DonosIInv
  <1>1. DonosIInv /\ [ApiNext]_apiVars => DonosIInv'
    BY NextDonosIInv
  <1>2. QED BY InitDonosIInv, <1>1, PTL DEF ApiSpec

(* Through any chain of refreshes, and whatever company a body names, a    *)
(* request reads and writes only what is of its client's company.          *)
THEOREM NadaDeOutraEmpresa == ApiSpec => []SoDaEmpresa
  <1>1. DonosIInv => SoDaEmpresa
    <2> SUFFICES ASSUME DonosIInv PROVE SoDaEmpresa
      OBVIOUS
    <2> USE DEF DonosIInv, Rastreado
    <2>1. ASSUME NEW p \in Pedidos, "token" \in DOMAIN req[p]
          PROVE  req[p].empresa = Dono(p)
      BY <2>1 DEF Coerente, Portador, Dono, Token, Sessoes, LoginIInv, CadastroIInv, Emitidos,
             EmpresaUnica
    <2>2. \A p \in Pedidos : req[p].op \in ComToken => "token" \in DOMAIN req[p]
      BY DEF LoginIInv, CadastroIInv, Forma, ComCampos
    <2>3. ASSUME NEW p \in Pedidos, "token" \in DOMAIN req[p], req[p].op = "anonimizar",
                 NEW n \in req[p].alvo
          PROVE  notas[n].empresa = Dono(p)
      BY <2>1, <2>3 DEF Coerente, Selecao
    <2>4. ASSUME NEW p \in Pedidos, "token" \in DOMAIN req[p], Em(p, "solicitacao", "200")
          PROVE  Dono(req[p].lida) = Dono(p)
      <3>1. LinhaDaSolicitacao(req[p].lida) /\ solicitacoes[req[p].lida].empresa = req[p].empresa
        BY <2>4 DEF Coerente, Leitura
      <3>2. "token" \in DOMAIN req[req[p].lida] /\ req[p].lida \in Pedidos
        BY <2>2, <3>1 DEF LinhaDaSolicitacao, Em, ComToken
      <3>3. QED BY <2>1, <2>4, <3>1, <3>2 DEF LinhaDaSolicitacao
    <2>5. ASSUME NEW n \in DOMAIN notas PROVE notas[n].empresa = Dono(n)
      BY <2>1, <2>2 DEF LinhaDaNota, Em, ComToken
    <2>6. ASSUME NEW e \in DOMAIN empresas, empresas[e].csc # e
          PROVE  Dono(empresas[e].csc) = e
      BY <2>1, <2>2, <2>6 DEF UltimaEscrita, Em, ComToken
    <2>7. QED BY <2>1, <2>3, <2>4, <2>5, <2>6 DEF SoDaEmpresa
  <1>2. QED BY SpecDonosIInv, <1>1, PTL

(* Emissions, erasures and interruptions in any order leave a record of an *)
(* erasure true: what it counts is what there was, and stays erased.       *)
THEOREM RegistroVerdadeiro == ApiSpec => []AnonimizacaoRegistrada
  <1>1. DonosIInv => AnonimizacaoRegistrada
    <2> SUFFICES ASSUME DonosIInv, NEW s \in DOMAIN solicitacoes
                 PROVE  LET alvo == {n \in req[s].vistas :
                                       /\ notas[n].empresa = solicitacoes[s].empresa
                                       /\ notas[n].hash = solicitacoes[s].hash}
                        IN  /\ solicitacoes[s].registros = Cardinality(alvo)
                            /\ \A n \in alvo : ~notas[n].dado
      BY DEF AnonimizacaoRegistrada
    <2> DEFINE alvo == {n \in req[s].vistas : /\ notas[n].empresa = solicitacoes[s].empresa
                                              /\ notas[n].hash = solicitacoes[s].hash}
    <2>1. LinhaDaSolicitacao(s) /\ Selecao(s)
      BY DEF DonosIInv, Rastreado, Coerente, LinhaDaSolicitacao
    <2>2. alvo = req[s].alvo
      BY <2>1 DEF LinhaDaSolicitacao, Selecao, Em
    <2>3. \A n \in alvo : ~notas[n].dado
      BY <2>1, <2>2 DEF LinhaDaSolicitacao, Selecao, Em
    <2>4. QED BY <2>1, <2>2, <2>3 DEF LinhaDaSolicitacao
  <1>2. QED BY SpecDonosIInv, <1>1, PTL
-----------------------------------------------------------------------------
(* Any set of numbers has a least one: with it, what each step keeps holds   *)
(* of them all.                                                              *)
LEMMA Minimo ==
  ASSUME NEW T \in SUBSET Nat, T # {}
  PROVE  \E m \in T : \A k \in T : m <= k
  <1> DEFINE R == OpToRel(<, Nat)
  <1>1. IsWellFoundedOn(R, Nat)
    BY NatLessThanWellFounded
  <1>2. \A k, m \in Nat : <<k, m>> \in R <=> k < m
    BY DEF OpToRel
  <1> HIDE DEF R
  <1>3. \E m \in T : \A k \in T : ~(<<k, m>> \in R)
    BY <1>1, WFMin
  <1>4. \A m, k \in T : ~(<<k, m>> \in R) => m <= k
    BY <1>2
  <1> QED
    BY <1>3, <1>4

-----------------------------------------------------------------------------
(* What Filtrada makes of the first n elements, one after the other.         *)
Parte(E, s, onde, g, n) ==
    /\ g \in [0..n -> Seq(E)]
    /\ g[0] = <<>>
    /\ \A i \in 1..n : g[i] = IF i \in onde THEN Append(g[i - 1], s[i]) ELSE g[i - 1]

LEMMA DoLugar ==
  ASSUME NEW E, NEW s \in Seq(E), NEW i \in 1..Len(s)
  PROVE  s[i] \in E /\ Len(s) \in Nat
  OBVIOUS

LEMMA DeAppend ==
  ASSUME NEW E, NEW s \in Seq(E), NEW e \in E
  PROVE  /\ Append(s, e) \in Seq(E)
         /\ Len(Append(s, e)) = Len(s) + 1
         /\ \A i \in 1..Len(s) : Append(s, e)[i] = s[i]
         /\ Append(s, e)[Len(s) + 1] = e
  BY AppendProperties

LEMMA DaParte ==
  ASSUME NEW E, NEW s \in Seq(E), NEW onde, NEW n \in 0..Len(s)
  PROVE  \E g : Parte(E, s, onde, g, n)
  <1> DEFINE T == {k \in 0..Len(s) : ~\E g : Parte(E, s, onde, g, k)}
  <1>0. Len(s) \in Nat
    OBVIOUS
  <1>1. SUFFICES ASSUME T # {} PROVE FALSE
    OBVIOUS
  <1>2. PICK m \in T : \A k \in T : m <= k
    <2>1. T \in SUBSET Nat
      BY <1>0
    <2> HIDE DEF T
    <2> QED
      BY <1>1, <2>1, Minimo
  <1>3. m \in 0..Len(s) /\ ~\E g : Parte(E, s, onde, g, m)
    OBVIOUS
  <1>4. m # 0
    <2> SUFFICES ASSUME m = 0 PROVE FALSE
      OBVIOUS
    <2>1. <<>> \in Seq(E)
      OBVIOUS
    <2>2. Parte(E, s, onde, [i \in 0..0 |-> <<>>], 0)
      BY <2>1 DEF Parte
    <2> QED
      BY <1>3, <2>2
  <1>5. PICK g : Parte(E, s, onde, g, m - 1)
    <2>1. m - 1 \notin T /\ m - 1 \in 0..Len(s)
      BY <1>0, <1>2, <1>3, <1>4
    <2> QED
      BY <2>1
  <1> DEFINE ultimo == IF m \in onde THEN Append(g[m - 1], s[m]) ELSE g[m - 1]
             h == [i \in 0..m |-> IF i = m THEN ultimo ELSE g[i]]
  <1>6. Parte(E, s, onde, h, m)
    <2>1. m \in 1..Len(s) /\ m \in Nat /\ m - 1 \in Nat
      BY <1>0, <1>3, <1>4
    <2>2. ultimo \in Seq(E)
      <3>1. g[m - 1] \in Seq(E) /\ s[m] \in E
        BY <1>5, <2>1, DoLugar DEF Parte
      <3>2. Append(g[m - 1], s[m]) \in Seq(E)
        BY <3>1, DeAppend
      <3> QED
        BY <3>1, <3>2
    <2>3. \A i \in 0..(m - 1) : h[i] = g[i]
      BY <2>1
    <2>4. h[m] = ultimo
      BY <2>1
    <2>5. h \in [0..m -> Seq(E)]
      <3> HIDE DEF ultimo
      <3>1. \A i \in 0..m : i # m => g[i] \in Seq(E)
        BY <1>5, <2>1 DEF Parte
      <3> QED
        BY <2>2, <3>1
    <2>6. h[m - 1] = g[m - 1] /\ h[0] = <<>>
      BY <1>5, <2>1, <2>3 DEF Parte
    <2> HIDE DEF h
    <2>7. \A i \in 1..m : h[i] = IF i \in onde THEN Append(h[i - 1], s[i]) ELSE h[i - 1]
      <3> TAKE i \in 1..m
      <3>1. CASE i = m
        BY <2>4, <2>6, <3>1
      <3>2. CASE i # m
        <4>1. i \in 1..(m - 1) /\ i \in 0..(m - 1) /\ i - 1 \in 0..(m - 1)
          BY <2>1, <3>2
        <4>2. g[i] = IF i \in onde THEN Append(g[i - 1], s[i]) ELSE g[i - 1]
          BY <1>5, <4>1 DEF Parte
        <4>3. h[i] = g[i] /\ h[i - 1] = g[i - 1]
          BY <2>3, <4>1
        <4> QED
          BY <4>2, <4>3
      <3> QED
        BY <3>1, <3>2
    <2> QED
      BY <2>5, <2>6, <2>7 DEF Parte
  <1> QED
    BY <1>3, <1>6

(* Two that follow the same rule over the same elements are the same.        *)
LEMMA UmaParte ==
  ASSUME NEW E, NEW s, NEW t, NEW onde, NEW la, NEW n \in Nat, NEW m \in Nat, n <= m,
         NEW g, NEW h, Parte(E, s, onde, g, n), Parte(E, t, la, h, m),
         \A i \in 1..n : s[i] = t[i] /\ (i \in onde <=> i \in la)
  PROVE  \A i \in 0..n : g[i] = h[i]
  <1> DEFINE T == {i \in 0..n : g[i] # h[i]}
  <1>1. SUFFICES ASSUME T # {} PROVE FALSE
    OBVIOUS
  <1>2. PICK k \in T : \A j \in T : k <= j
    <2>1. T \in SUBSET Nat
      OBVIOUS
    <2> HIDE DEF T
    <2> QED
      BY <1>1, <2>1, Minimo
  <1>3. k \in 1..n /\ k \in 1..m /\ k - 1 \in 0..n
    BY <1>2 DEF Parte
  <1>4. g[k - 1] = h[k - 1]
    BY <1>2, <1>3
  <1>5. g[k] = IF k \in onde THEN Append(g[k - 1], s[k]) ELSE g[k - 1]
    BY <1>3 DEF Parte
  <1>6. h[k] = IF k \in la THEN Append(h[k - 1], t[k]) ELSE h[k - 1]
    BY <1>3 DEF Parte
  <1>7. s[k] = t[k] /\ (k \in onde <=> k \in la)
    BY <1>3
  <1> QED
    BY <1>2, <1>4, <1>5, <1>6, <1>7

LEMMA DeFiltrada ==
  ASSUME NEW E, NEW s \in Seq(E), NEW onde
  PROVE  \E g : Parte(E, s, onde, g, Len(s)) /\ Filtrada(s, onde) = g[Len(s)]
  <1> DEFINE n == Len(s)
             D(g) == [i \in 0..n |-> IF i = 0 THEN <<>>
                                     ELSE IF i \in onde THEN Append(g[i - 1], s[i]) ELSE g[i - 1]]
             ate == CHOOSE g : g = D(g)
  <1>1. Filtrada(s, onde) = ate[n]
    BY DEF Filtrada
  <1>2. n \in Nat
    OBVIOUS
  <1>3. PICK g : Parte(E, s, onde, g, n)
    <2>1. n \in 0..Len(s)
      BY <1>2
    <2> HIDE DEF n
    <2> QED
      BY <2>1, DaParte
  <1>4. g = D(g)
    <2>1. g = [i \in 0..n |-> g[i]]
      BY <1>3 DEF Parte
    <2>2. \A i \in 0..n : g[i] = IF i = 0 THEN <<>>
                                 ELSE IF i \in onde THEN Append(g[i - 1], s[i]) ELSE g[i - 1]
      <3>1. g[0] = <<>> /\ \A i \in 1..n : g[i] = IF i \in onde THEN Append(g[i - 1], s[i]) ELSE g[i - 1]
        BY <1>3 DEF Parte
      <3> HIDE DEF n
      <3>2. \A i \in 0..n : i = 0 \/ i \in 1..n
        BY <1>2
      <3>3. \A i \in 1..n : i # 0
        BY <1>2
      <3> QED
        BY <3>1, <3>2, <3>3
    <2> QED
      BY <2>1, <2>2
  <1>5. ate = D(ate)
    <2> HIDE DEF D
    <2> QED
      BY <1>4
  <1> HIDE DEF ate
  <1>6. \A i \in 0..n : ate[i] = IF i = 0 THEN <<>>
                                 ELSE IF i \in onde THEN Append(ate[i - 1], s[i])
                                                    ELSE ate[i - 1]
    BY <1>2, <1>5
  <1>7. ate = [i \in 0..n |-> ate[i]]
    BY <1>5
  <1> HIDE DEF D
  <1> DEFINE T == {i \in 0..n : ate[i] # g[i]}
  <1>8. T = {}
    <2>1. SUFFICES ASSUME T # {} PROVE FALSE
      OBVIOUS
    <2>2. PICK m \in T : \A k \in T : m <= k
      <3>1. T \in SUBSET Nat
        BY <1>2
      <3> HIDE DEF T
      <3> QED
        BY <2>1, <3>1, Minimo
    <2>3. g[0] = <<>> /\ ate[0] = <<>>
      BY <1>2, <1>3, <1>6 DEF Parte
    <2>4. m \in 1..n /\ m \in 0..n /\ m - 1 \in 0..n
      BY <1>2, <2>2, <2>3
    <2>5. ate[m - 1] = g[m - 1]
      BY <1>2, <2>2, <2>4
    <2>6. g[m] = IF m \in onde THEN Append(g[m - 1], s[m]) ELSE g[m - 1]
      BY <1>3, <2>4 DEF Parte
    <2>7. ate[m] = IF m \in onde THEN Append(ate[m - 1], s[m]) ELSE ate[m - 1]
      BY <1>6, <2>4
    <2> QED
      BY <2>2, <2>5, <2>6, <2>7
  <1>9. ate[n] = g[n]
    BY <1>2, <1>8
  <1> QED
    BY <1>1, <1>3, <1>9

LEMMA TipoDaFiltrada ==
  ASSUME NEW E, NEW s \in Seq(E), NEW onde
  PROVE  Filtrada(s, onde) \in Seq(E)
  <1>1. PICK g : Parte(E, s, onde, g, Len(s)) /\ Filtrada(s, onde) = g[Len(s)]
    BY DeFiltrada
  <1>2. Len(s) \in 0..Len(s)
    OBVIOUS
  <1> QED
    BY <1>1, <1>2 DEF Parte

LEMMA FiltradaVazia ==
  ASSUME NEW onde
  PROVE  Filtrada(<<>>, onde) = <<>>
  <1>1. <<>> \in Seq({}) /\ Len(<<>>) = 0
    OBVIOUS
  <1>2. PICK g : Parte({}, <<>>, onde, g, Len(<<>>)) /\ Filtrada(<<>>, onde) = g[Len(<<>>)]
    BY <1>1, DeFiltrada
  <1>3. g[0] = <<>>
    BY <1>1, <1>2 DEF Parte
  <1> QED
    BY <1>1, <1>2, <1>3

LEMMA FiltradaDeMaisUm ==
  ASSUME NEW E, NEW s \in Seq(E), NEW e \in E, NEW onde, NEW la,
         \A i \in 1..Len(s) : i \in onde <=> i \in la
  PROVE  Filtrada(Append(s, e), la) =
           IF Len(s) + 1 \in la THEN Append(Filtrada(s, onde), e) ELSE Filtrada(s, onde)
  <1> DEFINE t == Append(s, e)
             n == Len(s)
  <1>1. /\ t \in Seq(E) /\ Len(t) = n + 1 /\ t[n + 1] = e /\ n \in Nat
        /\ \A i \in 1..n : t[i] = s[i]
    BY DeAppend
  <1>2. PICK g : Parte(E, s, onde, g, n) /\ Filtrada(s, onde) = g[n]
    BY DeFiltrada
  <1>3. PICK h : Parte(E, t, la, h, Len(t)) /\ Filtrada(t, la) = h[Len(t)]
    <2> HIDE DEF t
    <2> QED
      BY <1>1, DeFiltrada
  <1> HIDE DEF t
  <1>4. h[n] = g[n]
    <2>1. \A i \in 1..n : s[i] = t[i] /\ (i \in onde <=> i \in la)
      BY <1>1
    <2>2. n + 1 \in Nat /\ n <= n + 1 /\ Parte(E, t, la, h, n + 1) /\ n \in 0..n
      BY <1>1, <1>3
    <2> HIDE DEF n
    <2>3. \A i \in 0..n : g[i] = h[i]
      BY <1>1, <1>2, <2>1, <2>2, UmaParte
    <2> QED
      BY <2>2, <2>3
  <1>5. h[n + 1] = IF n + 1 \in la THEN Append(h[n], t[n + 1]) ELSE h[n]
    <2>1. n + 1 \in 1..Len(t) /\ (n + 1) - 1 = n
      BY <1>1
    <2> QED
      BY <1>3, <2>1 DEF Parte
  <1>6. Filtrada(t, la) = h[n + 1]
    BY <1>1, <1>3
  <1>7. Filtrada(t, la) = IF n + 1 \in la THEN Append(Filtrada(s, onde), e) ELSE Filtrada(s, onde)
    BY <1>1, <1>2, <1>4, <1>5, <1>6
  <1> QED
    BY <1>7 DEF t

(* One more entity: it joins those of its class, or the others.              *)
LEMMA ClasseDeMaisUm ==
  ASSUME NEW E, NEW s \in Seq(E), NEW e \in E, NEW c
  PROVE  /\ DaClasse(Append(s, e), c) =
              IF e.classe = c THEN Append(DaClasse(s, c), e) ELSE DaClasse(s, c)
         /\ DasOutras(Append(s, e), c) =
              IF e.classe # c THEN Append(DasOutras(s, c), e) ELSE DasOutras(s, c)
  <1> DEFINE t == Append(s, e)
             n == Len(s)
  <1>1. /\ t \in Seq(E) /\ Len(t) = n + 1 /\ t[n + 1] = e /\ n \in Nat
        /\ \A i \in 1..n : t[i] = s[i]
    BY DeAppend
  <1>2. DOMAIN s = 1..n /\ DOMAIN t = 1..(n + 1)
    BY <1>1
  <1> HIDE DEF t, n
  <1>3. n + 1 \in DOMAIN t /\ \A i \in 1..n : i \in DOMAIN s /\ i \in DOMAIN t
    BY <1>1, <1>2
  <1>4. DaClasse(t, c) = IF e.classe = c THEN Append(DaClasse(s, c), e) ELSE DaClasse(s, c)
    <2> DEFINE onde == {i \in DOMAIN s : s[i].classe = c}
               la   == {i \in DOMAIN t : t[i].classe = c}
    <2>1. \A i \in 1..n : i \in onde <=> i \in la
      BY <1>1, <1>3
    <2>2. n + 1 \in la <=> e.classe = c
      BY <1>1, <1>3
    <2>3. DaClasse(t, c) = Filtrada(t, la) /\ DaClasse(s, c) = Filtrada(s, onde)
      BY DEF DaClasse
    <2> HIDE DEF onde, la
    <2>4. Filtrada(Append(s, e), la) =
           IF Len(s) + 1 \in la THEN Append(Filtrada(s, onde), e) ELSE Filtrada(s, onde)
      BY <2>1, FiltradaDeMaisUm DEF n
    <2> QED
      BY <2>2, <2>3, <2>4 DEF t, n
  <1>5. DasOutras(t, c) = IF e.classe # c THEN Append(DasOutras(s, c), e) ELSE DasOutras(s, c)
    <2> DEFINE onde == {i \in DOMAIN s : s[i].classe # c}
               la   == {i \in DOMAIN t : t[i].classe # c}
    <2>1. \A i \in 1..n : i \in onde <=> i \in la
      BY <1>1, <1>3
    <2>2. n + 1 \in la <=> e.classe # c
      BY <1>1, <1>3
    <2>3. DasOutras(t, c) = Filtrada(t, la) /\ DasOutras(s, c) = Filtrada(s, onde)
      BY DEF DasOutras
    <2> HIDE DEF onde, la
    <2>4. Filtrada(Append(s, e), la) =
           IF Len(s) + 1 \in la THEN Append(Filtrada(s, onde), e) ELSE Filtrada(s, onde)
      BY <2>1, FiltradaDeMaisUm DEF n
    <2> QED
      BY <2>2, <2>3, <2>4 DEF t, n
  <1> QED
    BY <1>4, <1>5 DEF t


(* The iteration of a removal to the n-th element.                           *)
Iterada(s, c, g, n) ==
    /\ g \in [0..n -> {0, 1}]
    /\ g[0] = 0
    /\ \A i \in 1..n : g[i] = IF s[i].classe = c /\ g[i - 1] = 0 THEN 1 ELSE 0

LEMMA DaIterada ==
  ASSUME NEW s, NEW c, NEW n \in Nat
  PROVE  \E g : Iterada(s, c, g, n)
  <1> DEFINE T == {k \in 0..n : ~\E g : Iterada(s, c, g, k)}
  <1>1. SUFFICES ASSUME T # {} PROVE FALSE
    OBVIOUS
  <1>2. PICK m \in T : \A k \in T : m <= k
    <2>1. T \in SUBSET Nat
      OBVIOUS
    <2> HIDE DEF T
    <2> QED
      BY <1>1, <2>1, Minimo
  <1>3. m \in 0..n /\ ~\E g : Iterada(s, c, g, m)
    OBVIOUS
  <1>4. m # 0
    <2>1. Iterada(s, c, [i \in 0..0 |-> 0], 0)
      BY DEF Iterada
    <2> QED
      BY <1>3, <2>1
  <1>5. PICK g : Iterada(s, c, g, m - 1)
    <2>1. m - 1 \notin T /\ m - 1 \in 0..n
      BY <1>2, <1>3, <1>4
    <2> QED
      BY <2>1
  <1> DEFINE h == [i \in 0..m |-> IF i # m THEN g[i]
                                  ELSE IF s[m].classe = c /\ g[m - 1] = 0 THEN 1 ELSE 0]
  <1>6. Iterada(s, c, h, m)
    <2>1. m \in 1..n /\ m - 1 \in Nat
      BY <1>3, <1>4
    <2>2. \A i \in 0..(m - 1) : h[i] = g[i] /\ g[i] \in {0, 1}
      BY <1>5, <2>1 DEF Iterada
    <2>3. h[m] = IF s[m].classe = c /\ g[m - 1] = 0 THEN 1 ELSE 0
      BY <2>1
    <2>4. h = [i \in 0..m |-> h[i]]
      OBVIOUS
    <2> HIDE DEF h
    <2>5. \A i \in 0..m : i = m \/ i \in 0..(m - 1)
      BY <2>1
    <2>6. h \in [0..m -> {0, 1}]
      BY <2>2, <2>3, <2>4, <2>5
    <2>7. h[m - 1] = g[m - 1] /\ h[0] = 0
      BY <1>5, <2>1, <2>2 DEF Iterada
    <2>8. \A i \in 1..m : h[i] = IF s[i].classe = c /\ h[i - 1] = 0 THEN 1 ELSE 0
      <3> TAKE i \in 1..m
      <3>1. CASE i = m
        BY <2>3, <2>7, <3>1
      <3>2. CASE i # m
        <4>1. i \in 1..(m - 1) /\ i \in 0..(m - 1) /\ i - 1 \in 0..(m - 1)
          BY <2>1, <3>2
        <4>2. g[i] = IF s[i].classe = c /\ g[i - 1] = 0 THEN 1 ELSE 0
          BY <1>5, <4>1 DEF Iterada
        <4> QED
          BY <2>2, <4>1, <4>2
      <3> QED
        BY <3>1, <3>2
    <2> QED
      BY <2>6, <2>7, <2>8 DEF Iterada
  <1> QED
    BY <1>3, <1>6

(* Which entities a removal takes: those of the class, but the one right     *)
(* after one it took.                                                        *)
LEMMA DaRemovida ==
  ASSUME NEW E, NEW s \in Seq(E), NEW c
  PROVE  /\ Removida(s, c) \subseteq 1..Len(s)
         /\ \A i \in 1..Len(s) :
              i \in Removida(s, c) <=> s[i].classe = c /\ i - 1 \notin Removida(s, c)
  <1> DEFINE n == Len(s)
             D(g) == [i \in 0..n |-> IF i = 0 THEN 0
                                     ELSE IF s[i].classe = c /\ g[i - 1] = 0 THEN 1 ELSE 0]
             sai == CHOOSE g : g = D(g)
  <1>1. Removida(s, c) = {i \in DOMAIN s : sai[i] = 1}
    BY DEF Removida
  <1>2. n \in Nat /\ DOMAIN s = 1..n
    OBVIOUS
  <1> HIDE DEF n
  <1>3. PICK g : Iterada(s, c, g, n)
    BY <1>2, DaIterada
  <1>4. g = D(g)
    <2>1. g = [i \in 0..n |-> g[i]]
      BY <1>3 DEF Iterada
    <2>2. g[0] = 0 /\ \A i \in 1..n : g[i] = IF s[i].classe = c /\ g[i - 1] = 0 THEN 1 ELSE 0
      BY <1>3 DEF Iterada
    <2>3. \A i \in 0..n : i = 0 \/ i \in 1..n
      BY <1>2
    <2>4. \A i \in 1..n : i # 0
      BY <1>2
    <2>5. \A i \in 0..n : g[i] = IF i = 0 THEN 0
                                 ELSE IF s[i].classe = c /\ g[i - 1] = 0 THEN 1 ELSE 0
      BY <2>2, <2>3, <2>4
    <2> QED
      BY <2>1, <2>5
  <1>5. sai = D(sai)
    <2> HIDE DEF D
    <2> QED
      BY <1>4
  <1> HIDE DEF sai
  <1>6. \A i \in 0..n : sai[i] = IF i = 0 THEN 0
                                 ELSE IF s[i].classe = c /\ sai[i - 1] = 0 THEN 1 ELSE 0
    BY <1>5
  <1> HIDE DEF D
  <1> DEFINE R == Removida(s, c)
  <1>7. \A i \in 1..n : i \in R <=> sai[i] = 1
    BY <1>1, <1>2
  <1>8. 0 \notin R /\ R \subseteq 1..n
    BY <1>1, <1>2
  <1> HIDE DEF R
  <1>9. \A i \in 1..n : i \in R <=> s[i].classe = c /\ i - 1 \notin R
    <2> TAKE i \in 1..n
    <2>1. sai[i] = IF s[i].classe = c /\ sai[i - 1] = 0 THEN 1 ELSE 0
      BY <1>2, <1>6
    <2>2. sai[i - 1] = 0 <=> i - 1 \notin R
      <3>1. CASE i = 1
        BY <1>2, <1>6, <1>8, <3>1
      <3>2. CASE i # 1
        <4>1. i - 1 \in 1..n
          BY <1>2, <3>2
        <4>2. sai[i - 1] \in {0, 1}
          BY <1>2, <1>6, <4>1
        <4> QED
          BY <1>7, <4>1, <4>2
      <3> QED
        BY <3>1, <3>2
    <2> QED
      BY <1>7, <2>1, <2>2
  <1> QED
    BY <1>8, <1>9 DEF R, n

(* What a removal leaves and what it takes, element by element.              *)
LEMMA DaRemocao ==
  ASSUME NEW E, NEW s \in Seq(E), NEW c
  PROVE  LET t == Filtrada(s, DOMAIN s \ Removida(s, c)) IN
         /\ t \in Seq(E)
         /\ DasOutras(t, c) = DasOutras(s, c)
         /\ 2 * Len(DaClasse(t, c)) <= Len(DaClasse(s, c))
         /\ ~Vizinhas(s, c) => DaClasse(t, c) = <<>>
  <1> DEFINE n == Len(s)
             R == Removida(s, c)
             ficam == DOMAIN s \ R
             daClasse == {i \in DOMAIN s : s[i].classe = c}
             outras == {i \in DOMAIN s : s[i].classe # c}
             t == Filtrada(s, ficam)
  <1>1. n \in Nat /\ DOMAIN s = 1..n /\ n \in 0..n
    OBVIOUS
  <1>2. \A i \in 1..n : s[i] \in E
    OBVIOUS
  <1>3. R \subseteq 1..n /\ 0 \notin R
        /\ \A i \in 1..n : i \in R <=> s[i].classe = c /\ i - 1 \notin R
    <2>1. R \subseteq 1..n /\ \A i \in 1..n : i \in R <=> s[i].classe = c /\ i - 1 \notin R
      BY DaRemovida
    <2> QED
      BY <1>1, <2>1
  <1> HIDE DEF R
  <1>4. PICK r : Parte(E, s, ficam, r, n) /\ t = r[n]
    <2> HIDE DEF ficam
    <2> QED
      BY DeFiltrada
  <1>5. PICK d : Parte(E, s, daClasse, d, n) /\ DaClasse(s, c) = d[n]
    <2>1. DaClasse(s, c) = Filtrada(s, daClasse)
      BY DEF DaClasse
    <2> HIDE DEF daClasse
    <2> QED
      BY <2>1, DeFiltrada
  <1>6. PICK o : Parte(E, s, outras, o, n) /\ DasOutras(s, c) = o[n]
    <2>1. DasOutras(s, c) = Filtrada(s, outras)
      BY DEF DasOutras
    <2> HIDE DEF outras
    <2> QED
      BY <2>1, DeFiltrada
  <1>7. \A i \in 1..n : /\ i \in ficam <=> i \notin R
                        /\ i \in daClasse <=> s[i].classe = c
                        /\ i \in outras <=> s[i].classe # c
    BY <1>1
  <1> HIDE DEF n, ficam, daClasse, outras, t
  <1> DEFINE Tirou(i) == IF i \in R THEN 1 ELSE 0
             J(i) == /\ DasOutras(r[i], c) = o[i]
                     /\ 2 * Len(DaClasse(r[i], c)) + Tirou(i) <= Len(d[i])
                     /\ ~Vizinhas(s, c) => DaClasse(r[i], c) = <<>>
             X == {i \in 0..n : ~J(i)}
  <1>8. J(0)
    <2>1. r[0] = <<>> /\ d[0] = <<>> /\ o[0] = <<>>
      BY <1>4, <1>5, <1>6 DEF Parte
    <2>2. DaClasse(<<>>, c) = <<>> /\ DasOutras(<<>>, c) = <<>>
      BY FiltradaVazia DEF DaClasse, DasOutras
    <2>3. Len(<<>>) = 0
      OBVIOUS
    <2> QED
      BY <1>3, <2>1, <2>2, <2>3
  <1>9. ASSUME NEW i \in 1..n, J(i - 1) PROVE J(i)
    <2> DEFINE k == i - 1
    <2>1. k \in 0..n /\ i \in 0..n /\ s[i] \in E
      BY <1>1, <1>2
    <2>2. r[k] \in Seq(E) /\ d[k] \in Seq(E) /\ o[k] \in Seq(E)
      BY <1>4, <1>5, <1>6, <2>1 DEF Parte
    <2>3. /\ r[i] = IF i \in ficam THEN Append(r[k], s[i]) ELSE r[k]
          /\ d[i] = IF i \in daClasse THEN Append(d[k], s[i]) ELSE d[k]
          /\ o[i] = IF i \in outras THEN Append(o[k], s[i]) ELSE o[k]
      BY <1>4, <1>5, <1>6 DEF Parte
    <2> DEFINE e == s[i]
    <2>4. /\ DaClasse(Append(r[k], e), c) =
                IF e.classe = c THEN Append(DaClasse(r[k], c), e) ELSE DaClasse(r[k], c)
          /\ DasOutras(Append(r[k], e), c) =
                IF e.classe # c THEN Append(DasOutras(r[k], c), e) ELSE DasOutras(r[k], c)
      <3> DEFINE rk == r[k]
      <3>1. rk \in Seq(E) /\ e \in E
        BY <2>1, <2>2
      <3> HIDE DEF e, rk
      <3>2. /\ DaClasse(Append(rk, e), c) =
                  IF e.classe = c THEN Append(DaClasse(rk, c), e) ELSE DaClasse(rk, c)
            /\ DasOutras(Append(rk, e), c) =
                  IF e.classe # c THEN Append(DasOutras(rk, c), e) ELSE DasOutras(rk, c)
        BY <3>1, ClasseDeMaisUm
      <3> QED
        BY <3>2 DEF rk
    <2>5. DaClasse(r[k], c) \in Seq(E)
      BY <2>2, TipoDaFiltrada DEF DaClasse
    <2>6. Len(Append(DaClasse(r[k], c), e)) = Len(DaClasse(r[k], c)) + 1
          /\ Len(DaClasse(r[k], c)) \in Nat
      <3> HIDE DEF k
      <3> QED
        BY <2>1, <2>5, DeAppend
    <2>7. Len(Append(d[k], e)) = Len(d[k]) + 1 /\ Len(d[k]) \in Nat
      <3> HIDE DEF k
      <3> QED
        BY <2>1, <2>2, DeAppend
    <2>8. i \in R <=> e.classe = c /\ k \notin R
      BY <1>3
    <2>9. k \in R /\ e.classe = c => Vizinhas(s, c)
      <3>1. SUFFICES ASSUME k \in R, e.classe = c PROVE Vizinhas(s, c)
        OBVIOUS
      <3>2. k \in 1..n /\ s[k].classe = c
        BY <1>3, <3>1
      <3>3. k \in 1..(Len(s) - 1) /\ k + 1 = i
        BY <1>1, <3>2 DEF n
      <3> QED
        BY <3>1, <3>2, <3>3 DEF Vizinhas
    <2>10. DasOutras(r[k], c) = o[k]
           /\ 2 * Len(DaClasse(r[k], c)) + Tirou(k) <= Len(d[k])
           /\ (~Vizinhas(s, c) => DaClasse(r[k], c) = <<>>)
      BY <1>9
    <2>11. /\ i \in ficam <=> i \notin R
           /\ i \in daClasse <=> e.classe = c
           /\ i \in outras <=> e.classe # c
      BY <1>7
    <2> HIDE DEF e, k
    <2>12. CASE e.classe # c
      <3>1. r[i] = Append(r[k], e) /\ d[i] = d[k] /\ o[i] = Append(o[k], e) /\ Tirou(i) = 0
        BY <2>3, <2>8, <2>11, <2>12 DEF e
      <3>2. DasOutras(r[i], c) = o[i] /\ DaClasse(r[i], c) = DaClasse(r[k], c)
        BY <2>4, <2>10, <2>12, <3>1
      <3> QED
        BY <2>6, <2>7, <2>10, <3>1, <3>2
    <2>13. CASE e.classe = c /\ k \notin R
      <3>1. r[i] = r[k] /\ d[i] = Append(d[k], e) /\ o[i] = o[k] /\ Tirou(i) = 1
            /\ Tirou(k) = 0
        BY <2>3, <2>8, <2>11, <2>13 DEF e
      <3>2. Len(d[i]) = Len(d[k]) + 1
        BY <2>7, <3>1
      <3> QED
        BY <2>6, <2>7, <2>10, <3>1, <3>2
    <2>14. CASE e.classe = c /\ k \in R
      <3>1. r[i] = Append(r[k], e) /\ d[i] = Append(d[k], e) /\ o[i] = o[k] /\ Tirou(i) = 0
            /\ Tirou(k) = 1
        BY <2>3, <2>8, <2>11, <2>14 DEF e
      <3>2. DasOutras(r[i], c) = o[i]
            /\ Len(DaClasse(r[i], c)) = Len(DaClasse(r[k], c)) + 1
            /\ Len(d[i]) = Len(d[k]) + 1
        BY <2>4, <2>6, <2>7, <2>10, <2>14, <3>1
      <3> HIDE DEF Tirou
      <3>3. 2 * Len(DaClasse(r[i], c)) + Tirou(i) <= Len(d[i])
        BY <2>6, <2>7, <2>10, <3>1, <3>2
      <3>4. Vizinhas(s, c)
        BY <2>9, <2>14
      <3> QED
        BY <3>2, <3>3, <3>4
    <2> QED
      BY <2>12, <2>13, <2>14
  <1> HIDE DEF J
  <1>10. X = {}
    <2>1. SUFFICES ASSUME X # {} PROVE FALSE
      OBVIOUS
    <2>2. PICK m \in X : \A k \in X : m <= k
      <3>1. X \in SUBSET Nat
        BY <1>1
      <3> HIDE DEF X
      <3> QED
        BY <2>1, <3>1, Minimo
    <2>3. m \in 1..n /\ m - 1 \in 0..n
      BY <1>1, <1>8, <2>2
    <2>4. J(m - 1)
      BY <1>1, <2>2, <2>3
    <2> QED
      BY <1>9, <2>2, <2>3, <2>4
  <1>11. J(n)
    BY <1>1, <1>10
  <1>12. d[n] \in Seq(E) /\ t \in Seq(E)
    BY <1>1, <1>4, <1>5 DEF Parte
  <1>13. DaClasse(t, c) \in Seq(E)
    BY <1>12, TipoDaFiltrada DEF DaClasse
  <1>14. 2 * Len(DaClasse(t, c)) <= Len(d[n])
    <2>1. Len(DaClasse(t, c)) \in Nat /\ Len(d[n]) \in Nat
      BY <1>12, <1>13
    <2>2. 2 * Len(DaClasse(t, c)) + Tirou(n) <= Len(d[n])
      BY <1>4, <1>11 DEF J
    <2> QED
      BY <2>1, <2>2
  <1>15. DasOutras(t, c) = o[n] /\ (~Vizinhas(s, c) => DaClasse(t, c) = <<>>)
    BY <1>4, <1>11 DEF J
  <1> QED
    BY <1>5, <1>6, <1>12, <1>14, <1>15 DEF t, ficam, R

-----------------------------------------------------------------------------
Entidades == [id : Pedidos, classe : Classes]

(* The stores, and what of an emission depends on them.                      *)
TipoDasFontes == fonte \in [Fontes -> Seq(Entidades)] /\ modulo \in Fontes

DosPedidos ==
    \A p \in Pedidos :
      /\ req[p].op = "emitir" =>
            /\ {"anterior", "notas"} \subseteq DOMAIN req[p]
            /\ req[p].fase \in {"enviado", "200"} => req[p].notas = <<p>>
      /\ req[p].op \in {"remover", "entidade"} => req[p].fase = "200"

(* While an emission is in its block the variable holds its store, which has *)
(* its note once it is converted, and the one to put back is the process's.  *)
DoBloco(p) ==
    /\ modulo = p /\ req[p].anterior = Processo
    /\ \A q \in Pedidos \ {p} : fonte[q] = <<>>
    /\ DaClasse(fonte[p], "NotaFiscal") =
         IF req[p].fase = "trocada" THEN <<>> ELSE <<Entidade(p, "NotaFiscal")>>

FonteIInv ==
    /\ Forma
    /\ TipoDasFontes
    /\ DosPedidos
    /\ BlocoIsolado
    /\ \A p \in Pedidos : NoBloco(p) => DoBloco(p)

(* What a step outside the blocks makes of a request it changes, but for an  *)
(* emission that starts: an emission is answered, and whatever else is       *)
(* created, removed or exported is so at once.                               *)
Quieto(p) ==
    \/ /\ SoMudaFase(req[p], req'[p]) /\ req[p].fase \notin Finais
       /\ req[p].op = "emitir" => \/ req'[p].fase = "500"
                                  \/ req[p].fase = "enviado" /\ req'[p].fase = "200"
    \/ /\ req[p].op # "entidade" /\ req'[p].op # "emitir"
       /\ req'[p].op = "entidade" => req'[p].fase = "200"
       /\ req'[p].op = "remover" => \E c \in Classes : RemoverClasse(p, c)

(* A request that moves on from where it was not answered.                   *)
LEMMA QuietoAoSeguir ==
    ASSUME Forma, NEW p \in Pedidos, NEW v, Segue(p, v), req[p].fase \notin Finais,
           req[p].op = "emitir" => v = "500" \/ (v = "200" /\ req[p].fase = "enviado")
    PROVE  Outros(p) /\ Quieto(p)
  BY EfeitoDeSegue DEF Quieto

(* A request that becomes one of another kind.                               *)
LEMMA QuietoAoFicar ==
    ASSUME Forma, NEW p \in Pedidos, NEW r, Fica(p, r), req[p].op # "entidade",
           r.op \notin {"emitir", "remover", "entidade"}
    PROVE  Outros(p) /\ Quieto(p)
  BY EfeitoDeFica DEF Quieto

(* An emission starts, is in its block, or the step is quiet about it.       *)
LEMMA EfeitoDoPasso ==
    ASSUME Forma, [ApiNext]_apiVars, NEW p \in Pedidos, req'[p] # req[p]
    PROVE  \/ Quieto(p)
           \/ \E t \in Pedidos, d \in Documentos \union {SemCliente} : Emitir(p, t, d)
           \/ PassoDoBloco(p)
  <1> USE DEF Finais
  <1> DEFINE Comeca == \E t \in Pedidos, d \in Documentos \union {SemCliente} : Emitir(p, t, d)
  <1>0. ASSUME NEW q \in Pedidos, Outros(q) /\ Quieto(q) PROVE Quieto(p)
    BY <1>0 DEF Outros
  <1>1. CASE CadNext
    <2>2. CASE \E q \in Pedidos, cnpj \in Cnpjs : CriarEmpresa(q, cnpj)
      BY <1>0, <2>2, QuietoAoFicar, Novos DEF CriarEmpresa
    <2>3. CASE \E q \in Pedidos : Inserir(q)
      BY <1>0, <2>3, QuietoAoSeguir DEF Inserir, Em
    <2>4. CASE \E q \in Pedidos, k \in Prefixos : GravarCadastro(q, k)
      BY <1>0, <2>4, QuietoAoSeguir DEF GravarCadastro, Em
    <2>5. CASE \E q \in Pedidos : EntregarCredenciais(q)
      BY <1>0, <2>5, QuietoAoSeguir DEF EntregarCredenciais, Em
    <2>6. CASE \E q, s \in Pedidos, k \in Prefixos : Login(q, s, k)
      BY <1>0, <2>6, QuietoAoFicar, Novos DEF Login
    <2>7. CASE \E q, t \in Pedidos : Refresh(q, t) \/ Recusar(q, t) \/ Atualizar(q, t)
      BY <1>0, <2>7, QuietoAoFicar, Novos DEF Refresh, Recusar, Atualizar, Autentica
    <2>8. CASE \E q \in Pedidos : GravarEmpresa(q)
      BY <1>0, <2>8, QuietoAoSeguir DEF GravarEmpresa, Em
    <2>9. CASE \E c \in DOMAIN clientes : DesativarCliente(c)
      BY <2>9 DEF DesativarCliente
    <2>10. QED
      BY <1>1, <2>2, <2>3, <2>4, <2>5, <2>6, <2>7, <2>8, <2>9 DEF CadNext
  <1>2. CASE \E q \in Pedidos : LgpdNext(q)
    <2>1. PICK q \in Pedidos : LgpdNext(q)
      BY <1>2
    <2>2. p = q
      BY <2>1, LgpdCampos DEF Outros
    <2>4. CASE \E t \in Pedidos, d \in Documentos : Anonimizar(p, t, d)
      BY <2>4, QuietoAoFicar, Novos DEF Anonimizar, Autentica
    <2>5. CASE \E t, s \in Pedidos : ConsultarSolicitacao(p, t, s)
      BY <2>5, QuietoAoFicar, Novos DEF ConsultarSolicitacao, Autentica
    <2>6. CASE GravarNota(p)
      BY <2>6, QuietoAoSeguir DEF GravarNota, Em
    <2>7. CASE Selecionar(p)
      <3>1. req[p].op = "anonimizar"
            /\ Fica(p, [req[p] EXCEPT !.alvo = NotasDoDocumento(req[p].empresa, req[p].doc),
                              !.vistas = DOMAIN notas, !.fase = "selecionado"])
        BY <2>7 DEF Selecionar, Em
      <3>2. "op" \in DOMAIN req[p]
        BY DEF Forma, ComCampos
      <3>3. QED BY <3>1, <3>2, QuietoAoFicar
    <2>8. CASE ApagarDados(p)
      BY <2>8, QuietoAoSeguir DEF ApagarDados, Em
    <2>9. CASE RegistrarSolicitacao(p)
      BY <2>9, QuietoAoSeguir DEF RegistrarSolicitacao, Em
    <2>10. QED
      BY <2>1, <2>2, <2>4, <2>5, <2>6, <2>7, <2>8, <2>9 DEF LgpdNext
  <1>3. CASE \E q \in Pedidos : Interromper(q)
    BY <1>0, <1>3, QuietoAoSeguir DEF Interromper, EmCurso
  <1>4. CASE PassoAlheio
    BY <1>4 DEF PassoAlheio, Alheia, Quieto
  <1>5. CASE \E q \in Pedidos : PassoDoBloco(q)
    BY <1>5 DEF PassoDoBloco, Outros
  <1>6. QED BY <1>1, <1>2, <1>3, <1>4, <1>5, ModoDoPasso

(* What a step is of the stores.                                             *)
LEMMA PassoDasFontes ==
    ASSUME Forma, [ApiNext]_apiVars
    PROVE  \/ UNCHANGED <<req, fonteVars>>
           \/ LacoLivre /\ UNCHANGED fonteVars
           \/ LacoLivre /\ \E p \in Pedidos : FonteNext(p)
           \/ LacoLivre /\ \E p, t \in Pedidos, d \in Documentos \union {SemCliente} :
                                Emitir(p, t, d)
           \/ \E p \in Pedidos : PassoDoBloco(p)
  <1>1. CASE LacoLivre /\ \E p \in Pedidos : LgpdNext(p)
    BY <1>1 DEF LgpdNext, GravarNota, Anonimizar, Selecionar, ApagarDados,
                RegistrarSolicitacao, ConsultarSolicitacao
  <1>2. QED BY <1>1, EfeitoDoBloco DEF ApiNext, ForaDoBloco, apiVars, fonteVars

(* Outside the blocks no quiet step opens one, and what was of a kind stays. *)
LEMMA DosQuietos ==
    ASSUME FonteIInv, LacoLivre, \A p \in Pedidos : req'[p] = req[p] \/ Quieto(p)
    PROVE  /\ LacoLivre' /\ DosPedidos'
           /\ \A p \in Pedidos : req[p].op = "entidade" => req'[p].op = "entidade"
  <1> DEFINE Bem(p) ==
               /\ ~NoBloco(p)'
               /\ req'[p].op = "emitir" =>
                     /\ {"anterior", "notas"} \subseteq DOMAIN req'[p]
                     /\ req'[p].fase \in {"enviado", "200"} => req'[p].notas = <<p>>
               /\ req'[p].op \in {"remover", "entidade"} => req'[p].fase = "200"
               /\ req[p].op = "entidade" => req'[p].op = "entidade"
  <1>1. ASSUME NEW p \in Pedidos PROVE Bem(p)
    <2>1. CASE req'[p] = req[p]
      BY <2>1 DEF FonteIInv, DosPedidos, LacoLivre, NoBloco
    <2>2. CASE /\ SoMudaFase(req[p], req'[p]) /\ req[p].fase \notin Finais
               /\ req[p].op = "emitir" => \/ req'[p].fase = "500"
                                          \/ req[p].fase = "enviado" /\ req'[p].fase = "200"
      <3>1. req'[p].op = req[p].op /\ DOMAIN req'[p] = DOMAIN req[p]
        BY <2>2 DEF FonteIInv, Forma, ComCampos, SoMudaFase
      <3>2. req[p].op \notin {"remover", "entidade"}
        BY <2>2 DEF FonteIInv, DosPedidos, Finais
      <3>3. req[p].op = "emitir" => req'[p].notas = req[p].notas
        BY <2>2 DEF FonteIInv, DosPedidos, SoMudaFase
      <3>4. QED BY <2>2, <3>1, <3>2, <3>3 DEF FonteIInv, DosPedidos, NoBloco
    <2>3. CASE /\ req[p].op # "entidade" /\ req'[p].op # "emitir"
               /\ req'[p].op = "entidade" => req'[p].fase = "200"
               /\ req'[p].op = "remover" => \E c \in Classes : RemoverClasse(p, c)
      <3>1. ASSUME req'[p].op = "remover" PROVE req'[p].fase = "200"
        <4>1. PICK c \in Classes : RemoverClasse(p, c)
          BY <2>3, <3>1
        <4>2. Forma /\ Fica(p, [op |-> "remover", classe |-> c, fase |-> "200"])
          BY <4>1 DEF FonteIInv, RemoverClasse
        <4>3. QED BY <4>2, EfeitoDeFica
      <3>2. QED BY <2>3, <3>1 DEF NoBloco
    <2>4. QED BY <1>1, <2>1, <2>2, <2>3 DEF Quieto
  <1>2. QED BY <1>1 DEF LacoLivre, DosPedidos

(* The entities there are of requests that made one.                         *)
Alheias == {e \in Entidades : req[e.id].op = "entidade"}

LEMMA DeAlheias ==
    ASSUME FonteIInv
    PROVE  /\ fonte[Processo] \in Seq(Alheias)
           /\ \A i \in DOMAIN fonte[Processo] : fonte[Processo][i] \in Alheias
  <1>1. fonte[Processo] \in Seq(Entidades)
    BY DEF FonteIInv, TipoDasFontes, Fontes
  <1>2. \A i \in DOMAIN fonte[Processo] : fonte[Processo][i] \in Alheias
    BY <1>1 DEF FonteIInv, BlocoIsolado, Alheias
  <1> DEFINE s == fonte[Processo]
  <1> HIDE DEF s
  <1>3. s \in Seq(Entidades) /\ \A i \in DOMAIN s : s[i] \in Alheias
    BY <1>1, <1>2 DEF s
  <1>4. s \in Seq(Alheias)
    BY <1>3
  <1>5. QED BY <1>2, <1>4 DEF s

(* What is made, removed or exported outside the blocks is of the process.   *)
LEMMA FonteIInvDaFonte ==
    ASSUME FonteIInv, Forma', LacoLivre, NEW p \in Pedidos, FonteNext(p)
    PROVE  FonteIInv'
  <1>1. Forma /\ TipoDasFontes /\ modulo = Processo /\ \A q \in Pedidos : fonte[q] = <<>>
    BY DEF FonteIInv, BlocoIsolado
  <1>2. PICK r : /\ Fica(p, r) /\ r.op \in {"entidade", "remover", "exportar"}
                 /\ r.op = "entidade" => r.fase = "200"
                 /\ r.op = "remover" => \E c \in Classes : RemoverClasse(p, c)
                 /\ Novo(p) /\ modulo' = modulo
    BY DEF FonteNext, CriarEntidade, RemoverClasse, ExportarTudo, Adicionar
  <1>3. Outros(p) /\ req'[p] = r /\ req[p].op = "nenhuma"
    BY <1>1, <1>2, EfeitoDeFica, Novos
  <1>4. LacoLivre' /\ DosPedidos' /\ \A q \in Pedidos : req[q].op = "entidade" => req'[q].op = "entidade"
    BY <1>2, <1>3, DosQuietos DEF Outros, Quieto
  <1>5. fonte[Processo] \in Seq(Alheias')
    <2>1. Alheias \subseteq Alheias'
      BY <1>4 DEF Alheias, Entidades
    <2>2. fonte[Processo] \in Seq(Alheias)
      BY DeAlheias
    <2> DEFINE s == fonte[Processo]
               A == Alheias
               B == Alheias'
    <2> HIDE DEF s, A, B
    <2>3. s \in Seq(A) /\ A \subseteq B
      BY <2>1, <2>2 DEF s, A, B
    <2>4. s \in Seq(B)
      BY <2>3
    <2>5. QED BY <2>4 DEF s, B
  <1>6. \E s \in Seq(Alheias') : fonte' = [fonte EXCEPT ![Processo] = s]
    <2>1. CASE \E c \in Classes : CriarEntidade(p, c)
      <3>1. PICK c \in Classes : CriarEntidade(p, c)
        BY <2>1
      <3> DEFINE e == Entidade(p, c)
                 B == Alheias'
                 s == fonte[Processo]
      <3>2. e \in B
        BY <1>1, <3>1, EfeitoDeFica DEF CriarEntidade, Entidade, Entidades, Alheias
      <3>3. fonte' = [fonte EXCEPT ![Processo] = Append(s, e)]
        BY <1>1, <3>1 DEF CriarEntidade, Adicionar
      <3> HIDE DEF e, B
      <3>4. Append(s, e) \in Seq(B)
        BY <1>5, <3>2, DeAppend DEF B
      <3>5. QED BY <3>3, <3>4 DEF B
    <2>2. CASE \E c \in Classes : RemoverClasse(p, c)
      BY <1>5, <2>2, TipoDaFiltrada DEF RemoverClasse
    <2>3. CASE \E limpar \in BOOLEAN : ExportarTudo(p, limpar)
      <3>1. fonte = [fonte EXCEPT ![Processo] = fonte[Processo]]
        BY <1>1 DEF TipoDasFontes
      <3>2. <<>> \in Seq(Alheias')
        OBVIOUS
      <3>3. fonte' = [fonte EXCEPT ![Processo] = <<>>] \/ fonte' = fonte
        BY <2>3 DEF ExportarTudo
      <3>4. QED BY <1>5, <3>1, <3>2, <3>3
    <2>4. QED BY <2>1, <2>2, <2>3 DEF FonteNext
  <1>7. PICK s \in Seq(Alheias') : fonte' = [fonte EXCEPT ![Processo] = s]
    BY <1>6
  <1>8. /\ fonte'[Processo] = s /\ DOMAIN fonte' = Fontes
        /\ \A q \in Pedidos : fonte'[q] = <<>>
    BY <1>1, <1>7, ProcessoAssumption DEF TipoDasFontes, Fontes
  <1>9. s \in Seq(Entidades) /\ \A i \in DOMAIN s : s[i] \in Alheias'
    <2>1. Alheias' \subseteq Entidades
      BY DEF Alheias, Entidades
    <2> DEFINE A == Alheias'
               B == Entidades
    <2> HIDE DEF A, B
    <2>2. s \in Seq(A) /\ A \subseteq B
      BY <1>7, <2>1 DEF A, B
    <2>3. s \in Seq(B) /\ \A i \in DOMAIN s : s[i] \in A
      BY <2>2
    <2>4. QED BY <2>3 DEF A, B
  <1>10. TipoDasFontes'
    BY <1>1, <1>2, <1>7, <1>9 DEF TipoDasFontes, Entidades
  <1>11. BlocoIsolado'
    BY <1>1, <1>2, <1>8, <1>9 DEF BlocoIsolado, Alheias
  <1>12. QED BY <1>4, <1>10, <1>11 DEF FonteIInv, LacoLivre

(* An emission starts: its store is empty, and the variable was the process's. *)
LEMMA FonteIInvDaTroca ==
    ASSUME FonteIInv, Forma', LacoLivre, NEW p \in Pedidos, NEW t, NEW d, Emitir(p, t, d)
    PROVE  FonteIInv'
  <1>1. Forma /\ TipoDasFontes /\ modulo = Processo /\ \A q \in Pedidos : fonte[q] = <<>>
    BY DEF FonteIInv, BlocoIsolado
  <1>2. PICK e : Fica(p, [op |-> "emitir", fase |-> "trocada", token |-> t, doc |-> d,
                          empresa |-> e, anterior |-> modulo, notas |-> <<>>])
    BY DEF Emitir
  <1>3. /\ req'[p].op = "emitir" /\ req'[p].fase = "trocada" /\ req'[p].anterior = Processo
        /\ {"anterior", "notas"} \subseteq DOMAIN req'[p]
        /\ Outros(p) /\ req[p].op = "nenhuma"
    BY <1>1, <1>2, EfeitoDeFica, Novos DEF Emitir, Autentica
  <1>4. fonte' = [fonte EXCEPT ![p] = <<>>] /\ modulo' = p
    BY DEF Emitir, Trocar
  <1>5. fonte'[Processo] = fonte[Processo] /\ \A q \in Pedidos : fonte'[q] = <<>>
    BY <1>1, <1>4, ProcessoAssumption DEF TipoDasFontes, Fontes
  <1>6. TipoDasFontes'
    BY <1>1, <1>4 DEF TipoDasFontes, Fontes, Entidades
  <1>7. DosPedidos'
    BY <1>3 DEF FonteIInv, DosPedidos, Outros
  <1>8. NoBloco(p)' /\ \A q \in Pedidos \ {p} : ~NoBloco(q)'
    BY <1>3 DEF LacoLivre, NoBloco, Outros
  <1>9. BlocoIsolado'
    <2>1. \A i \in DOMAIN fonte[Processo] : /\ fonte[Processo][i].id \in Pedidos
                                            /\ req[fonte[Processo][i].id].op = "entidade"
      <3>1. \A x \in Alheias : x.id \in Pedidos /\ req[x.id].op = "entidade"
        BY DEF Alheias, Entidades
      <3>2. QED BY <3>1, DeAlheias
    <2>2. \A q \in Pedidos : req[q].op = "entidade" => req'[q].op = "entidade"
      BY <1>3 DEF Outros
    <2>3. QED BY <1>5, <1>8, <2>1, <2>2 DEF BlocoIsolado, LacoLivre
  <1>10. DoBloco(p)'
    BY <1>3, <1>4, <1>5, FiltradaVazia DEF DoBloco, DaClasse
  <1>11. QED BY <1>6, <1>7, <1>8, <1>9, <1>10 DEF FonteIInv
(* A step in the block of an emission: its store has at most its note, which *)
(* the export finds, and the end puts the process's store back.              *)
LEMMA FonteIInvDoBloco ==
    ASSUME FonteIInv, Forma', NEW p \in Pedidos, PassoDoBloco(p)
    PROVE  FonteIInv'
  <1>1. Forma /\ TipoDasFontes /\ NoBloco(p) /\ DoBloco(p)
    BY DEF FonteIInv, PassoDoBloco
  <1>2. modulo = p /\ req[p].anterior = Processo /\ \A q \in Pedidos \ {p} : fonte[q] = <<>>
    BY <1>1 DEF DoBloco
  <1>3. Outros(p) /\ req[p].op = "emitir" /\ req'[p].op = "emitir"
            /\ {"anterior", "notas"} \subseteq DOMAIN req'[p]
            /\ req'[p].anterior = Processo
    BY <1>1, <1>2 DEF PassoDoBloco, NoBloco, FonteIInv, DosPedidos
  <1>4. \A q \in Pedidos \ {p} : ~NoBloco(q) /\ ~NoBloco(q)'
    BY <1>2, <1>3 DEF FonteIInv, DoBloco, NoBloco, Outros
  <1> DEFINE s == fonte[p]
             e == Entidade(p, "NotaFiscal")
             E == Entidades
  <1>5. s \in Seq(E)
    BY <1>1 DEF TipoDasFontes, Fontes
  <1>6. e \in E /\ e.classe = "NotaFiscal" /\ e.id = p
    BY ClassesAssumption DEF Entidade, Entidades
  <1>7. DaClasse(s, "NotaFiscal") = IF req[p].fase = "trocada" THEN <<>> ELSE <<e>>
    BY <1>1 DEF DoBloco
  <1> DEFINE AFonteFica(v, m) == fonte' = [fonte EXCEPT ![p] = v] /\ modulo' = m
  <1>8. ASSUME NEW v \in Seq(E), NEW m \in Fontes, AFonteFica(v, m)
        PROVE  /\ TipoDasFontes' /\ fonte'[p] = v /\ fonte'[Processo] = fonte[Processo]
               /\ \A q \in Pedidos \ {p} : fonte'[q] = <<>>
    BY <1>1, <1>2, <1>8, ProcessoAssumption DEF TipoDasFontes, Fontes, Entidades
  <1>9. \A i \in DOMAIN fonte[Processo] : req'[fonte[Processo][i].id].op = "entidade"
    <2>1. \A x \in Alheias : req'[x.id].op = "entidade"
      BY <1>3 DEF Alheias, Entidades, Outros
    <2>2. QED BY <2>1, DeAlheias
  (* An entity more, of class c.                                             *)
  <1>10. ASSUME NEW c \in Classes, Adicionar(p, c), NoBloco(p)', DosPedidos',
                DaClasse(Append(s, Entidade(p, c)), "NotaFiscal") =
                  IF req'[p].fase = "trocada" THEN <<>> ELSE <<e>>
         PROVE  FonteIInv'
    <2> DEFINE v == Append(s, Entidade(p, c))
    <2>1. v \in Seq(E)
      BY <1>5, DeAppend DEF Entidade, Entidades
    <2>2. AFonteFica(v, p) /\ p \in Fontes
      BY <1>2, <1>10 DEF Adicionar, Fontes
    <2>3. /\ TipoDasFontes' /\ fonte'[p] = v /\ fonte'[Processo] = fonte[Processo]
          /\ \A q \in Pedidos \ {p} : fonte'[q] = <<>>
      BY <1>8, <2>1, <2>2
    <2>4. BlocoIsolado'
      BY <1>9, <1>10, <2>3 DEF BlocoIsolado, LacoLivre
    <2>5. DoBloco(p)'
      BY <1>3, <1>10, <2>2, <2>3 DEF DoBloco
    <2>6. QED BY <1>4, <1>10, <2>3, <2>4, <2>5 DEF FonteIInv
  (* The end of the block.                                                   *)
  <1>11. ASSUME Devolver(p), DosPedidos', ~NoBloco(p)'
         PROVE  FonteIInv'
    <2>1. AFonteFica(<<>>, Processo) /\ Processo \in Fontes /\ <<>> \in Seq(E)
      BY <1>2, <1>11 DEF Devolver, Fontes
    <2>2. /\ TipoDasFontes' /\ fonte'[p] = <<>> /\ fonte'[Processo] = fonte[Processo]
          /\ \A q \in Pedidos \ {p} : fonte'[q] = <<>>
      BY <1>8, <2>1
    <2>3. BlocoIsolado'
      BY <1>9, <2>1, <2>2 DEF BlocoIsolado
    <2>4. QED BY <1>4, <1>11, <2>2, <2>3 DEF FonteIInv
  <1>12. ASSUME req'[p].fase = "enviado" => req'[p].notas = <<p>>
         PROVE  DosPedidos'
    BY <1>3, <1>12 DEF FonteIInv, DosPedidos, PassoDoBloco, Outros
  <1>13. CASE \E c \in Classes : ConverterParte(p, c)
    <2>1. PICK c \in Classes : ConverterParte(p, c)
      BY <1>13
    <2> DEFINE x == Entidade(p, c)
    <2>2. x \in E /\ x.classe # "NotaFiscal"
      BY <2>1 DEF ConverterParte, Entidade, Entidades
    <2>3. DaClasse(Append(s, x), "NotaFiscal") = DaClasse(s, "NotaFiscal")
      <3> HIDE DEF s, x, E
      <3>1. QED BY <1>5, <2>2, ClasseDeMaisUm
    <2>4. req' = req /\ Adicionar(p, c) /\ NoBloco(p)'
      BY <1>1, <2>1 DEF ConverterParte, NoBloco
    <2>5. DosPedidos'
      BY <2>4 DEF FonteIInv, DosPedidos
    <2>6. QED BY <1>7, <1>10, <2>3, <2>4, <2>5
  <1>14. CASE ConverterNota(p)
    <2>1. DaClasse(s, "NotaFiscal") = <<>>
      BY <1>7, <1>14 DEF ConverterNota, Em
    <2>2. DaClasse(Append(s, e), "NotaFiscal") = <<e>>
      <3> HIDE DEF s, e, E
      <3>1. DaClasse(Append(s, e), "NotaFiscal") = Append(DaClasse(s, "NotaFiscal"), e)
        BY <1>5, <1>6, ClasseDeMaisUm
      <3>2. Append(<<>>, e) = <<e>>
        OBVIOUS
      <3>3. QED BY <2>1, <3>1, <3>2
    <2>3. req'[p].fase = "convertida"
      BY <1>1, <1>14, EfeitoDeSegue DEF ConverterNota
    <2>4. NoBloco(p)' /\ DosPedidos'
      BY <1>3, <1>12, <2>3 DEF NoBloco
    <2>5. QED BY <1>10, <1>14, <2>2, <2>3, <2>4, ClassesAssumption DEF ConverterNota
  <1>15. CASE ExportarNota(p)
    <2>1. DaClasse(s, "NotaFiscal") = <<e>>
      BY <1>7, <1>15 DEF ExportarNota, Em
    <2>2. NotasDa(s) = <<p>>
      <3>1. NotasDa(s) = Ids(<<e>>)
        BY <2>1 DEF NotasDa
      <3> HIDE DEF e
      <3>2. Ids(<<e>>) = <<p>>
        BY <1>6 DEF Ids
      <3>3. QED BY <3>1, <3>2
    <2>3. req'[p] = [req[p] EXCEPT !.notas = NotasDa(s), !.fase = "enviado"]
      BY <1>1, <1>15, EfeitoDeFica DEF ExportarNota
    <2>4. "notas" \in DOMAIN req[p] /\ "fase" \in DOMAIN req[p]
      BY <1>1, <1>3 DEF FonteIInv, DosPedidos, Forma, ComCampos
    <2>5. req'[p].notas = <<p>> /\ req'[p].fase = "enviado"
      BY <2>2, <2>3, <2>4
    <2>6. DosPedidos' /\ ~NoBloco(p)'
      BY <1>12, <2>5 DEF NoBloco
    <2>7. QED BY <1>11, <1>15, <2>6 DEF ExportarNota
  <1>16. CASE FalharNoBloco(p)
    <2>1. req'[p].fase = "500"
      BY <1>1, <1>16, EfeitoDeSegue DEF FalharNoBloco
    <2>2. DosPedidos' /\ ~NoBloco(p)'
      BY <1>12, <2>1 DEF NoBloco
    <2>3. QED BY <1>11, <1>16, <2>2 DEF FalharNoBloco
  <1>17. QED BY <1>13, <1>14, <1>15, <1>16 DEF PassoDoBloco, BlocoNext

(* The invariant of the stores is inductive.                                 *)
LEMMA NextFonteIInv ==
    ASSUME FonteIInv, [ApiNext]_apiVars
    PROVE  FonteIInv'
  <1>1. Forma /\ Forma'
    BY FormaInv DEF FonteIInv
  <1>2. CASE UNCHANGED <<req, fonteVars>>
    BY <1>1, <1>2 DEF FonteIInv, TipoDasFontes, DosPedidos, BlocoIsolado, LacoLivre, NoBloco, DoBloco,
                      fonteVars
  <1>3. CASE LacoLivre /\ \E p \in Pedidos : FonteNext(p)
    BY <1>1, <1>3, FonteIInvDaFonte
  <1>4. CASE LacoLivre /\ \E p, t \in Pedidos, d \in Documentos \union {SemCliente} :
                                Emitir(p, t, d)
    BY <1>1, <1>4, FonteIInvDaTroca
  <1>5. CASE \E p \in Pedidos : PassoDoBloco(p)
    BY <1>1, <1>5, FonteIInvDoBloco
  <1>6. CASE /\ LacoLivre /\ UNCHANGED fonteVars
             /\ ~\E p, t \in Pedidos, d \in Documentos \union {SemCliente} : Emitir(p, t, d)
             /\ ~\E p \in Pedidos : PassoDoBloco(p)
    <2>1. \A p \in Pedidos : req'[p] = req[p] \/ Quieto(p)
      BY <1>1, <1>6, EfeitoDoPasso
    <2>2. /\ LacoLivre' /\ DosPedidos'
          /\ \A p \in Pedidos : req[p].op = "entidade" => req'[p].op = "entidade"
      BY <1>6, <2>1, DosQuietos
    <2>3. \A i \in DOMAIN fonte[Processo] : req'[fonte[Processo][i].id].op = "entidade"
      <3>1. \A x \in Alheias : req'[x.id].op = "entidade"
        BY <2>2 DEF Alheias, Entidades
      <3>2. QED BY <3>1, DeAlheias
    <2>4. TipoDasFontes' /\ BlocoIsolado'
      BY <1>6, <2>2, <2>3 DEF FonteIInv, TipoDasFontes, BlocoIsolado, Entidades, fonteVars
    <2>5. QED BY <1>1, <2>2, <2>4 DEF FonteIInv, LacoLivre
  <1>7. QED BY <1>1, <1>2, <1>3, <1>4, <1>5, <1>6, PassoDasFontes

(* It holds in every state.                                                  *)
LEMMA SpecFonteIInv == ApiSpec => []FonteIInv
  <1>1. ApiInit => FonteIInv
    <2> SUFFICES ASSUME ApiInit PROVE FonteIInv
      OBVIOUS
    <2>1. Forma
      BY InitCadastroIInv DEF CadastroIInv
    <2>2. \A p \in Pedidos : req[p].op \notin {"emitir", "remover", "entidade"}
      BY AntesRespondidos DEF ApiInit, ReqInit, Livre
    <2>3. fonte = [f \in Fontes |-> <<>>] /\ modulo = Processo
      BY DEF ApiInit, FonteInit
    <2>4. TipoDasFontes /\ BlocoIsolado
      BY <2>3 DEF TipoDasFontes, BlocoIsolado, Fontes
    <2>5. QED BY <2>1, <2>2, <2>4 DEF FonteIInv, DosPedidos, NoBloco
  <1>2. FonteIInv /\ [ApiNext]_apiVars => FonteIInv'
    BY NextFonteIInv
  <1>3. QED BY <1>1, <1>2, PTL DEF ApiSpec

(* Whatever is made, removed and exported, and wherever the emissions before *)
(* it failed, the document of an emission has its own note and no other.     *)
THEOREM NotaDoDocumento == ApiSpec => []DocumentoProprio
  <1>1. FonteIInv => DocumentoProprio
    BY DEF FonteIInv, DosPedidos, DocumentoProprio
  <1>2. QED BY SpecFonteIInv, <1>1, PTL

(* However an emission ends, the variable holds the store of the process     *)
(* again, in which it has left nothing.                                      *)
THEOREM BlocoIsoladoTeorema == ApiSpec => []BlocoIsolado
  <1>1. FonteIInv => BlocoIsolado
    BY DEF FonteIInv
  <1>2. QED BY SpecFonteIInv, <1>1, PTL

(* Of a store of any length, a removal leaves the other classes in order and *)
(* takes at least one of each two of its class that are neighbours.          *)
THEOREM RemocaoTeorema == ApiSpec => RemocaoDaClasse
  <1> DEFINE s == fonte[Processo]
             t == fonte'[Processo]
             Certa(c) == /\ DasOutras(t, c) = DasOutras(s, c)
                         /\ 2 * Len(DaClasse(t, c)) <= Len(DaClasse(s, c))
                         /\ ~Vizinhas(s, c) => DaClasse(t, c) = <<>>
             A == \A p \in Pedidos : req'[p] # req[p] /\ req'[p].op = "remover" =>
                                       Certa(req'[p].classe)
  <1>1. ASSUME FonteIInv, [ApiNext]_apiVars
        PROVE  A
    <2> SUFFICES ASSUME NEW p \in Pedidos, req'[p] # req[p], req'[p].op = "remover"
                 PROVE  Certa(req'[p].classe)
      OBVIOUS
    <2>1. Forma /\ TipoDasFontes /\ s \in Seq(Entidades)
      BY <1>1 DEF FonteIInv, TipoDasFontes, Fontes
    <2>2. PICK c \in Classes : RemoverClasse(p, c)
      <3>1. CASE Quieto(p)
        <4>1. CASE SoMudaFase(req[p], req'[p]) /\ req[p].fase \notin Finais
          <5>1. req[p].op = "remover"
            BY <2>1, <4>1 DEF SoMudaFase, Forma, ComCampos
          <5>2. QED BY <1>1, <4>1, <5>1 DEF FonteIInv, DosPedidos, Finais
        <4>2. QED BY <3>1, <4>1 DEF Quieto
      <3>2. CASE \E u \in Pedidos, d \in Documentos \union {SemCliente} : Emitir(p, u, d)
        <4>1. PICK e, u, d : Fica(p, [op |-> "emitir", fase |-> "trocada", token |-> u, doc |-> d,
                                      empresa |-> e, anterior |-> modulo, notas |-> <<>>])
          BY <3>2 DEF Emitir
        <4>2. QED BY <2>1, <4>1, EfeitoDeFica
      <3>3. QED BY <1>1, <2>1, <3>1, <3>2, EfeitoDoPasso DEF PassoDoBloco
    <2>3. req'[p].classe = c
      <3>1. Fica(p, [op |-> "remover", classe |-> c, fase |-> "200"])
        BY <2>2 DEF RemoverClasse
      <3>2. QED BY <2>1, <3>1, EfeitoDeFica
    <2>4. t = Filtrada(s, DOMAIN s \ Removida(s, c))
      BY <2>1, <2>2 DEF RemoverClasse, TipoDasFontes, Fontes
    <2> HIDE DEF s, t
    <2>5. Certa(c)
      BY <2>1, <2>4, DaRemocao
    <2>6. QED BY <2>3, <2>5
  <1>2. QED BY <1>1, SpecFonteIInv, PTL DEF ApiSpec, RemocaoDaClasse
=============================================================================
