------------------------------ MODULE Cadastro ------------------------------
(***************************************************************************)
(* The companies and the credentials of their clients                       *)
(* (services/empresa_service.py, routers/auth.py, core/dependencies.py).    *)
(* A company and its client are inserted by one request and have its        *)
(* identifier; the secret the request answers with is told from the others  *)
(* by the same identifier.  A token is the answer of a login or a refresh.  *)
(* Only an administrator creates companies, and no code of the API makes an *)
(* administrator or disables a client: both are done in the database.       *)
(***************************************************************************)
EXTENDS Requisicoes

CONSTANTS
    Cnpjs,    \* the CNPJs companies are created with
    Prefixos  \* the API key prefixes _gerar_credenciais draws

(* What was answered before: companies created, each for a CNPJ of its own,  *)
(* and logins with the secret and the prefix of their clients.               *)
ASSUME AntesRespondidos ==
    /\ IsFiniteSet(Pedidos)
    /\ \A p \in DOMAIN Antes :
          \/ /\ DOMAIN Antes[p] = {"op", "cnpj", "prefixo", "fase"}
             /\ Antes[p].op = "criar" /\ Antes[p].fase = "201"
          \/ /\ DOMAIN Antes[p] = {"op", "segredo", "prefixo", "sub", "fase"}
             /\ Antes[p].op = "login" /\ Antes[p].fase = "200"
             /\ Antes[p].segredo \in DOMAIN Antes
             /\ Antes[Antes[p].segredo].op = "criar"
             /\ Antes[p].sub = Antes[p].segredo
             /\ Antes[p].prefixo = Antes[Antes[p].segredo].prefixo
    /\ \A p, q \in DOMAIN Antes :
          /\ Antes[p].op = "criar" /\ Antes[q].op = "criar"
          /\ Antes[p].cnpj = Antes[q].cnpj
          => p = q

VARIABLES
    empresas,  \* the companies committed: their CNPJ, and who last wrote the CSC
    clientes   \* the API clients committed

cadVars == <<empresas, clientes>>

-----------------------------------------------------------------------------
Com(cnpj) == {e \in DOMAIN empresas : empresas[e].cnpj = cnpj}

(* criar_empresa up to its first SELECT.                                     *)
CriarEmpresa(p, cnpj) ==
    /\ Novo(p)
    /\ Fica(p, [op |-> "criar", cnpj |-> cnpj,
                fase |-> IF Com(cnpj) = {} THEN "lido" ELSE "409"])
    /\ UNCHANGED cadVars

(* Mutant of Inserir: the column is not unique.                              *)
InserirSemIndice(p) ==
    /\ Em(p, "criar", "lido")
    /\ Segue(p, "inserido")
    /\ UNCHANGED cadVars

(* The flush.  The INSERT waits for another of the same CNPJ that is not     *)
(* committed yet, and fails if one is.                                       *)
Inserir(p) ==
    /\ Em(p, "criar", "lido")
    /\ \A q \in Pedidos :
          Em(q, "criar", "inserido") => req[q].cnpj # req[p].cnpj
    /\ Segue(p, IF Com(req[p].cnpj) = {} THEN "inserido" ELSE "500")
    /\ UNCHANGED cadVars

(* The commit of both rows, with the prefix k.                               *)
GravarCadastro(p, k) ==
    /\ Em(p, "criar", "inserido")
    /\ Segue(p, "gravado")
    /\ empresas' = [e \in DOMAIN empresas \union {p} |->
                      IF e = p THEN [cnpj |-> req[p].cnpj, csc |-> p] ELSE empresas[e]]
    /\ clientes' = [c \in DOMAIN clientes \union {p} |->
                      IF c = p THEN [empresa |-> p, prefixo |-> k, ativo |-> TRUE]
                      ELSE clientes[c]]

(* The refresh of the row and the answer, the only one with the secret.      *)
EntregarCredenciais(p) ==
    /\ Em(p, "criar", "gravado")
    /\ Segue(p, "201")
    /\ UNCHANGED cadVars

(* An operator disables a client in the database.                            *)
DesativarCliente(c) ==
    /\ clientes[c].ativo
    /\ clientes' = [clientes EXCEPT ![c].ativo = FALSE]
    /\ UNCHANGED <<empresas, req>>

-----------------------------------------------------------------------------
ComPrefixo(k) == {c \in DOMAIN clientes : clientes[c].prefixo = k}

(* Mutant of ResultadoDoLogin: the first row is taken, of as many as there are.   *)
ResultadoDoLoginPrimeira(s, k) ==
    IF \E c \in ComPrefixo(k) : clientes[c].ativo /\ c = s /\
          c = CHOOSE d \in ComPrefixo(k) : TRUE
    THEN "200" ELSE "401"

(* What login answers to the secret s under the prefix k: the SELECT admits  *)
(* one row, which must be active and have the hash of s.                     *)
ResultadoDoLogin(s, k) ==
    CASE Cardinality(ComPrefixo(k)) > 1 -> "500"
      [] ComPrefixo(k) = {s} /\ clientes[s].ativo -> "200"
      [] OTHER -> "401"

(* login, with the secret that request s answered.                           *)
Login(p, s, k) ==
    /\ Novo(p)
    /\ Em(s, "criar", "201")
    /\ Fica(p, [op |-> "login", segredo |-> s, prefixo |-> k, sub |-> s,
                fase |-> ResultadoDoLogin(s, k)])
    /\ UNCHANGED cadVars

Token(t) == req[t].op \in {"login", "refresh"} /\ req[t].fase = "200"

(* refresh reads nothing but the token.                                      *)
Refresh(p, t) ==
    /\ Novo(p)
    /\ Token(t)
    /\ Fica(p, [op |-> "refresh", segredo |-> req[t].segredo, sub |-> req[t].sub,
                fase |-> "200"])
    /\ UNCHANGED cadVars

(* get_current_client finds an active client.                                *)
Autentica(p, t) ==
    /\ Novo(p)
    /\ Token(t)
    /\ req[t].sub \in DOMAIN clientes
    /\ clientes[req[t].sub].ativo

(* The 401 of any route: the client was disabled or the token has expired.   *)
Recusar(p, t) ==
    /\ Novo(p)
    /\ Token(t)
    /\ Fica(p, [op |-> "recusado", fase |-> "401"])
    /\ UNCHANGED cadVars

(* Mutant of EmpresaDoPedido: the empresa_id of the body is kept.            *)
EmpresaDoCorpo(t, corpo) == corpo

(* The routes put the client's company over the one of the body.             *)
EmpresaDoPedido(t, corpo) == clientes[req[t].sub].empresa

(* atualizar_empresa, after the client is authenticated.                     *)
Atualizar(p, t) ==
    /\ Autentica(p, t)
    /\ Fica(p, [op |-> "atualizar", fase |-> "autenticado", token |-> t,
                empresa |-> clientes[req[t].sub].empresa])
    /\ UNCHANGED cadVars

GravarEmpresa(p) ==
    /\ Em(p, "atualizar", "autenticado")
    /\ empresas' = [empresas EXCEPT ![req[p].empresa].csc = p]
    /\ Segue(p, "200")
    /\ UNCHANGED clientes

-----------------------------------------------------------------------------
CadInit ==
    /\ empresas = [p \in {q \in DOMAIN Antes : Antes[q].op = "criar"} |->
                     [cnpj |-> Antes[p].cnpj, csc |-> p]]
    /\ clientes = [p \in {q \in DOMAIN Antes : Antes[q].op = "criar"} |->
                     [empresa |-> p, prefixo |-> Antes[p].prefixo, ativo |-> TRUE]]

CadNext ==
    \/ \E p \in Pedidos :
          \/ \E cnpj \in Cnpjs : CriarEmpresa(p, cnpj)
          \/ Inserir(p)
          \/ \E k \in Prefixos : GravarCadastro(p, k)
          \/ EntregarCredenciais(p)
          \/ \E s \in Pedidos, k \in Prefixos : Login(p, s, k)
          \/ \E t \in Pedidos : Refresh(p, t) \/ Recusar(p, t) \/ Atualizar(p, t)
          \/ GravarEmpresa(p)
    \/ \E c \in DOMAIN clientes : DesativarCliente(c)

-----------------------------------------------------------------------------
(* A company is inserted once for its CNPJ, however many requests ask for it *)
(* at once (empresa_service.py:56 only looks before), and with its client:   *)
(* the two rows exist together, from the commit on.  A 201 or a 409 says the *)
(* company is there, and a 201 is given once for a CNPJ.                     *)
EmpresaUnica ==
    /\ \A e, f \in DOMAIN empresas : empresas[e].cnpj = empresas[f].cnpj => e = f
    /\ DOMAIN clientes = DOMAIN empresas
    /\ \A c \in DOMAIN clientes : clientes[c].empresa = c
    /\ \A p \in Pedidos :
          /\ req[p].op = "criar" /\ req[p].fase \in {"gravado", "201"} =>
                p \in DOMAIN empresas /\ empresas[p].cnpj = req[p].cnpj
          /\ Em(p, "criar", "409") => Com(req[p].cnpj) # {}

(* Who has the secret of an active client logs in with its prefix, and as    *)
(* that client, unless another client drew the same prefix (four hex digits, *)
(* empresa_service.py:40): then neither does any more, and the answer is a   *)
(* 500.  A 401 to the owner means the client was disabled.                   *)
LoginDoDono ==
    \A p \in Pedidos :
      LET s == req[p].segredo
          doDono == req[p].op = "login" /\ req[p].prefixo = clientes[s].prefixo
          unico == ComPrefixo(req[p].prefixo) = {s}
      IN  /\ req[p].op = "login" /\ req[p].fase = "200" => doDono
          /\ doDono /\ unico /\ clientes[s].ativo => req[p].fase = "200"
          /\ doDono /\ req[p].fase = "500" => ~unico
          /\ doDono /\ req[p].fase = "401" => ~clientes[s].ativo
=============================================================================
