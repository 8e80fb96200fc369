-------------------------------- MODULE Lgpd --------------------------------
(***************************************************************************)
(* The personal data of the recipients (routers/gdpr.py): an emission ends  *)
(* by inserting the note's row with the recipient's document encrypted and  *)
(* its hash, and a company may ask for the data of a document to be erased. *)
(* The erasure reads the rows of the hash, commits them without the data    *)
(* and then commits the record of what it did.                              *)
(* Of the emission only what the rows depend on is here: the document it    *)
(* serialises, the company it is for, and the row.                          *)
(***************************************************************************)
EXTENDS Cadastro, FonteDados

CONSTANTS
    Documentos,  \* the recipients' documents, as the emissions have them
    EmDigitos,   \* those written in digits only, which the erasure accepts
    SemCliente   \* the document of a note without a recipient

ASSUME DocumentosAssumption ==
    EmDigitos \subseteq Documentos /\ SemCliente \notin Documentos

VARIABLES
    notas,         \* the rows of notas_fiscais committed
    solicitacoes   \* the rows of gdpr_solicitacoes committed

lgpdVars == <<notas, solicitacoes>>

-----------------------------------------------------------------------------
(* emitir_nfe or emitir_nfce, up to the swap of the store.  What follows the *)
(* block (FonteDados), until the SEFAZ answers, changes nothing here.        *)
Emitir(p, t, d) ==
    /\ Autentica(p, t)
    /\ \E corpo \in DOMAIN empresas :
          Fica(p, [op |-> "emitir", fase |-> "trocada", token |-> t, doc |-> d,
                   empresa |-> EmpresaDoPedido(t, corpo), anterior |-> modulo,
                   notas |-> <<>>])
    /\ Trocar(p)
    /\ UNCHANGED <<cadVars, lgpdVars>>

(* The row: with the hash and the data, or by _persistir_processando, which  *)
(* writes neither.                                                           *)
GravarNota(p) ==
    /\ Em(p, "emitir", "enviado")
    /\ \E comDado \in BOOLEAN :
          /\ comDado => req[p].doc # SemCliente
          /\ notas' = [n \in DOMAIN notas \union {p} |->
                         IF n = p
                         THEN [empresa |-> req[p].empresa, dado |-> comDado,
                               hash |-> IF comDado THEN req[p].doc ELSE SemCliente]
                         ELSE notas[n]]
    /\ Segue(p, "200")
    /\ UNCHANGED <<cadVars, solicitacoes, fonteVars>>

-----------------------------------------------------------------------------
(* anonimizar_solicitante, up to its SELECT.                                 *)
Anonimizar(p, t, d) ==
    /\ Autentica(p, t)
    /\ Fica(p, [op |-> "anonimizar", token |-> t, doc |-> d,
                empresa |-> clientes[req[t].sub].empresa,
                alvo |-> {}, vistas |-> {},
                fase |-> IF d \in EmDigitos THEN "autenticado" ELSE "400"])
    /\ UNCHANGED <<cadVars, lgpdVars, fonteVars>>

(* The rows of a document, among those of the company.                       *)
NotasDoDocumento(e, d) ==
    {n \in DOMAIN notas : notas[n].empresa = e /\ notas[n].hash = d}

(* The SELECT.  `vistas' is all there is to see (history).                   *)
Selecionar(p) ==
    /\ Em(p, "anonimizar", "autenticado")
    /\ Fica(p, [req[p] EXCEPT !.alvo = NotasDoDocumento(req[p].empresa, req[p].doc),
                              !.vistas = DOMAIN notas, !.fase = "selecionado"])
    /\ UNCHANGED <<cadVars, lgpdVars, fonteVars>>

(* Mutant of ApagarDados: the commit is left to the one of the record, which *)
(* another session makes.                                                    *)
ApagarDadosSemCommit(p) ==
    /\ Em(p, "anonimizar", "selecionado")
    /\ Segue(p, "apagado")
    /\ UNCHANGED <<cadVars, lgpdVars, fonteVars>>

(* The first commit.                                                         *)
ApagarDados(p) ==
    /\ Em(p, "anonimizar", "selecionado")
    /\ notas' = [n \in DOMAIN notas |->
                   [notas[n] EXCEPT !.dado = @ /\ n \notin req[p].alvo]]
    /\ Segue(p, "apagado")
    /\ UNCHANGED <<cadVars, solicitacoes, fonteVars>>

(* The second commit.                                                        *)
RegistrarSolicitacao(p) ==
    /\ Em(p, "anonimizar", "apagado")
    /\ solicitacoes' = [s \in DOMAIN solicitacoes \union {p} |->
                          IF s = p
                          THEN [empresa |-> req[p].empresa, hash |-> req[p].doc,
                                registros |-> Cardinality(req[p].alvo)]
                          ELSE solicitacoes[s]]
    /\ Segue(p, "200")
    /\ UNCHANGED <<cadVars, notas, fonteVars>>

(* status_solicitacao: only to the company that asked.                       *)
ConsultarSolicitacao(p, t, s) ==
    /\ Autentica(p, t)
    /\ LET e == clientes[req[t].sub].empresa IN
       Fica(p, IF s \in DOMAIN solicitacoes /\ solicitacoes[s].empresa = e
               THEN [op |-> "solicitacao", token |-> t, empresa |-> e, fase |-> "200",
                     lida |-> s]
               ELSE [op |-> "solicitacao", token |-> t, empresa |-> e, fase |-> "404"])
    /\ UNCHANGED <<cadVars, lgpdVars, fonteVars>>

LgpdInit == notas = << >> /\ solicitacoes = << >>

LgpdNext(p) ==
    \/ \E t \in Pedidos :
          \/ \E d \in Documentos \union {SemCliente} : Emitir(p, t, d)
          \/ \E d \in Documentos : Anonimizar(p, t, d)
          \/ \E s \in Pedidos : ConsultarSolicitacao(p, t, s)
    \/ GravarNota(p)
    \/ Selecionar(p)
    \/ ApagarDados(p)
    \/ RegistrarSolicitacao(p)

-----------------------------------------------------------------------------
(* A record of gdpr_solicitacoes is the truth, whatever is emitted, erased   *)
(* or interrupted meanwhile (gdpr.py:63 commits the record apart): of the    *)
(* rows there were when its request looked, those of its company with the    *)
(* hash of its document are as many as it says, and none has the data, then  *)
(* or ever again.                                                            *)
AnonimizacaoRegistrada ==
    \A s \in DOMAIN solicitacoes :
      LET alvo == {n \in req[s].vistas : /\ notas[n].empresa = solicitacoes[s].empresa
                                         /\ notas[n].hash = solicitacoes[s].hash}
      IN  /\ solicitacoes[s].registros = Cardinality(alvo)
          /\ \A n \in alvo : ~notas[n].dado

(* What a request reads and writes is of the company whose secret opened the *)
(* chain of tokens it comes with, through any number of refreshes and        *)
(* whatever company its body names: the notes, their erasure and its record, *)
(* and the company's row.                                                    *)
Dono(p) == clientes[req[req[p].token].segredo].empresa

SoDaEmpresa ==
    /\ \A p \in Pedidos :
          "token" \in DOMAIN req[p] =>
            /\ req[p].empresa = Dono(p)
            /\ req[p].op = "anonimizar" =>
                  \A n \in req[p].alvo : notas[n].empresa = Dono(p)
            /\ Em(p, "solicitacao", "200") => Dono(req[p].lida) = Dono(p)
    /\ \A n \in DOMAIN notas : notas[n].empresa = Dono(n)
    /\ \A e \in DOMAIN empresas :
          empresas[e].csc # e => Dono(empresas[e].csc) = e
=============================================================================
