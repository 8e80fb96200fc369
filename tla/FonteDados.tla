----------------------------- MODULE FonteDados -----------------------------
(***************************************************************************)
(* The stores of entities (src/pynfe/entidades/fonte_dados.py): every       *)
(* Entidade appends itself, when it is made, to the one a variable of the   *)
(* module holds, and the serialiser exports the notes of the one it is      *)
(* given.  The process has a store; an emission puts a new one of its own   *)
(* in the variable while its note is converted and serialised, and puts     *)
(* back the one that was there (_fonte_dados_isolada).  No await interrupts *)
(* this block.  The events and the certificates the API makes stay in the   *)
(* store of the process.  A program that uses the library itself makes,     *)
(* removes and exports entities of the same store.  (An event is serialised *)
(* in such a block too, which makes no entity and reads no store.)          *)
(***************************************************************************)
EXTENDS Requisicoes

CONSTANTS
    Classes,  \* the classes of the entities; "NotaFiscal" is one of them
    Processo  \* the store of the process; the others are of the requests

ASSUME ClassesAssumption == "NotaFiscal" \in Classes
ASSUME ProcessoAssumption == Processo \notin Pedidos

Fontes == {Processo} \union Pedidos

VARIABLES
    fonte,  \* fonte[f]: the entities of store f, in the order they were made
    modulo  \* the store that the module's variable _fonte_dados holds

fonteVars == <<fonte, modulo>>

Entidade(p, classe) == [id |-> p, classe |-> classe]

Ids(s) == [i \in DOMAIN s |-> s[i].id]

(* The elements of s in the given places, in their order.                    *)
Filtrada(s, onde) ==
    LET ate[i \in 0..Len(s)] ==
          IF i = 0 THEN <<>>
          ELSE IF i \in onde THEN Append(ate[i - 1], s[i]) ELSE ate[i - 1]
    IN  ate[Len(s)]

DaClasse(s, c) == Filtrada(s, {i \in DOMAIN s : s[i].classe = c})

(* obter_lista(_classe=NotaFiscal), as exportar serialises it.               *)
NotasDa(s) == Ids(DaClasse(s, "NotaFiscal"))

(* Entidade.__init__.                                                        *)
Adicionar(p, classe) ==
    /\ fonte' = [fonte EXCEPT ![modulo] = Append(@, Entidade(p, classe))]
    /\ UNCHANGED modulo

(* An entity made outside the block: a library call, or the event or the     *)
(* certificate of a request of the API.                                      *)
CriarEntidade(p, classe) ==
    /\ Novo(p)
    /\ Adicionar(p, classe)
    /\ Fica(p, [op |-> "entidade", fase |-> "200"])

(* Mutant of Removida: two elements are passed over, not one.                *)
RemovidaPulando(s, classe) == {i \in DOMAIN s : s[i].classe = classe /\ i % 3 = 1}

(* Which elements are removed: the filter is lazy, so that a removal moves   *)
(* the next element into the place the iteration has just left.              *)
Removida(s, classe) ==
    LET sai[i \in 0..Len(s)] ==
          IF i = 0 THEN 0 ELSE IF s[i].classe = classe /\ sai[i - 1] = 0 THEN 1 ELSE 0
    IN  {i \in DOMAIN s : sai[i] = 1}

(* remover_objeto(_classe=classe).                                           *)
RemoverClasse(p, classe) ==
    /\ Novo(p)
    /\ LET s == fonte[Processo] IN
       fonte' = [fonte EXCEPT ![Processo] = Filtrada(s, DOMAIN s \ Removida(s, classe))]
    /\ UNCHANGED modulo
    /\ Fica(p, [op |-> "remover", classe |-> classe, fase |-> "200"])

(* exportar(limpar) of the store of the process: its notes go in one         *)
(* document.  The store is cleared even if one cannot be serialised.         *)
ExportarTudo(p, limpar) ==
    /\ Novo(p)
    /\ fonte' = IF limpar THEN [fonte EXCEPT ![Processo] = <<>>] ELSE fonte
    /\ UNCHANGED modulo
    /\ LET n == NotasDa(fonte[Processo]) IN
       \/ Fica(p, [op |-> "exportar", notas |-> n, fase |-> "200"])
       \/ n # <<>> /\ Fica(p, [op |-> "exportar", fase |-> "500"])

-----------------------------------------------------------------------------
(* The block of an emission: its store is in the variable ("trocada"), then  *)
(* its note is made ("convertida").                                          *)
NoBloco(p) == req[p].op = "emitir" /\ req[p].fase \in {"trocada", "convertida"}

(* Mutant of LacoLivre: something is awaited inside the block.               *)
LacoComAwait == TRUE

(* Only when no request is in its block does the event loop run another.     *)
LacoLivre == \A p \in Pedidos : ~NoBloco(p)

(* The swap, on entering.                                                    *)
Trocar(p) ==
    /\ fonte' = [fonte EXCEPT ![p] = <<>>]
    /\ modulo' = p

(* The finally.  The store of the block is dropped.                          *)
Devolver(p) ==
    /\ fonte' = [fonte EXCEPT ![p] = <<>>]
    /\ modulo' = req[p].anterior

(* The conversion makes the participants, the products and what else the     *)
(* note has; bound: one entity of each other class.                          *)
ConverterParte(p, classe) ==
    /\ NoBloco(p)
    /\ classe # "NotaFiscal"
    /\ \A i \in DOMAIN fonte[modulo] : fonte[modulo][i] # Entidade(p, classe)
    /\ Adicionar(p, classe)
    /\ UNCHANGED req

ConverterNota(p) ==
    /\ Em(p, "emitir", "trocada")
    /\ Adicionar(p, "NotaFiscal")
    /\ Segue(p, "convertida")

(* exportar(limpar=False) of the store the block was given, and the end of   *)
(* the block.                                                                *)
ExportarNota(p) ==
    /\ Em(p, "emitir", "convertida")
    /\ Fica(p, [req[p] EXCEPT !.notas = NotasDa(fonte[p]), !.fase = "enviado"])
    /\ Devolver(p)

(* Mutant of FalharNoBloco: the variable is not put back.                    *)
FalharSemDevolver(p) ==
    /\ NoBloco(p)
    /\ Segue(p, "500")
    /\ UNCHANGED fonteVars

(* The conversion or the serialisation raises.                               *)
FalharNoBloco(p) ==
    /\ NoBloco(p)
    /\ Segue(p, "500")
    /\ Devolver(p)

FonteInit == fonte = [f \in Fontes |-> <<>>] /\ modulo = Processo

FonteNext(p) ==
    \/ \E c \in Classes : CriarEntidade(p, c) \/ RemoverClasse(p, c)
    \/ \E limpar \in BOOLEAN : ExportarTudo(p, limpar)

BlocoNext(p) ==
    \/ \E c \in Classes : ConverterParte(p, c)
    \/ ConverterNota(p)
    \/ ExportarNota(p)
    \/ FalharNoBloco(p)

-----------------------------------------------------------------------------
(* The document an emission sends has its own note and no other, whatever    *)
(* the emissions before it, those that failed midway, other programs and     *)
(* failed exports have left: it is exported from the store of its block, its *)
(* note went to the store the variable held (nfe_service.py:208), and the    *)
(* two are the same only if nothing else ran in between.                     *)
DocumentoProprio ==
    \A p \in Pedidos :
      req[p].op = "emitir" /\ req[p].fase \in {"enviado", "200"} => req[p].notas = <<p>>

(* An emission leaves no trace in the library, even if it fails in the       *)
(* middle of the block (nfe_service.py:82): once it is over the variable     *)
(* holds the store of the process again, which has no entity of an emission, *)
(* and what is made then goes to no store that is dropped.                   *)
BlocoIsolado ==
    /\ \A i \in DOMAIN fonte[Processo] : req[fonte[Processo][i].id].op = "entidade"
    /\ LacoLivre => modulo = Processo /\ \A p \in Pedidos : fonte[p] = <<>>

(* The entities of the other classes.                                        *)
DasOutras(s, c) == Filtrada(s, {i \in DOMAIN s : s[i].classe # c})

(* Two of the class are neighbours.                                          *)
Vizinhas(s, c) ==
    \E i \in 1..(Len(s) - 1) : s[i].classe = c /\ s[i + 1].classe = c

(* Removing a class from the store (fonte_dados.py:97) leaves the others in  *)
(* their order, takes at least one entity of each two of the class that are  *)
(* neighbours, and all of a class that has no two neighbours.                *)
RemocaoDaClasse ==
    [][\A p \in Pedidos :
         req'[p] # req[p] /\ req'[p].op = "remover" =>
           LET c == req'[p].classe
               s == fonte[Processo]
               t == fonte'[Processo]
           IN  /\ DasOutras(t, c) = DasOutras(s, c)
               /\ 2 * Len(DaClasse(t, c)) <= Len(DaClasse(s, c))
               /\ ~Vizinhas(s, c) => DaClasse(t, c) = <<>>
      ]_<<req, fonte>>
=============================================================================
