------------------------------- MODULE Notas -------------------------------
(***************************************************************************)
(* What the three users of a fiscal note share: its row in the table        *)
(* notas_fiscais, the row lock that SELECT ... FOR UPDATE takes on it, and  *)
(* SEFAZ's own record of the note.  Emissao writes the row, Poller decides  *)
(* rows left in PROCESSANDO, Eventos cancels and corrects; Sistema puts the *)
(* three together.                                                          *)
(*                                                                          *)
(* The database is READ COMMITTED: a transaction's writes become visible at *)
(* its commit, an UPDATE waits for a row lock held by another transaction,  *)
(* and the last writer of a column wins.                                    *)
(***************************************************************************)
EXTENDS Naturals, FiniteSets

CONSTANTS
    Notas,      \* the access keys (chave_acesso) in play
    Pollers,    \* concurrent executions of the cron's poller
    Livre,      \* "no poller": the value of a free row lock
    Desfechos,  \* the final cStats SEFAZ may give in this instance
    MaxSeq      \* bound: highest nSeqEvento a correction letter may reach

(* cStat of protNFe/infProt: 100 and 150 (authorised out of time) authorise  *)
(* the note, 110 denies it, "5xx" stands for every rejection.                *)
CStatAutoriza == {"100", "150"}
CStatFinal    == CStatAutoriza \union {"110", "5xx"}

ASSUME DesfechosAssumption == Desfechos \subseteq CStatFinal
ASSUME LivreAssumption     == Livre \notin Pollers
ASSUME MaxSeqAssumption    == MaxSeq \in Nat \ {0}

VARIABLES
    linha,      \* linha[n]: the committed row of note n
    trava,      \* trava[n]: the poller whose transaction locks the row, or Livre
    sefaz       \* sefaz[n]: SEFAZ's record of note n

notasVars == <<linha, trava, sefaz>>

-----------------------------------------------------------------------------
Finais == {"AUTORIZADA", "REJEITADA", "DENEGADA"}
Status == {"AUSENTE", "PROCESSANDO", "CANCELADA"} \union Finais

(* tpEvento: 110111 cancellation, 110110 correction letter, 110112 operation *)
(* not carried out.                                                          *)
TpEvento == {"110111", "110110", "110112"}
Evento   == [tp : TpEvento, seq : 1..MaxSeq]

Linha == [status : Status, recibo : BOOLEAN, protocolo : BOOLEAN,
          eventos : SUBSET Evento]

(* What SEFAZ knows: "nada" before a batch arrives, "105" while the batch is *)
(* being processed, then the note's final cStat; and the events registered.  *)
Registro == [cstat : {"nada", "105"} \union CStatFinal, eventos : SUBSET Evento]

LinhaAusente == [status |-> "AUSENTE", recibo |-> FALSE, protocolo |-> FALSE,
                 eventos |-> {}]

NotasTypeOK ==
    /\ linha \in [Notas -> Linha]
    /\ trava \in [Notas -> Pollers \union {Livre}]
    /\ sefaz \in [Notas -> Registro]

Autorizada(n)  == sefaz[n].cstat \in CStatAutoriza
Cancelamento   == [tp |-> "110111", seq |-> 1]
CanceladaNaSefaz(n) == Cancelamento \in sefaz[n].eventos

-----------------------------------------------------------------------------
(* SEFAZ finishes a batch it had accepted.                                   *)
SefazProcessa(n) ==
    /\ sefaz[n].cstat = "105"
    /\ \E c \in Desfechos : sefaz' = [sefaz EXCEPT ![n].cstat = c]
    /\ UNCHANGED <<linha, trava>>

=============================================================================
