------------------------------- MODULE Enderecos -------------------------------
(***************************************************************************)
(* Where ComunicacaoSefaz sends each request: _get_url and the methods that *)
(* call it (src/pynfe/processamento/comunicacao.py) over the tables of      *)
(* src/pynfe/utils/webservices.py.  An address is the table, the authority, *)
(* the environment and the service it was made of; `colada' says that it is *)
(* a host put before a value that is already a whole address.               *)
(***************************************************************************)
EXTENDS Naturals

CONSTANT Consultadas   \* the UFs, besides its own, a connection asks a register of

VARIABLES
    con,     \* the connection: its UF, its environment, the last url it computed
    ultimo   \* the last request and where it went

endVars == <<con, ultimo>>

Nenhuma == [feito |-> FALSE]

(* webservices.py: the authorities of each table and the services they have. *)
Comuns == {"AUTORIZACAO", "RECIBO", "CHAVE", "EVENTOS", "STATUS", "INUTILIZACAO"}

NFE(sigla) ==
    CASE sigla \in {"AM", "PE", "BA", "MG", "PR", "RS", "MS", "MT", "GO", "SP", "SVRS"} ->
            Comuns \union {"CADASTRO", "HTTPS", "HOMOLOGACAO"}
      [] sigla = "SVAN" -> Comuns \union {"HTTPS", "HOMOLOGACAO"}
      [] sigla = "MA" -> {"CADASTRO"}
      [] OTHER -> {}

NFCE(sigla) ==
    CASE sigla \in {"MG", "PR", "GO"} -> Comuns \union {"CADASTRO", "HTTPS", "HOMOLOGACAO"}
      [] sigla \in {"AM", "RR", "PA", "AP", "PE", "BA", "ES", "SP", "SC", "RS", "MS",
                    "SVRS"} -> Comuns \union {"HTTPS", "HOMOLOGACAO"}
      [] sigla \in {"RO", "TO", "CE", "PB", "AL", "RJ"} -> Comuns
      [] sigla \in {"AC", "MA", "PI", "RN", "SE", "MT"} -> {"HTTPS", "HOMOLOGACAO"}
      [] OTHER -> {}

Tabela(modelo) == IF modelo = "nfe" THEN "NFE" ELSE "NFCE"

Servicos(tabela, sigla) == IF tabela = "NFE" THEN NFE(sigla) ELSE NFCE(sigla)

(* The registers whose address is written whole.                             *)
Inteiros == {"RS", "SVRS", "MA"}

(* The authorities whose test host is the production host.                   *)
MesmoHost == {<<"NFCE", "PI">>, <<"NFCE", "RN">>}

Ambiente(c) == IF c.homologacao THEN "HOMOLOGACAO" ELSE "HTTPS"

Url(tabela, sigla, ambiente, consulta, colada) ==
    [tabela |-> tabela, sigla |-> sigla, ambiente |-> ambiente, consulta |-> consulta,
     colada |-> colada]

SemUrl == Url("", "", "", "", FALSE)
Erro   == Url("erro", "", "", "", FALSE)

(* NFE[sigla][ambiente] + NFE[sigla][consulta]: a KeyError when the table    *)
(* has no such entry.  The `ambiente' of an address is the one its host is   *)
(* of.                                                                       *)
Montada(tabela, sigla, c, consulta) ==
    IF {Ambiente(c), consulta} \subseteq Servicos(tabela, sigla)
    THEN Url(tabela, sigla,
             IF <<tabela, sigla>> \in MesmoHost THEN "HTTPS" ELSE Ambiente(c), consulta,
             consulta = "CADASTRO" /\ tabela = "NFE" /\ sigla \in Inteiros)
    ELSE Erro

-----------------------------------------------------------------------------
(* _get_url: the authority that answers for a UF.                            *)
ContingenciaSvrs == {"AM", "BA", "CE", "GO", "MA", "MS", "MT", "PE", "PR"}

ContingenciaSvan ==
    {"AC", "AL", "AP", "DF", "ES", "MG", "PA", "PB", "PI", "RJ", "RN", "RO", "RR", "RS", "SC",
     "SE", "SP", "TO"}

Proprias == {"PR", "MS", "SP", "AM", "CE", "BA", "GO", "MG", "MT", "PE", "RS"}

ListaSvrs ==
    {"AC", "AL", "AP", "DF", "ES", "PB", "PI", "RJ", "RN", "RO", "RR", "SC", "SE", "TO", "PA"}

UFs == ContingenciaSvrs \union ContingenciaSvan

(* Mutant of EmContingencia: the national one stands in for the NFC-e too.   *)
EmContingenciaSvan(c, modelo, consulta) ==
    CASE c.uf \in ContingenciaSvrs -> Montada(Tabela(modelo), "SVRS", c, consulta)
      [] c.uf \in ContingenciaSvan -> Montada(Tabela(modelo), "SVAN", c, consulta)
      [] OTHER -> c.url

(* Mutant of EmContingencia: every UF has the same substitute.               *)
EmContingenciaSvrs(c, modelo, consulta) ==
    IF c.uf \in UFs THEN Montada(Tabela(modelo), "SVRS", c, consulta) ELSE c.url

EmContingencia(c, modelo, consulta) ==
    CASE c.uf \in ContingenciaSvrs -> Montada(Tabela(modelo), "SVRS", c, consulta)
      [] c.uf \in ContingenciaSvan ->
            Montada(Tabela(modelo), IF modelo = "nfe" THEN "SVAN" ELSE "SVRS", c, consulta)
      [] OTHER -> c.url

Normal(c, modelo, consulta) ==
    CASE c.uf \in Proprias ->
            LET svrs == IF modelo = "nfe" THEN {"CE"} ELSE {"PE", "BA"} IN
            Montada(Tabela(modelo), IF c.uf \in svrs THEN "SVRS" ELSE c.uf, c, consulta)
      [] c.uf \in ListaSvrs -> Montada(Tabela(modelo), "SVRS", c, consulta)
      [] c.uf = "MA" ->
            Montada(Tabela(modelo), IF modelo = "nfe" THEN "SVAN" ELSE "SVRS", c, consulta)
      [] OTHER -> Erro

GetUrl(c, modelo, consulta, contingencia) ==
    IF contingencia THEN EmContingencia(c, modelo, consulta) ELSE Normal(c, modelo, consulta)

(* Mutant of GetUrlAn: one environment.                                      *)
GetUrlAnProducao(c, consulta) == Url("NFE", "AN", "HTTPS", consulta, FALSE)

(* _get_url_an: the national authority.                                      *)
GetUrlAn(c, consulta) == Url("NFE", "AN", Ambiente(c), consulta, FALSE)

(* consulta_cadastro: the register of `uf'.  SVC-RS has a table of its own,  *)
(* without a register; the last case is resolved for the UF of the           *)
(* connection.                                                               *)
CadastroSvrs ==
    {"AC", "AL", "AP", "CE", "DF", "ES", "PA", "PB", "PI", "RJ", "RN", "RO", "RR", "SC", "SE",
     "TO"}

(* Mutant of CadastroDireto: PA is not in the list.                          *)
CadastroDiretoSemPa(uf) == uf \in {"RS"} \union (CadastroSvrs \ {"PA"})

CadastroDireto(uf) == uf \in {"RS"} \union CadastroSvrs

GetUrlCadastro(c, modelo, uf) ==
    CASE CadastroDireto(uf) ->
            Url("NFE", IF uf = "RS" THEN "RS" ELSE "SVRS", "", "CADASTRO", FALSE)
      [] uf = "SVC-RS" -> Erro
      [] OTHER -> Normal(c, modelo, "CADASTRO")

-----------------------------------------------------------------------------
EndInit == con = [aberta |-> FALSE] /\ ultimo = Nenhuma

(* ComunicacaoSefaz(uf, ..., homologacao).                                   *)
Conectar(uf, homologacao) ==
    /\ ~con.aberta
    /\ con' = [aberta |-> TRUE, uf |-> uf, homologacao |-> homologacao, url |-> SemUrl]
    /\ UNCHANGED ultimo

(* A request goes to `destino'; self.url keeps it, unless it was an error or *)
(* an address taken from the table without it.                               *)
Pedir(consulta, modelo, contingencia, uf, destino, guarda) ==
    /\ con.aberta
    /\ ultimo' = [feito |-> TRUE, consulta |-> consulta, modelo |-> modelo,
                  contingencia |-> contingencia, uf |-> uf, destino |-> destino]
    /\ con' = [con EXCEPT !.url = IF guarda /\ destino # Erro THEN destino ELSE @]

(* autorizacao, consulta_recibo and consulta_nota.                           *)
PedirNota(consulta, modelo, contingencia) ==
    Pedir(consulta, modelo, contingencia, con.uf,
          GetUrl(con, modelo, consulta, contingencia), TRUE)

(* evento: the ones of the recipient, type 2xxxxx, go to the national one.   *)
PedirEvento(modelo, manifestacao) ==
    Pedir("EVENTOS", modelo, FALSE, IF manifestacao THEN "AN" ELSE con.uf,
          IF manifestacao THEN GetUrlAn(con, "EVENTOS") ELSE GetUrl(con, modelo, "EVENTOS", FALSE),
          TRUE)

(* status_servico and inutilizacao.                                          *)
PedirServico(consulta, modelo) ==
    Pedir(consulta, modelo, FALSE, con.uf, GetUrl(con, modelo, consulta, FALSE), TRUE)

PedirDistribuicao ==
    Pedir("DISTRIBUICAO", "nfe", FALSE, "AN", GetUrlAn(con, "DISTRIBUICAO"), TRUE)

PedirCadastro(modelo, uf) ==
    Pedir("CADASTRO", modelo, FALSE, uf, GetUrlCadastro(con, modelo, uf), ~CadastroDireto(uf))

(* consulta_gtin: one address for every UF and environment.                  *)
PedirGtin ==
    Pedir("GTIN", "nfe", FALSE, con.uf, Url("NFE", "SP", "", "GTIN", FALSE), FALSE)

Pedidos(modelo) ==
    \/ \E q \in {"AUTORIZACAO", "RECIBO", "CHAVE"}, k \in BOOLEAN : PedirNota(q, modelo, k)
    \/ \E m \in BOOLEAN : PedirEvento(modelo, m)
    \/ \E q \in {"STATUS", "INUTILIZACAO"} : PedirServico(q, modelo)
    \/ PedirDistribuicao
    \/ \E uf \in Consultadas \union {con.uf} : PedirCadastro(modelo, uf)
    \/ PedirGtin

-----------------------------------------------------------------------------
(* A request of a note goes to an address of the service it asks for; it has *)
(* none only for an NFC-e of CE and MT outside the contingency, whose tables *)
(* lack the entries.  For a UF in neither list of the contingency the        *)
(* address is the one the connection last computed, whatever it was for.     *)
EnderecoDoPedido ==
    (ultimo.feito /\ ultimo.consulta \in Comuns /\ ultimo.uf # "AN") =>
      CASE ultimo.uf \notin UFs -> ultimo.contingencia \/ ultimo.destino = Erro
        [] ultimo.modelo = "nfce" /\ ultimo.uf \in {"CE", "MT"} /\ ~ultimo.contingencia ->
              ultimo.destino = Erro
        [] OTHER -> /\ ultimo.destino.consulta = ultimo.consulta
                    /\ ultimo.destino.tabela = Tabela(ultimo.modelo)
                    /\ ultimo.destino.sigla \in {ultimo.uf, "SVRS", "SVAN"}

(* The contingency is another authority than the one it stands in for,       *)
(* except where both are SVRS: the NF-e of CE, and the NFC-e of every UF     *)
(* without a service of its own, that goes on to the authority that is down. *)
ContingenciaEmOutraAutoridade ==
    (ultimo.feito /\ ultimo.contingencia /\ ultimo.uf \in UFs) =>
      LET mesma == Normal(con, ultimo.modelo, ultimo.consulta).sigla = ultimo.destino.sigla IN
      mesma <=> \/ ultimo.modelo = "nfe" /\ ultimo.uf = "CE"
                \/ ultimo.modelo = "nfce" /\ (ultimo.uf \in {"PE", "BA"} \/ ultimo.uf \notin Proprias)

(* A taxpayer is looked up in the register of the UF asked for when that UF  *)
(* uses SVRS or is RS; otherwise in the one of the connection's own UF,      *)
(* which is the UF asked for only if the caller asks about its own.          *)
CadastroDaUf ==
    (ultimo.feito /\ ultimo.consulta = "CADASTRO" /\ ultimo.modelo = "nfe") =>
      LET de == ultimo.destino IN
      (de # Erro /\ ~de.colada /\ de.sigla \in {ultimo.uf, "SVRS"})
        <=> \/ ultimo.uf \in ListaSvrs \union {"CE", "RS"}
            \/ ultimo.uf = con.uf /\ ultimo.uf \in Proprias

(* A connection to the test environment reaches no production host, but for  *)
(* the registers of RS and SVRS and for the GTIN, that have one address: not *)
(* even for the UFs whose hosts of the NFC-e are one, that SVRS serves.      *)
HomologacaoIsolada ==
    (ultimo.feito /\ con.homologacao /\ ultimo.destino \notin {Erro, SemUrl}) =>
      \/ ultimo.destino.ambiente = "HOMOLOGACAO"
      \/ ultimo.consulta \in {"CADASTRO", "GTIN"} /\ ultimo.destino.sigla \in {"RS", "SVRS", "SP"}
=============================================================================
