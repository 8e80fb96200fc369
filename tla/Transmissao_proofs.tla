-------------------------- MODULE Transmissao_proofs --------------------------
(***************************************************************************)
(* Where the requests of a note go, for any note, any connection and any    *)
(* sequence of requests: the four properties of Enderecos, as invariants of *)
(* Transmissao.  The key of its documents, for any note and any sequence of *)
(* exports: the two of Conferencia.  And the amounts of its documents, for  *)
(* any items: ValorDaNota and TotaisDosItens of Conferencia.                *)
(***************************************************************************)
EXTENDS Transmissao, SequenceTheorems, WellFoundedInduction, TLAPS

Modelos == {"nfe", "nfce"}

(* What a connection is, and that no request came before it.  The address it *)
(* keeps is of its own environment.                                          *)
Conexao ==
    \/ con = [aberta |-> FALSE] /\ ultimo = Nenhuma
    \/ /\ \E uf, url : \E h \in BOOLEAN :
             con = [aberta |-> TRUE, uf |-> uf, homologacao |-> h, url |-> url]
       /\ con.url = SemUrl \/ con.url.ambiente = Ambiente(con)
       /\ ultimo = Nenhuma \/ ultimo.feito

-----------------------------------------------------------------------------
(* An address made of a table is of the service and the environment asked    *)
(* for: the UFs that have one host for both are of the NFC-e.                *)
LEMMA DaMontada ==
  ASSUME NEW tabela, NEW sigla, NEW c, NEW consulta,
         Montada(tabela, sigla, c, consulta) # Erro
  PROVE  LET d == Montada(tabela, sigla, c, consulta) IN
         /\ d.tabela = tabela
         /\ d.sigla = sigla
         /\ sigla \notin {"PI", "RN"} => d.ambiente = Ambiente(c)
         /\ d.consulta = consulta
         /\ d.colada <=> consulta = "CADASTRO" /\ tabela = "NFE" /\ sigla \in Inteiros
  BY DEF Montada, Url, MesmoHost

(* A common service of an authority of the NF-e, or of the NFC-e, has its    *)
(* address in either environment.                                            *)
LEMMA ComunsDaNfe ==
  ASSUME NEW c, NEW consulta \in Comuns,
         NEW sigla \in {"AM", "PE", "BA", "MG", "PR", "RS", "MS", "MT", "GO", "SP", "SVRS", "SVAN"}
  PROVE  Montada("NFE", sigla, c, consulta) # Erro
  <1>1. Comuns \subseteq NFE(sigla) /\ {"HTTPS", "HOMOLOGACAO"} \subseteq NFE(sigla)
    BY DEF NFE
  <1>2. {Ambiente(c), consulta} \subseteq Servicos("NFE", sigla)
    BY <1>1 DEF Servicos, Ambiente
  <1> QED
    BY <1>2 DEF Montada, Url, Erro

LEMMA ComunsDaNfce ==
  ASSUME NEW c, NEW consulta \in Comuns,
         NEW sigla \in {"MG", "PR", "GO", "AM", "RR", "PA", "AP", "PE", "BA", "ES", "SP", "SC",
                        "RS", "MS", "SVRS"}
  PROVE  Montada("NFCE", sigla, c, consulta) # Erro
  <1>1. Comuns \subseteq NFCE(sigla) /\ {"HTTPS", "HOMOLOGACAO"} \subseteq NFCE(sigla)
    BY DEF NFCE
  <1>2. {Ambiente(c), consulta} \subseteq Servicos("NFCE", sigla)
    BY <1>1 DEF Servicos, Ambiente
  <1> QED
    BY <1>2 DEF Montada, Url, Erro

(* The authorities of a UF, in normal operation and in the contingency.      *)
LEMMA NormalDe ==
  ASSUME NEW c, NEW modelo \in Modelos, NEW consulta, Normal(c, modelo, consulta) # Erro
  PROVE  LET d == Normal(c, modelo, consulta) IN
         /\ d.tabela = Tabela(modelo)
         /\ d.sigla \in {c.uf, "SVRS", "SVAN"}
         /\ d.ambiente = Ambiente(c)
         /\ d.consulta = consulta
  <1>1. CASE c.uf \in Proprias
    BY <1>1, DaMontada DEF Normal, Proprias
  <1>2. CASE c.uf \in ListaSvrs
    BY <1>2, DaMontada DEF Normal, Proprias, ListaSvrs
  <1>3. CASE c.uf = "MA"
    BY <1>3, DaMontada DEF Normal, Proprias, ListaSvrs
  <1>4. CASE c.uf \notin Proprias \union ListaSvrs \union {"MA"}
    BY <1>4 DEF Normal
  <1> QED
    BY <1>1, <1>2, <1>3, <1>4

LEMMA ContingenciaDe ==
  ASSUME NEW c, NEW modelo \in Modelos, NEW consulta, c.uf \in UFs,
         EmContingencia(c, modelo, consulta) # Erro
  PROVE  LET d == EmContingencia(c, modelo, consulta) IN
         /\ d.tabela = Tabela(modelo)
         /\ d.sigla \in {"SVRS", "SVAN"}
         /\ d.ambiente = Ambiente(c)
         /\ d.consulta = consulta
  <1>1. CASE c.uf \in ContingenciaSvrs
    BY <1>1, DaMontada DEF EmContingencia
  <1>2. CASE c.uf \in ContingenciaSvan
    BY <1>2, DaMontada DEF EmContingencia, ContingenciaSvan, ContingenciaSvrs
  <1> QED
    BY <1>1, <1>2 DEF UFs

LEMMA SemContingencia ==
  ASSUME NEW c, NEW modelo, NEW consulta, c.uf \notin UFs
  PROVE  EmContingencia(c, modelo, consulta) = c.url /\ Normal(c, modelo, consulta) = Erro
  BY DEF EmContingencia, Normal, UFs, ContingenciaSvan, ContingenciaSvrs, Proprias, ListaSvrs

-----------------------------------------------------------------------------
(* What a request changes of the connection: the address, at most.           *)
LEMMA PedirMuda ==
  ASSUME Conexao, NEW consulta, NEW modelo, NEW contingencia, NEW uf, NEW destino,
         NEW guarda \in BOOLEAN,
         Pedir(consulta, modelo, contingencia, uf, destino, guarda)
  PROVE  /\ con.aberta /\ con'.aberta
         /\ con'.uf = con.uf /\ con'.homologacao = con.homologacao
         /\ con'.url = IF guarda /\ destino # Erro THEN destino ELSE con.url
         /\ con' = [aberta |-> TRUE, uf |-> con.uf, homologacao |-> con.homologacao,
                     url |-> con'.url]
         /\ ultimo' = [feito |-> TRUE, consulta |-> consulta, modelo |-> modelo,
                       contingencia |-> contingencia, uf |-> uf, destino |-> destino]
  <1>1. con.aberta
    BY DEF Pedir
  <1>2. PICK u, url : \E b \in BOOLEAN :
           con = [aberta |-> TRUE, uf |-> u, homologacao |-> b, url |-> url]
    BY <1>1 DEF Conexao
  <1>5. PICK h \in BOOLEAN :
           con = [aberta |-> TRUE, uf |-> u, homologacao |-> h, url |-> url]
    BY <1>2
  <1>3. con' = [con EXCEPT !.url = IF guarda /\ destino # Erro THEN destino ELSE @]
    BY DEF Pedir
  <1>4. con' = [aberta |-> TRUE, uf |-> u, homologacao |-> h,
                url |-> IF guarda /\ destino # Erro THEN destino ELSE url]
    BY <1>5, <1>3
  <1> QED
    BY <1>1, <1>5, <1>4 DEF Pedir

LEMMA PedirConserva ==
  ASSUME Conexao, NEW consulta, NEW modelo, NEW contingencia, NEW uf, NEW destino,
         NEW guarda \in BOOLEAN,
         Pedir(consulta, modelo, contingencia, uf, destino, guarda),
         guarda => destino = Erro \/ destino.ambiente = Ambiente(con) \/ destino = con.url
  PROVE  Conexao'
  BY PedirMuda DEF Conexao, Ambiente

(* One step: a request, a connection, or nothing that these properties read. *)
LEMMA TransMuda ==
  ASSUME [TransNext]_<<docVars, endVars>>
  PROVE  \/ UNCHANGED endVars
         \/ \E uf : \E h \in BOOLEAN : Conectar(uf, h)
         \/ con.aberta /\ Pedidos(Modelo) /\ Modelo \in Modelos
  BY DEF TransNext, Modelo, Modelos

LEMMA PedidosConserva ==
  ASSUME Conexao, NEW modelo \in Modelos, Pedidos(modelo)
  PROVE  Conexao'
  <1>1. ASSUME NEW consulta, NEW k \in BOOLEAN
        PROVE  LET d == GetUrl(con, modelo, consulta, k) IN
               d = Erro \/ d.ambiente = Ambiente(con) \/ d = con.url
    BY NormalDe, ContingenciaDe, SemContingencia DEF GetUrl
  <1>2. ASSUME NEW consulta
        PROVE  GetUrlAn(con, consulta).ambiente = Ambiente(con)
    BY DEF GetUrlAn, Url
  <1>3. CASE \E q \in {"AUTORIZACAO", "RECIBO", "CHAVE"}, k \in BOOLEAN : PedirNota(q, modelo, k)
    BY <1>1, <1>3, PedirConserva DEF PedirNota
  <1>4. CASE \E m \in BOOLEAN : PedirEvento(modelo, m)
    BY <1>1, <1>2, <1>4, PedirConserva DEF PedirEvento
  <1>5. CASE \E q \in {"STATUS", "INUTILIZACAO"} : PedirServico(q, modelo)
    BY <1>1, <1>5, PedirConserva DEF PedirServico
  <1>6. CASE PedirDistribuicao
    BY <1>2, <1>6, PedirConserva DEF PedirDistribuicao
  <1>7. CASE \E uf \in Consultadas \union {con.uf} : PedirCadastro(modelo, uf)
    <2> PICK uf : PedirCadastro(modelo, uf)
      BY <1>7
    <2>1. ~CadastroDireto(uf) =>
            \/ GetUrlCadastro(con, modelo, uf) = Normal(con, modelo, "CADASTRO")
            \/ GetUrlCadastro(con, modelo, uf) = Erro
      BY DEF GetUrlCadastro
    <2> QED
      BY <2>1, NormalDe, PedirConserva DEF PedirCadastro, CadastroDireto
  <1>8. CASE PedirGtin
    BY <1>8, PedirConserva DEF PedirGtin
  <1> QED
    BY <1>3, <1>4, <1>5, <1>6, <1>7, <1>8 DEF Pedidos

-----------------------------------------------------------------------------
(* The last request, by the method that made it, and its address as the      *)
(* method resolves it for this connection; `antes' is the address the        *)
(* connection had.                                                           *)
Pediu(consulta, contingencia, uf, destino) ==
    /\ ultimo.feito
    /\ ultimo.modelo \in Modelos
    /\ ultimo.consulta = consulta
    /\ ultimo.contingencia = contingencia
    /\ ultimo.uf = uf
    /\ ultimo.destino = destino

PeloMetodo ==
    \/ \E q \in Comuns, k \in BOOLEAN :
          /\ Pediu(q, k, con.uf, ultimo.destino)
          /\ ~k \/ con.uf \in UFs => ultimo.destino = GetUrl(con, ultimo.modelo, q, k)
          /\ ultimo.destino \notin {Erro, SemUrl} => ultimo.destino.ambiente = Ambiente(con)
    \/ \E q \in {"EVENTOS", "DISTRIBUICAO"} : Pediu(q, FALSE, "AN", GetUrlAn(con, q))
    \/ \E uf : Pediu("CADASTRO", FALSE, uf, GetUrlCadastro(con, ultimo.modelo, uf))
    \/ Pediu("GTIN", FALSE, con.uf, Url("NFE", "SP", "", "GTIN", FALSE))

(* The address does not depend on the one the connection had, but in the     *)
(* contingency of a UF of neither list.                                      *)
LEMMA SemAntes ==
  ASSUME NEW c, NEW d, c.uf = d.uf, c.homologacao = d.homologacao,
         NEW modelo, NEW consulta
  PROVE  /\ Ambiente(c) = Ambiente(d)
         /\ GetUrlAn(c, consulta) = GetUrlAn(d, consulta)
         /\ \A k \in BOOLEAN :
               ~k \/ c.uf \in UFs => GetUrl(c, modelo, consulta, k) = GetUrl(d, modelo, consulta, k)
         /\ \A uf : GetUrlCadastro(c, modelo, uf) = GetUrlCadastro(d, modelo, uf)
  <1>1. Ambiente(c) = Ambiente(d)
    BY DEF Ambiente
  <1>2. \A tabela, sigla, q : Montada(tabela, sigla, c, q) = Montada(tabela, sigla, d, q)
    BY <1>1 DEF Montada
  <1>3. \A q : Normal(c, modelo, q) = Normal(d, modelo, q)
    BY <1>2 DEF Normal
  <1>4. c.uf \in UFs => EmContingencia(c, modelo, consulta) = EmContingencia(d, modelo, consulta)
    BY <1>2 DEF EmContingencia, UFs
  <1> QED
    BY <1>1, <1>3, <1>4 DEF GetUrl, GetUrlAn, GetUrlCadastro

LEMMA PedidosPeloMetodo ==
  ASSUME Conexao, NEW modelo \in Modelos, Pedidos(modelo)
  PROVE  PeloMetodo'
  <1>1. ASSUME NEW q \in Comuns, NEW k \in BOOLEAN,
               Pedir(q, modelo, k, con.uf, GetUrl(con, modelo, q, k), TRUE)
        PROVE  PeloMetodo'
    <2>1. /\ con'.uf = con.uf /\ con'.homologacao = con.homologacao
          /\ ultimo' = [feito |-> TRUE, consulta |-> q, modelo |-> modelo, contingencia |-> k,
                        uf |-> con.uf, destino |-> GetUrl(con, modelo, q, k)]
      BY <1>1, PedirMuda
    <2>2. con.aberta
      BY <1>1 DEF Pedir
    <2>3. GetUrl(con, modelo, q, k) \notin {Erro, SemUrl} =>
             GetUrl(con, modelo, q, k).ambiente = Ambiente(con)
      BY <2>2, NormalDe, ContingenciaDe, SemContingencia DEF GetUrl, Conexao
    <2>4. Pediu(q, k, con.uf, ultimo.destino)'
      BY <2>1 DEF Pediu
    <2>5. (~k \/ con.uf \in UFs => ultimo.destino = GetUrl(con, ultimo.modelo, q, k))'
      BY <2>1, SemAntes
    <2>6. (ultimo.destino \notin {Erro, SemUrl} => ultimo.destino.ambiente = Ambiente(con))'
      BY <2>1, <2>3 DEF Ambiente
    <2> QED
      BY <2>4, <2>5, <2>6 DEF PeloMetodo
  <1>2. ASSUME NEW q \in {"EVENTOS", "DISTRIBUICAO"}, NEW m \in Modelos,
               Pedir(q, m, FALSE, "AN", GetUrlAn(con, q), TRUE)
        PROVE  PeloMetodo'
    <2>1. /\ con'.uf = con.uf /\ con'.homologacao = con.homologacao
          /\ ultimo' = [feito |-> TRUE, consulta |-> q, modelo |-> m, contingencia |-> FALSE,
                        uf |-> "AN", destino |-> GetUrlAn(con, q)]
      BY <1>2, PedirMuda
    <2>2. Pediu(q, FALSE, "AN", GetUrlAn(con, q))'
      BY <2>1, SemAntes DEF Pediu
    <2> QED
      BY <2>2 DEF PeloMetodo
  <1>3. CASE \E q \in {"AUTORIZACAO", "RECIBO", "CHAVE"}, k \in BOOLEAN : PedirNota(q, modelo, k)
    BY <1>1, <1>3 DEF PedirNota, Comuns
  <1>4. CASE \E m \in BOOLEAN : PedirEvento(modelo, m)
    BY <1>1, <1>2, <1>4 DEF PedirEvento, Comuns
  <1>5. CASE \E q \in {"STATUS", "INUTILIZACAO"} : PedirServico(q, modelo)
    BY <1>1, <1>5 DEF PedirServico, Comuns
  <1>6. CASE PedirDistribuicao
    BY <1>2, <1>6 DEF PedirDistribuicao, Modelos
  <1>7. CASE \E uf \in Consultadas \union {con.uf} : PedirCadastro(modelo, uf)
    <2> PICK uf : PedirCadastro(modelo, uf)
      BY <1>7
    <2>1. /\ con'.uf = con.uf /\ con'.homologacao = con.homologacao
          /\ ultimo' = [feito |-> TRUE, consulta |-> "CADASTRO", modelo |-> modelo,
                        contingencia |-> FALSE, uf |-> uf,
                        destino |-> GetUrlCadastro(con, modelo, uf)]
      BY PedirMuda DEF PedirCadastro, CadastroDireto
    <2>2. Pediu("CADASTRO", FALSE, uf, GetUrlCadastro(con, ultimo.modelo, uf))'
      BY <2>1, SemAntes DEF Pediu
    <2> QED
      BY <2>2 DEF PeloMetodo
  <1>8. CASE PedirGtin
    <2>1. /\ con'.uf = con.uf /\ con'.homologacao = con.homologacao
          /\ ultimo' = [feito |-> TRUE, consulta |-> "GTIN", modelo |-> "nfe",
                        contingencia |-> FALSE, uf |-> con.uf,
                        destino |-> Url("NFE", "SP", "", "GTIN", FALSE)]
      BY <1>8, PedirMuda DEF PedirGtin
    <2>2. Pediu("GTIN", FALSE, con.uf, Url("NFE", "SP", "", "GTIN", FALSE))'
      BY <2>1 DEF Pediu, Modelos
    <2> QED
      BY <2>2 DEF PeloMetodo
  <1> QED
    BY <1>3, <1>4, <1>5, <1>6, <1>7, <1>8 DEF Pedidos

EnderecosIInv == Conexao /\ (ultimo = Nenhuma \/ PeloMetodo)

LEMMA EnderecosPasso ==
  ASSUME EnderecosIInv, [TransNext]_<<docVars, endVars>>
  PROVE  EnderecosIInv'
  <1>1. CASE UNCHANGED endVars
    <2>1. Conexao'
      BY <1>1 DEF EnderecosIInv, Conexao, endVars, Ambiente
    <2>2. PeloMetodo => PeloMetodo'
      BY <1>1 DEF PeloMetodo, Pediu, endVars
    <2> QED
      BY <1>1, <2>1, <2>2 DEF EnderecosIInv, endVars
  <1>2. CASE \E uf : \E h \in BOOLEAN : Conectar(uf, h)
    <2> PICK uf, h : h \in BOOLEAN /\ Conectar(uf, h)
      BY <1>2
    <2>1. con' = [aberta |-> TRUE, uf |-> uf, homologacao |-> h, url |-> SemUrl]
      BY DEF Conectar
    <2>2. ultimo' = Nenhuma
      BY DEF EnderecosIInv, Conexao, Conectar
    <2> QED
      BY <2>1, <2>2 DEF EnderecosIInv, Conexao
  <1>3. CASE con.aberta /\ Pedidos(Modelo) /\ Modelo \in Modelos
    BY <1>3, PedidosConserva, PedidosPeloMetodo DEF EnderecosIInv
  <1> QED
    BY <1>1, <1>2, <1>3, TransMuda

LEMMA EnderecosInv == TransSpec => []EnderecosIInv
  <1>1. TransInit => EnderecosIInv
    BY DEF TransInit, EndInit, Conexao, EnderecosIInv
  <1>2. EnderecosIInv /\ [TransNext]_<<docVars, endVars>> => EnderecosIInv'
    BY EnderecosPasso
  <1> QED
    BY <1>1, <1>2, PTL DEF TransSpec

(* The one request of a note or of a service that is neither national, nor   *)
(* a register, nor the GTIN.                                                 *)
LEMMA PedidoComum ==
  ASSUME PeloMetodo, ultimo.consulta \in Comuns, ultimo.uf # "AN"
  PROVE  /\ ultimo.uf = con.uf /\ ultimo.modelo \in Modelos /\ ultimo.contingencia \in BOOLEAN
         /\ ~ultimo.contingencia \/ con.uf \in UFs =>
               ultimo.destino = GetUrl(con, ultimo.modelo, ultimo.consulta, ultimo.contingencia)
  BY DEF PeloMetodo, Pediu, Comuns

-----------------------------------------------------------------------------
(* EnderecoDoPedido: a common service has an address wherever _get_url finds *)
(* an authority, but for CE and MT in the NFC-e.                             *)
LEMMA EnderecoComum ==
  ASSUME NEW c, c.uf \in UFs, NEW modelo \in Modelos, NEW consulta \in Comuns, NEW k \in BOOLEAN
  PROVE  LET d == GetUrl(c, modelo, consulta, k) IN
         IF modelo = "nfce" /\ c.uf \in {"CE", "MT"} /\ ~k
         THEN d = Erro
         ELSE /\ d.consulta = consulta /\ d.tabela = Tabela(modelo)
              /\ d.sigla \in {c.uf, "SVRS", "SVAN"}
  <1>1. CASE k
    <2>1. EmContingencia(c, modelo, consulta) # Erro
      <3>1. CASE c.uf \in ContingenciaSvrs
        BY <3>1, ComunsDaNfe, ComunsDaNfce DEF EmContingencia, Tabela, Modelos
      <3>2. CASE c.uf \in ContingenciaSvan
        BY <3>2, ComunsDaNfe, ComunsDaNfce
           DEF EmContingencia, Tabela, Modelos, ContingenciaSvan, ContingenciaSvrs
      <3> QED
        BY <3>1, <3>2 DEF UFs
    <2> QED
      BY <1>1, <2>1, ContingenciaDe DEF GetUrl
  <1>2. CASE ~k /\ modelo = "nfce" /\ c.uf \in {"CE", "MT"}
    <2>1. NFCE(c.uf) \in {Comuns, {"HTTPS", "HOMOLOGACAO"}}
      BY <1>2 DEF NFCE
    <2>2. ~({Ambiente(c), consulta} \subseteq NFCE(c.uf))
      BY <2>1 DEF Ambiente, Comuns
    <2>3. Montada("NFCE", c.uf, c, consulta) = Erro
      BY <2>2 DEF Montada, Servicos
    <2>4. Normal(c, modelo, consulta) = Montada("NFCE", c.uf, c, consulta)
      <3>1. c.uf \in Proprias /\ c.uf \notin {"PE", "BA"}
        BY <1>2 DEF Proprias
      <3>2. modelo = "nfce" /\ Tabela(modelo) = "NFCE"
        BY <1>2 DEF Tabela
      <3> QED
        BY <3>1, <3>2 DEF Normal, Proprias, ListaSvrs
    <2>5. GetUrl(c, modelo, consulta, k) = Erro
      BY <1>2, <2>3, <2>4 DEF GetUrl
    <2> QED
      BY <1>2, <2>5
  <1>3. CASE ~k /\ ~(modelo = "nfce" /\ c.uf \in {"CE", "MT"})
    <2>1. Normal(c, modelo, consulta) # Erro
      <3>1. CASE c.uf \in Proprias /\ modelo = "nfe"
        BY <3>1, ComunsDaNfe DEF Normal, Tabela, Proprias
      <3>2. CASE c.uf \in Proprias /\ modelo = "nfce"
        BY <1>3, <3>2, ComunsDaNfce DEF Normal, Tabela, Proprias
      <3>3. CASE c.uf \in ListaSvrs \union {"MA"}
        BY <3>3, ComunsDaNfe, ComunsDaNfce DEF Normal, Tabela, Proprias, ListaSvrs, Modelos
      <3> QED
        BY <3>1, <3>2, <3>3
           DEF UFs, ContingenciaSvan, ContingenciaSvrs, Proprias, ListaSvrs, Modelos
    <2> QED
      BY <1>3, <2>1, NormalDe DEF GetUrl
  <1> QED
    BY <1>1, <1>2, <1>3

(* A request of a note goes to an address of the service it asks for, or has *)
(* none exactly where the tables lack it.                                    *)
THEOREM EnderecoDoPedidoTeorema == TransSpec => []EnderecoDoPedido
  <1>1. EnderecosIInv => EnderecoDoPedido
    <2> SUFFICES ASSUME PeloMetodo, ultimo.consulta \in Comuns, ultimo.uf # "AN"
                 PROVE  EnderecoDoPedido
      BY DEF EnderecosIInv, EnderecoDoPedido, Nenhuma
    <2>1. CASE ultimo.uf \notin UFs
      BY <2>1, PedidoComum, SemContingencia DEF EnderecoDoPedido, GetUrl
    <2>2. CASE ultimo.uf \in UFs
      BY <2>2, PedidoComum, EnderecoComum DEF EnderecoDoPedido
    <2> QED
      BY <2>1, <2>2
  <1> QED
    BY <1>1, EnderecosInv, PTL

-----------------------------------------------------------------------------
(* No connection to the test environment reaches a production service, but   *)
(* for the three addresses that have no environment.                         *)
THEOREM HomologacaoIsoladaTeorema == TransSpec => []HomologacaoIsolada
  <1>1. EnderecosIInv => HomologacaoIsolada
    <2> SUFFICES ASSUME PeloMetodo, con.homologacao, ultimo.destino \notin {Erro, SemUrl}
                 PROVE  \/ ultimo.destino.ambiente = "HOMOLOGACAO"
                        \/ /\ ultimo.consulta \in {"CADASTRO", "GTIN"}
                           /\ ultimo.destino.sigla \in {"RS", "SVRS", "SP"}
      BY DEF EnderecosIInv, HomologacaoIsolada, Nenhuma
    <2>1. Ambiente(con) = "HOMOLOGACAO"
      BY DEF Ambiente
    <2>2. CASE \E uf : Pediu("CADASTRO", FALSE, uf, GetUrlCadastro(con, ultimo.modelo, uf))
      <3> PICK uf : Pediu("CADASTRO", FALSE, uf, GetUrlCadastro(con, ultimo.modelo, uf))
        BY <2>2
      <3>1. CASE CadastroDireto(uf)
        <4>1. ultimo.destino = Url("NFE", IF uf = "RS" THEN "RS" ELSE "SVRS", "", "CADASTRO", FALSE)
          BY <3>1 DEF Pediu, GetUrlCadastro
        <4>2. Url("NFE", IF uf = "RS" THEN "RS" ELSE "SVRS", "", "CADASTRO", FALSE).sigla
                 \in {"RS", "SVRS"}
          BY DEF Url
        <4>3. ultimo.destino.sigla \in {"RS", "SVRS"}
          BY <4>1, <4>2
        <4> QED
          BY <4>3 DEF Pediu
      <3>2. CASE ~CadastroDireto(uf)
        BY <2>1, <3>2, NormalDe DEF Pediu, GetUrlCadastro
      <3> QED
        BY <3>1, <3>2
    <2>3. ASSUME NEW q, Pediu(q, FALSE, "AN", GetUrlAn(con, q))
          PROVE  ultimo.destino.ambiente = "HOMOLOGACAO"
      <3>1. ultimo.destino = Url("NFE", "AN", Ambiente(con), q, FALSE)
        BY <2>3 DEF Pediu, GetUrlAn
      <3>2. Url("NFE", "AN", Ambiente(con), q, FALSE).ambiente = Ambiente(con)
        BY DEF Url
      <3> QED
        BY <2>1, <3>1, <3>2
    <2>4. ASSUME Pediu("GTIN", FALSE, con.uf, Url("NFE", "SP", "", "GTIN", FALSE))
          PROVE  ultimo.consulta = "GTIN" /\ ultimo.destino.sigla = "SP"
      <3>1. ultimo.destino = Url("NFE", "SP", "", "GTIN", FALSE)
        BY <2>4 DEF Pediu
      <3>2. Url("NFE", "SP", "", "GTIN", FALSE).sigla = "SP"
        BY DEF Url
      <3> QED
        BY <2>4, <3>1, <3>2 DEF Pediu
    <2> QED
      BY <2>1, <2>2, <2>3, <2>4 DEF PeloMetodo
  <1> QED
    BY <1>1, EnderecosInv, PTL

-----------------------------------------------------------------------------
(* The authority of a common service in normal operation.                    *)
SiglaNormal(modelo, uf) ==
    IF modelo = "nfe"
    THEN IF uf \in {"CE"} \union ListaSvrs THEN "SVRS" ELSE IF uf = "MA" THEN "SVAN" ELSE uf
    ELSE IF uf \in {"CE", "MT"} THEN ""
         ELSE IF uf \in {"PE", "BA", "MA"} \union ListaSvrs THEN "SVRS" ELSE uf

LEMMA DeSiglaNormal ==
  ASSUME NEW c, c.uf \in UFs, NEW modelo \in Modelos, NEW consulta \in Comuns
  PROVE  Normal(c, modelo, consulta).sigla = SiglaNormal(modelo, c.uf)
  <1>1. CASE modelo = "nfce" /\ c.uf \in {"CE", "MT"}
    <2>1. Normal(c, modelo, consulta) = Erro
      BY <1>1, EnderecoComum DEF GetUrl
    <2>2. Erro.sigla = ""
      BY DEF Erro, Url
    <2> QED
      BY <1>1, <2>1, <2>2 DEF SiglaNormal
  <1>2. CASE modelo = "nfce" /\ c.uf \notin {"CE", "MT"}
    <2>1. CASE c.uf \in {"PE", "BA"}
      BY <1>2, <2>1, ComunsDaNfce, DaMontada
         DEF Normal, Tabela, Proprias, ListaSvrs, SiglaNormal
    <2>2. CASE c.uf \in Proprias \ {"PE", "BA"}
      BY <1>2, <2>2, ComunsDaNfce, DaMontada
         DEF Normal, Tabela, Proprias, ListaSvrs, SiglaNormal
    <2>3. CASE c.uf \in ListaSvrs \union {"MA"}
      BY <1>2, <2>3, ComunsDaNfce, DaMontada
         DEF Normal, Tabela, Proprias, ListaSvrs, SiglaNormal
    <2> QED
      BY <2>1, <2>2, <2>3 DEF UFs, ContingenciaSvan, ContingenciaSvrs, Proprias, ListaSvrs
  <1>3. CASE modelo = "nfe"
    <2>1. CASE c.uf = "CE"
      BY <1>3, <2>1, ComunsDaNfe, DaMontada DEF Normal, Tabela, Proprias, ListaSvrs, SiglaNormal
    <2>2. CASE c.uf \in Proprias \ {"CE"}
      BY <1>3, <2>2, ComunsDaNfe, DaMontada DEF Normal, Tabela, Proprias, ListaSvrs, SiglaNormal
    <2>3. CASE c.uf \in ListaSvrs
      BY <1>3, <2>3, ComunsDaNfe, DaMontada DEF Normal, Tabela, Proprias, ListaSvrs, SiglaNormal
    <2>4. CASE c.uf = "MA"
      BY <1>3, <2>4, ComunsDaNfe, DaMontada DEF Normal, Tabela, Proprias, ListaSvrs, SiglaNormal
    <2> QED
      BY <2>1, <2>2, <2>3, <2>4 DEF UFs, ContingenciaSvan, ContingenciaSvrs, Proprias, ListaSvrs
  <1> QED
    BY <1>1, <1>2, <1>3 DEF Modelos

LEMMA DeSiglaDaContingencia ==
  ASSUME NEW c, c.uf \in UFs, NEW modelo \in Modelos, NEW consulta \in Comuns
  PROVE  EmContingencia(c, modelo, consulta).sigla =
            IF modelo = "nfe" /\ c.uf \in ContingenciaSvan THEN "SVAN" ELSE "SVRS"
  <1>1. CASE c.uf \in ContingenciaSvrs
    BY <1>1, ComunsDaNfe, ComunsDaNfce, DaMontada
       DEF EmContingencia, Tabela, Modelos, ContingenciaSvan, ContingenciaSvrs
  <1>2. CASE c.uf \in ContingenciaSvan
    BY <1>2, ComunsDaNfe, ComunsDaNfce, DaMontada
       DEF EmContingencia, Tabela, Modelos, ContingenciaSvan, ContingenciaSvrs
  <1> QED
    BY <1>1, <1>2 DEF UFs

(* The contingency is another authority, but where both are SVRS.            *)
THEOREM ContingenciaTeorema == TransSpec => []ContingenciaEmOutraAutoridade
  <1>1. EnderecosIInv => ContingenciaEmOutraAutoridade
    <2> SUFFICES ASSUME PeloMetodo, ultimo.contingencia, ultimo.uf \in UFs
                 PROVE  (Normal(con, ultimo.modelo, ultimo.consulta).sigla = ultimo.destino.sigla)
                          <=> \/ ultimo.modelo = "nfe" /\ ultimo.uf = "CE"
                              \/ /\ ultimo.modelo = "nfce"
                                 /\ ultimo.uf \in {"PE", "BA"} \/ ultimo.uf \notin Proprias
      BY DEF EnderecosIInv, ContingenciaEmOutraAutoridade, Nenhuma
    <2>1. /\ ultimo.consulta \in Comuns /\ ultimo.uf = con.uf /\ ultimo.modelo \in Modelos
          /\ ultimo.destino = EmContingencia(con, ultimo.modelo, ultimo.consulta)
      BY DEF PeloMetodo, Pediu, GetUrl
    <2>2. ultimo.destino.sigla =
            IF ultimo.modelo = "nfe" /\ con.uf \in ContingenciaSvan THEN "SVAN" ELSE "SVRS"
      BY <2>1, DeSiglaDaContingencia
    <2>3. Normal(con, ultimo.modelo, ultimo.consulta).sigla = SiglaNormal(ultimo.modelo, con.uf)
      BY <2>1, DeSiglaNormal
    <2>4. CASE ultimo.modelo = "nfe"
      BY <2>1, <2>2, <2>3, <2>4
         DEF SiglaNormal, UFs, ContingenciaSvan, ContingenciaSvrs, ListaSvrs
    <2>5. CASE ultimo.modelo = "nfce"
      BY <2>1, <2>2, <2>3, <2>5
         DEF SiglaNormal, UFs, ContingenciaSvan, ContingenciaSvrs, ListaSvrs, Proprias
    <2> QED
      BY <2>1, <2>4, <2>5 DEF Modelos
  <1> QED
    BY <1>1, EnderecosInv, PTL

-----------------------------------------------------------------------------
(* The register that _get_url finds for the UF of the connection: one of its *)
(* own, whose address is not put after another, only where the UF has one.   *)
LEMMA CadastroNormal ==
  ASSUME NEW c
  PROVE  LET d == Normal(c, "nfe", "CADASTRO") IN
         IF c.uf \in Proprias \ {"CE"}
         THEN d # Erro /\ d.sigla = c.uf /\ (d.colada <=> c.uf = "RS")
         ELSE d = Erro \/ d.colada
  <1>1. CASE c.uf \in Proprias \ {"CE"}
    <2>1. "CADASTRO" \in NFE(c.uf) /\ {"HTTPS", "HOMOLOGACAO"} \subseteq NFE(c.uf)
      BY <1>1 DEF NFE, Proprias
    <2>2. Montada("NFE", c.uf, c, "CADASTRO") # Erro
      BY <2>1 DEF Montada, Servicos, Ambiente, Url, Erro
    <2>3. Normal(c, "nfe", "CADASTRO") = Montada("NFE", c.uf, c, "CADASTRO")
      BY <1>1 DEF Normal, Proprias, ListaSvrs, Tabela
    <2> QED
      BY <1>1, <2>2, <2>3, DaMontada DEF Inteiros, Proprias
  <1>2. CASE c.uf \in {"CE"} \union ListaSvrs
    <2>1. Normal(c, "nfe", "CADASTRO") = Montada("NFE", "SVRS", c, "CADASTRO")
      BY <1>2 DEF Normal, Proprias, ListaSvrs, Tabela
    <2>2. c.uf \notin Proprias \ {"CE"}
      BY <1>2 DEF Proprias, ListaSvrs
    <2> QED
      BY <2>1, <2>2, DaMontada DEF Inteiros
  <1>3. CASE c.uf = "MA"
    <2>1. Normal(c, "nfe", "CADASTRO") = Montada("NFE", "SVAN", c, "CADASTRO")
      BY <1>3 DEF Normal, Proprias, ListaSvrs, Tabela
    <2>2. "CADASTRO" \notin NFE("SVAN")
      BY DEF NFE, Comuns
    <2>3. Montada("NFE", "SVAN", c, "CADASTRO") = Erro
      BY <2>2 DEF Montada, Servicos
    <2> QED
      BY <1>3, <2>1, <2>3 DEF Proprias
  <1>4. CASE c.uf \notin Proprias \union ListaSvrs \union {"MA"}
    BY <1>4 DEF Normal
  <1> QED
    BY <1>1, <1>2, <1>3, <1>4

(* A taxpayer is looked up in the register of the UF asked for, or else of   *)
(* the connection's own.                                                     *)
THEOREM CadastroDaUfTeorema == TransSpec => []CadastroDaUf
  <1>1. EnderecosIInv => CadastroDaUf
    <2> SUFFICES ASSUME PeloMetodo, ultimo.consulta = "CADASTRO", ultimo.modelo = "nfe"
                 PROVE  (/\ ultimo.destino # Erro /\ ~ultimo.destino.colada
                         /\ ultimo.destino.sigla \in {ultimo.uf, "SVRS"})
                          <=> \/ ultimo.uf \in ListaSvrs \union {"CE", "RS"}
                              \/ ultimo.uf = con.uf /\ ultimo.uf \in Proprias
      BY DEF EnderecosIInv, CadastroDaUf, Nenhuma
    <2>1. ultimo.destino = GetUrlCadastro(con, "nfe", ultimo.uf)
      BY DEF PeloMetodo, Pediu, Comuns
    <2>2. CadastroDireto(ultimo.uf) <=> ultimo.uf \in ListaSvrs \union {"CE", "RS"}
      BY DEF CadastroDireto, CadastroSvrs, ListaSvrs
    <2>3. CASE CadastroDireto(ultimo.uf)
      <3> DEFINE sigla == IF ultimo.uf = "RS" THEN "RS" ELSE "SVRS"
      <3> ultimo.uf # "SVC-RS"
        BY <2>2, <2>3 DEF ListaSvrs
      <3>1. ultimo.destino = Url("NFE", sigla, "", "CADASTRO", FALSE)
        BY <2>1, <2>3 DEF GetUrlCadastro
      <3>2. Url("NFE", sigla, "", "CADASTRO", FALSE).sigla = sigla
        BY DEF Url
      <3>3. ~Url("NFE", sigla, "", "CADASTRO", FALSE).colada
        BY DEF Url
      <3>4. Url("NFE", sigla, "", "CADASTRO", FALSE) # Erro
        BY DEF Url, Erro
      <3> QED
        BY <2>2, <2>3, <3>1, <3>2, <3>3, <3>4
    <2>4. CASE ultimo.uf = "SVC-RS"
      <3>1. ultimo.destino = Erro
        BY <2>1, <2>4 DEF GetUrlCadastro, CadastroDireto, CadastroSvrs
      <3> QED
        BY <2>4, <3>1 DEF ListaSvrs, Proprias
    <2>5. CASE ~CadastroDireto(ultimo.uf) /\ ultimo.uf # "SVC-RS"
      <3>1. ultimo.destino = Normal(con, "nfe", "CADASTRO")
        BY <2>1, <2>5 DEF GetUrlCadastro
      <3>2. CASE con.uf \in Proprias \ {"CE"}
        BY <2>2, <2>5, <3>1, <3>2, CadastroNormal DEF Proprias
      <3>3. CASE con.uf \notin Proprias \ {"CE"}
        BY <2>2, <2>5, <3>1, <3>3, CadastroNormal
      <3> QED
        BY <3>2, <3>3
    <2> QED
      BY <2>3, <2>4, <2>5
  <1> QED
    BY <1>1, EnderecosInv, PTL

-----------------------------------------------------------------------------
(* The least of a set of naturals: what an induction over the digits needs.  *)
LEMMA Minimo ==
  ASSUME NEW X \in SUBSET Nat, X # {}
  PROVE  \E m \in X : \A k \in X : m <= k
  <1> DEFINE R == OpToRel(<, Nat)
  <1>1. IsWellFoundedOn(R, Nat)
    BY NatLessThanWellFounded
  <1>2. \A k, m \in Nat : <<k, m>> \in R <=> k < m
    BY DEF OpToRel
  <1> HIDE DEF R
  <1>3. \E m \in X : \A k \in X : ~(<<k, m>> \in R)
    BY <1>1, WFMin
  <1>4. \A m, k \in X : ~(<<k, m>> \in R) => m <= k
    BY <1>2
  <1> QED
    BY <1>3, <1>4

(* Partial sums of p, up to n.                                               *)
Parcial(p, g, n) == g \in [0..n -> Nat] /\ g[0] = 0 /\ \A i \in 1..n : g[i] = g[i - 1] + p[i]

(* There are such sums: the recursive function of Soma11 is well defined.     *)
LEMMA DaParcial ==
  ASSUME NEW t \in Nat, NEW p \in [1..t -> Nat], NEW n \in 0..t
  PROVE  \E g : Parcial(p, g, n)
  <1> DEFINE X == {k \in 0..t : ~\E g : Parcial(p, g, k)}
  <1>1. SUFFICES ASSUME X # {} PROVE FALSE
    OBVIOUS
  <1>2. PICK m \in X : \A k \in X : m <= k
    <2>1. X \in SUBSET Nat
      OBVIOUS
    <2> HIDE DEF X
    <2> QED
      BY <1>1, <2>1, Minimo
  <1>3. m \in 0..t /\ ~\E g : Parcial(p, g, m)
    OBVIOUS
  <1>4. m # 0
    <2> SUFFICES ASSUME m = 0 PROVE FALSE
      OBVIOUS
    <2>1. Parcial(p, [i \in 0..0 |-> 0], 0)
      BY DEF Parcial
    <2> QED
      BY <1>3, <2>1
  <1>5. PICK g : Parcial(p, g, m - 1)
    <2>1. m - 1 \notin X /\ m - 1 \in 0..t
      BY <1>2, <1>3, <1>4
    <2> QED
      BY <2>1
  <1> DEFINE h == [i \in 0..m |-> IF i = m THEN g[m - 1] + p[m] ELSE g[i]]
  <1>6. Parcial(p, h, m)
    <2>1. m \in 1..t /\ m \in Nat /\ m - 1 \in Nat
      BY <1>3, <1>4
    <2>2. p[m] \in Nat
      BY <2>1
    <2>3. \A i \in 0..(m - 1) : h[i] = g[i]
      BY <2>1
    <2>4. h[m] = g[m - 1] + p[m]
      BY <2>1
    <2>5. h \in [0..m -> Nat]
      BY <1>5, <2>1, <2>2 DEF Parcial
    <2> HIDE DEF h
    <2>6. \A i \in 1..m : h[i] = h[i - 1] + p[i]
      <3> TAKE i \in 1..m
      <3>1. CASE i = m
        <4>1. h[m - 1] = g[m - 1]
          BY <2>1, <2>3
        <4> QED
          BY <2>4, <3>1, <4>1
      <3>2. CASE i # m
        <4>1. i \in 1..(m - 1) /\ i \in 0..(m - 1) /\ i - 1 \in 0..(m - 1)
          BY <2>1, <3>2
        <4>2. g[i] = g[i - 1] + p[i]
          BY <1>5, <4>1 DEF Parcial
        <4> QED
          BY <2>3, <4>1, <4>2
      <3> QED
        BY <3>1, <3>2
    <2>7. h[0] = 0
      BY <1>5, <2>1, <2>3 DEF Parcial
    <2> QED
      BY <2>5, <2>6, <2>7 DEF Parcial
  <1> QED
    BY <1>3, <1>6

(* The sum modulo 11 of a key is of natural numbers, however long the key.   *)
LEMMA DaSoma11 ==
  ASSUME NEW d \in Seq(0..9)
  PROVE  Soma11(d) \in Nat
  <1> DEFINE t == Len(d)
             p == [i \in 1..t |-> d[t + 1 - i] * (2 + ((i - 1) % 8))]
             D(g) == [i \in 0..t |-> IF i = 0 THEN 0
                                      ELSE g[i - 1] + d[t + 1 - i] * (2 + ((i - 1) % 8))]
             soma == CHOOSE g : g = D(g)
  <1>1. Soma11(d) = soma[t]
    BY DEF Soma11
  <1>2. t \in Nat
    OBVIOUS
  <1>3. p \in [1..t -> Nat]
    <2> SUFFICES ASSUME NEW i \in 1..t
                 PROVE  d[t + 1 - i] * (2 + ((i - 1) % 8)) \in Nat
      OBVIOUS
    <2> DEFINE a == d[t + 1 - i]
               r == (i - 1) % 8
    <2>1. a \in 0..9 /\ r \in 0..7
      BY <1>2
    <2> HIDE DEF a, r
    <2>2. a * (2 + r) \in Nat
      BY <2>1
    <2> QED
      BY <2>2 DEF a, r
  <1>4. PICK g : Parcial(p, g, t)
    <2> HIDE DEF p
    <2> QED
      BY <1>2, <1>3, DaParcial
  <1>5. g = D(g)
    BY <1>2, <1>4 DEF Parcial
  <1>6. soma = D(soma)
    <2> HIDE DEF D
    <2> QED
      BY <1>5
  <1> HIDE DEF soma
  <1>7. soma[0] = 0 /\ \A i \in 1..t : soma[i] = soma[i - 1] + p[i]
    BY <1>2, <1>6
  <1> DEFINE X == {i \in 0..t : soma[i] \notin Nat}
  <1>8. SUFFICES ASSUME X # {} PROVE FALSE
    BY <1>1, <1>2
  <1>9. PICK m \in X : \A k \in X : m <= k
    <2>1. X \in SUBSET Nat
      BY <1>2
    <2> HIDE DEF X
    <2> QED
      BY <1>8, <2>1, Minimo
  <1> HIDE DEF p
  <1>10. m \in 1..t /\ m - 1 \in 0..t
    BY <1>2, <1>7, <1>9
  <1>11. m - 1 \notin X
    BY <1>2, <1>9, <1>10
  <1>12. soma[m - 1] \in Nat /\ p[m] \in Nat
    BY <1>3, <1>10, <1>11
  <1> QED
    BY <1>7, <1>10, <1>12

(* The digit closes the sum.                                                 *)
LEMMA DoDV ==
  ASSUME NEW d \in Seq(0..9)
  PROVE  /\ DV(d) \in 0..9
         /\ \/ (Soma11(d) + DV(d)) % 11 = 0
            \/ DV(d) = 0 /\ Soma11(d) % 11 = 1
  <1> DEFINE s == Soma11(d)
             r == s % 11
  <1>1. s \in Nat
    BY DaSoma11
  <1>2. DV(d) = IF r \in {0, 1} THEN 0 ELSE 11 - r
    BY DEF DV
  <1> HIDE DEF s
  <1>3. r \in 0..10
    BY <1>1
  <1>4. CASE r \in {0, 1}
    BY <1>1, <1>2, <1>4 DEF s
  <1>5. CASE r \notin {0, 1}
    <2>1. (s + (11 - r)) % 11 = 0
      BY <1>1
    <2> QED
      BY <1>2, <1>3, <1>5, <2>1 DEF s
  <1> QED
    BY <1>4, <1>5

-----------------------------------------------------------------------------
(* The key of a form of emission and of a code.                              *)
Corpo(forma, codigo) == Prefixo \o <<forma>> \o codigo

ChaveDe(forma, codigo) == Append(Corpo(forma, codigo), DV(Corpo(forma, codigo)))

LEMMA Colada ==
  ASSUME NEW S, NEW s \in Seq(S), NEW t \in Seq(S)
  PROVE  /\ s \o t \in Seq(S) /\ Len(s \o t) = Len(s) + Len(t)
         /\ \A i \in 1..Len(s) : (s \o t)[i] = s[i]
         /\ \A i \in 1..Len(t) : (s \o t)[Len(s) + i] = t[i]
  <1> DEFINE u == s \o t
  <1>1. u \in Seq(S)
    BY ConcatProperties
  <1>2. Len(u) = Len(s) + Len(t)
    BY ConcatProperties
  <1>3. \A i \in 1..(Len(s) + Len(t)) : u[i] = IF i <= Len(s) THEN s[i] ELSE t[i - Len(s)]
    BY ConcatProperties
  <1> HIDE DEF u
  <1>4. \A i \in 1..Len(s) : u[i] = s[i]
    BY <1>3
  <1>5. \A i \in 1..Len(t) : u[Len(s) + i] = t[i]
    BY <1>3
  <1> QED
    BY <1>1, <1>2, <1>4, <1>5 DEF u

LEMMA CodigoNaoVazio == ASSUME NEW c, OitoDigitos(c) PROVE c # <<>>
  <1>1. Len(<<>>) = 0
    BY EmptySeq
  <1>2. Len(c) = 8
    BY DEF OitoDigitos
  <1> QED
    BY <1>1, <1>2

LEMMA DoCorpo ==
  ASSUME NEW f \in 1..9, NEW c, OitoDigitos(c)
  PROVE  /\ Corpo(f, c) \in Seq(0..9) /\ Len(Corpo(f, c)) = 43
         /\ Corpo(f, c)[35] = f
         /\ \A i \in 1..8 : Corpo(f, c)[35 + i] = c[i]
  <1> DEFINE p == Prefixo \o <<f>>
             k == p \o c
             E == 0..9
  <1>1. Prefixo \in Seq(E) /\ Len(Prefixo) = 34 /\ c \in Seq(E) /\ Len(c) = 8
    BY PrefixoAssumption DEF OitoDigitos
  <1>2. <<f>> \in Seq(E) /\ Len(<<f>>) = 1 /\ <<f>>[1] = f
    OBVIOUS
  <1>3. Corpo(f, c) = k
    BY DEF Corpo
  <1> HIDE DEF E
  <1> HIDE DEF k
  <1>4. /\ p \in Seq(E) /\ Len(p) = Len(Prefixo) + Len(<<f>>)
        /\ \A i \in 1..Len(<<f>>) : p[Len(Prefixo) + i] = <<f>>[i]
    <2>1. Prefixo \in Seq(E) /\ <<f>> \in Seq(E)
      BY <1>1, <1>2
    <2> QED
      BY <2>1, Colada
  <1> HIDE DEF p
  <1>5. Len(p) = 35 /\ p[35] = f
    BY <1>1, <1>2, <1>4
  <1>6. /\ k \in Seq(E) /\ Len(k) = Len(p) + Len(c)
        /\ \A i \in 1..Len(p) : k[i] = p[i]
        /\ \A i \in 1..Len(c) : k[Len(p) + i] = c[i]
    <2>1. p \in Seq(E) /\ c \in Seq(E)
      BY <1>1, <1>4
    <2> QED
      BY <2>1, Colada DEF k
  <1>7. Len(k) = 43 /\ k[35] = f /\ \A i \in 1..8 : k[35 + i] = c[i]
    BY <1>1, <1>5, <1>6
  <1> QED
    BY <1>3, <1>6, <1>7 DEF E

LEMMA DaChave ==
  ASSUME NEW f \in 1..9, NEW c, OitoDigitos(c)
  PROVE  /\ SubSeq(ChaveDe(f, c), 1, 43) = Corpo(f, c)
         /\ ChaveDe(f, c)[35] = f
         /\ SubSeq(ChaveDe(f, c), 36, 43) = c
         /\ ChaveDe(f, c)[44] = DV(Corpo(f, c))
  <1> DEFINE k == Corpo(f, c)
             dv == DV(k)
             a == Append(k, dv)
             E == 0..9
  <1>1. k \in Seq(E) /\ Len(k) = 43 /\ k[35] = f /\ \A i \in 1..8 : k[35 + i] = c[i]
    BY DoCorpo
  <1>2. c \in Seq(E) /\ Len(c) = 8
    BY DEF OitoDigitos
  <1>3. dv \in E
    BY <1>1, DoDV
  <1>4. ChaveDe(f, c) = a
    BY DEF ChaveDe
  <1> HIDE DEF k, dv, E
  <1>a. /\ a \in Seq(E) /\ Len(a) = Len(k) + 1
        /\ \A i \in 1..Len(k) : a[i] = k[i]
        /\ a[Len(k) + 1] = dv
    <2>1. k \in Seq(E)
      BY <1>1
    <2> QED
      BY <1>3, <2>1, AppendProperties
  <1> HIDE DEF a
  <1>5. a[44] = dv /\ \A i \in 1..43 : a[i] = k[i]
    BY <1>1, <1>a
  <1>6. \A i \in 1..43 : a[i] \in E
    BY <1>1, <1>5, ElementOfSeq
  <1> DEFINE b == SubSeq(a, 1, 43)
             d == SubSeq(a, 36, 43)
  <1>7. /\ b \in Seq(E) /\ Len(b) = 43
        /\ \A i \in 1..43 : b[i] = a[i]
    <2>1. /\ b \in Seq(E) /\ Len(b) = IF 1 <= 43 THEN 43 - 1 + 1 ELSE 0
          /\ \A i \in 1..(43 - 1 + 1) : b[i] = a[1 + i - 1]
      BY <1>6, SubSeqProperties
    <2> HIDE DEF b
    <2> QED
      BY <2>1
  <1>8. /\ d \in Seq(E) /\ Len(d) = 8
        /\ \A i \in 1..8 : d[i] = a[35 + i]
    <2>1. \A i \in 36..43 : a[i] \in E
      BY <1>6
    <2>2. /\ d \in Seq(E) /\ Len(d) = IF 36 <= 43 THEN 43 - 36 + 1 ELSE 0
          /\ \A i \in 1..(43 - 36 + 1) : d[i] = a[36 + i - 1]
      BY <2>1, SubSeqProperties
    <2> HIDE DEF d
    <2> QED
      BY <2>2
  <1> HIDE DEF b, d
  <1>9. b = k
    <2>1. Len(b) = Len(k) /\ \A i \in 1..Len(b) : b[i] = k[i]
      BY <1>1, <1>5, <1>7
    <2> QED
      BY <1>1, <1>7, <2>1, SeqEqual
  <1>10. d = c
    <2>1. \A i \in 1..8 : a[35 + i] = k[35 + i]
      BY <1>5
    <2>2. \A i \in 1..8 : d[i] = c[i]
      BY <1>1, <1>8, <2>1
    <2>3. Len(d) = Len(c) /\ \A i \in 1..Len(d) : d[i] = c[i]
      BY <1>2, <1>8, <2>2
    <2> QED
      BY <1>2, <1>8, <2>3, SeqEqual
  <1>11. a[35] = f /\ a[44] = dv
    BY <1>1, <1>5
  <1> QED
    BY <1>4, <1>9, <1>10, <1>11 DEF b, d, k, dv

-----------------------------------------------------------------------------
(* A note has what a key is made of; and the last document has the key of    *)
(* its code, which is the note's, with the form of emission of the note, or  *)
(* the normal one it had before the contingency.                             *)
NotaComChave ==
    \/ nota = Nenhum
    \/ /\ {"existe", "itens", "v", "forma", "codigo"} \subseteq DOMAIN nota
       /\ Existe(nota)
       /\ nota.forma \in 1..9
       /\ nota.codigo = <<>> \/ OitoDigitos(nota.codigo)

ChaveDaNota ==
    Existe(xml) =>
      /\ Existe(nota) /\ OitoDigitos(nota.codigo)
      /\ xml.ide.cNF = nota.codigo
      /\ xml.ide.cDV = xml.id[44]
      /\ \E f \in 1..9 :
            /\ xml.id = ChaveDe(f, nota.codigo)
            /\ f = nota.forma \/ (f = 1 /\ nota.forma = 9)
            /\ xml.ide.tpEmis # f => f = 1 /\ xml.ide.tpEmis = 9 /\ xml.ide.dhCont

ChaveIInv == NotaComChave /\ ChaveDaNota

LEMMA ChaveInicio == TransInit => ChaveIInv
  BY DEF TransInit, DocInit, ChaveIInv, NotaComChave, ChaveDaNota, Existe, Nenhum

LEMMA ChaveCriar ==
  ASSUME ChaveIInv, NEW op \in Opcoes, Criar(op)
  PROVE  ChaveIInv' /\ xml' = xml
  <1>1. nota = Nenhum /\ ~Existe(xml)
    BY DEF ChaveIInv, NotaComChave, ChaveDaNota, Criar
  <1>2. DOMAIN Vazia = {"existe", "itens", "v"} /\ Vazia.existe
    BY DEF Vazia
  <1>3. /\ {"existe", "itens", "v", "forma", "codigo"} \subseteq DOMAIN nota'
        /\ nota'.existe /\ nota'.forma = op.forma /\ nota'.codigo = op.codigo
    BY <1>2, OpcoesAssumption DEF Criar, OpcaoComChave
  <1>4. NotaComChave'
    BY <1>3, OpcoesAssumption DEF NotaComChave, Existe, OpcaoComChave
  <1> QED
    BY <1>1, <1>4 DEF ChaveIInv, ChaveDaNota, Criar, Existe

LEMMA ChaveAdicionar ==
  ASSUME ChaveIInv, NEW it, AdicionarItem(it)
  PROVE  ChaveIInv' /\ xml' = xml
  <1>1. /\ {"existe", "itens", "v", "forma", "codigo"} \subseteq DOMAIN nota
        /\ Existe(nota) /\ nota.forma \in 1..9
        /\ nota.codigo = <<>> \/ OitoDigitos(nota.codigo)
    BY DEF ChaveIInv, NotaComChave, AdicionarItem, Existe, Nenhum
  <1>2. PICK itens, v : nota' = [nota EXCEPT !.itens = itens, !.v = v]
    BY DEF AdicionarItem
  <1>3. /\ DOMAIN nota' = DOMAIN nota /\ nota'.existe = nota.existe
        /\ nota'.forma = nota.forma /\ nota'.codigo = nota.codigo
    BY <1>1, <1>2
  <1>4. NotaComChave'
    BY <1>1, <1>3 DEF NotaComChave, Existe
  <1>5. ChaveDaNota'
    BY <1>3 DEF ChaveIInv, ChaveDaNota, AdicionarItem, Existe
  <1> QED
    BY <1>4, <1>5 DEF ChaveIInv, AdicionarItem

(* An export writes the key of the note as it is, and only then may change   *)
(* the form of emission.                                                     *)
LEMMA ChaveExportar ==
  ASSUME ChaveIInv, NEW s \in Serializadores, Exportar(s)
  PROVE  /\ ChaveIInv'
         /\ \/ xml' = xml
            \/ /\ xml'.id = ChaveDe(nota.forma, nota'.codigo)
               /\ OitoDigitos(nota'.codigo) /\ nota.forma \in 1..9
               /\ nota.codigo = <<>> \/ nota'.codigo = nota.codigo
  <1>1. /\ {"existe", "itens", "v", "forma", "codigo"} \subseteq DOMAIN nota
        /\ Existe(nota) /\ nota.forma \in 1..9
        /\ nota.codigo = <<>> \/ OitoDigitos(nota.codigo)
    BY DEF ChaveIInv, NotaComChave, Exportar, Existe, Nenhum
  <1>2. PICK codigo \in CodigosDa(nota) :
           \/ FalhaNoInicio(nota) /\ nota' = [nota EXCEPT !.codigo = codigo] /\ xml' = xml
           \/ /\ ~FalhaNoInicio(nota)
              /\ nota' = Preparada(nota, codigo, s)
              /\ xml' = IF FalhaNoMeio(nota) THEN xml ELSE Escrito(nota, codigo, s)
    BY DEF Exportar
  <1>3. OitoDigitos(codigo) /\ (nota.codigo = <<>> \/ codigo = nota.codigo)
    BY <1>1, <1>2, CodigosAssumption DEF CodigosDa
  <1>4. /\ DOMAIN nota' = DOMAIN nota /\ nota'.existe = nota.existe /\ nota'.codigo = codigo
        /\ nota'.forma \in {nota.forma, FormaAoSerializar(nota, s)}
    BY <1>1, <1>2 DEF Preparada
  <1>5. FormaAoSerializar(nota, s) \in 1..9
    BY <1>1 DEF FormaAoSerializar
  <1>6. NotaComChave'
    BY <1>1, <1>3, <1>4, <1>5 DEF NotaComChave, Existe
  <1>7. CASE xml' = xml
    <2>1. ASSUME Existe(xml)
          PROVE  codigo = nota.codigo
      <3>1. OitoDigitos(nota.codigo)
        BY <2>1 DEF ChaveIInv, ChaveDaNota
      <3>2. nota.codigo # <<>>
        BY <3>1, CodigoNaoVazio
      <3> QED
        BY <1>3, <3>2
    <2>2. nota'.forma = nota.forma \/ (nota.forma = 1 /\ nota'.forma = 9)
      BY <1>4 DEF FormaAoSerializar
    <2>3. ChaveDaNota'
      BY <1>3, <1>4, <1>1, <1>7, <2>1, <2>2 DEF ChaveIInv, ChaveDaNota, Existe
    <2> QED
      BY <1>6, <1>7, <2>3 DEF ChaveIInv
  <1>8. CASE nota' = Preparada(nota, codigo, s) /\ xml' = Escrito(nota, codigo, s)
    <2>1. nota'.forma = FormaAoSerializar(nota, s)
      BY <1>1, <1>8 DEF Preparada
    <2>2. Chave([nota EXCEPT !.codigo = codigo]) = ChaveDe(nota.forma, codigo)
      <3> DEFINE n == [nota EXCEPT !.codigo = codigo]
      <3>1. n.forma = nota.forma /\ n.codigo = codigo
        BY <1>1
      <3> HIDE DEF n
      <3>2. Chave(n) = ChaveDe(nota.forma, codigo)
        BY <3>1 DEF Chave, ChaveDe, Corpo
      <3> QED
        BY <3>2 DEF n
    <2>3. /\ xml'.id = ChaveDe(nota.forma, codigo)
          /\ xml'.ide.cNF = codigo /\ xml'.ide.cDV = xml'.id[44]
          /\ xml'.ide.tpEmis = FormaAoSerializar(nota, s) /\ xml'.ide.dhCont = s.contingencia
      BY <1>8, <2>2 DEF Escrito
    <2>4. \/ nota'.forma = nota.forma
          \/ nota.forma = 1 /\ nota'.forma = 9 /\ s.contingencia
      BY <2>1 DEF FormaAoSerializar
    <2>5. ChaveDaNota'
      BY <1>1, <1>3, <1>4, <2>1, <2>3, <2>4 DEF ChaveDaNota, Existe
    <2> QED
      BY <1>1, <1>3, <1>4, <1>6, <2>3, <2>5 DEF ChaveIInv
  <1> QED
    BY <1>2, <1>7, <1>8

(* A step of the specification: of the document, or of the connection.       *)
LEMMA ChavePasso ==
  ASSUME ChaveIInv, [TransNext]_<<docVars, endVars>>
  PROVE  /\ ChaveIInv'
         /\ \/ xml' = xml
            \/ /\ xml'.id = ChaveDe(nota.forma, nota'.codigo)
               /\ OitoDigitos(nota'.codigo) /\ nota.forma \in 1..9
               /\ nota.codigo = <<>> \/ nota'.codigo = nota.codigo
  <1>1. CASE UNCHANGED docVars
    BY <1>1 DEF docVars, ChaveIInv, NotaComChave, ChaveDaNota, Existe
  <1>2. CASE DocNext
    BY <1>2, ChaveCriar, ChaveAdicionar, ChaveExportar DEF DocNext
  <1> QED
    BY <1>1, <1>2 DEF TransNext

LEMMA ChaveInv == TransSpec => []ChaveIInv
  BY ChaveInicio, ChavePasso, PTL DEF TransSpec

(* For every note, every code and every digit of its body, the key of the    *)
(* document is the one ide states, and its digit closes the sum modulo 11    *)
(* (notafiscal.py:541-592, serializacao.py:1497-1552).                       *)
THEOREM ChaveDoDocumentoTeorema == TransSpec => []ChaveDoDocumento
  <1>1. ChaveIInv => ChaveDoDocumento
    <2> SUFFICES ASSUME ChaveIInv, Existe(xml)
                 PROVE  /\ SubSeq(xml.id, 36, 43) = xml.ide.cNF
                        /\ xml.id[44] = xml.ide.cDV
                        /\ \/ (Soma11(SubSeq(xml.id, 1, 43)) + xml.ide.cDV) % 11 = 0
                           \/ xml.ide.cDV = 0 /\ Soma11(SubSeq(xml.id, 1, 43)) % 11 = 1
                        /\ xml.ide.tpEmis # xml.id[35] =>
                              xml.id[35] = 1 /\ xml.ide.tpEmis = 9 /\ xml.ide.dhCont
      BY DEF ChaveDoDocumento
    <2>1. PICK f \in 1..9 :
            /\ OitoDigitos(nota.codigo)
            /\ xml.ide.cNF = nota.codigo
            /\ xml.ide.cDV = xml.id[44]
            /\ xml.id = ChaveDe(f, nota.codigo)
            /\ xml.ide.tpEmis # f => f = 1 /\ xml.ide.tpEmis = 9 /\ xml.ide.dhCont
      BY DEF ChaveIInv, ChaveDaNota
    <2> DEFINE k == Corpo(f, nota.codigo)
    <2>2. /\ SubSeq(xml.id, 1, 43) = k /\ xml.id[35] = f
          /\ SubSeq(xml.id, 36, 43) = nota.codigo /\ xml.id[44] = DV(k)
      BY <2>1, DaChave
    <2>3. \/ (Soma11(k) + DV(k)) % 11 = 0
          \/ DV(k) = 0 /\ Soma11(k) % 11 = 1
      BY <2>1, DoCorpo, DoDV
    <2> HIDE DEF k
    <2> QED
      BY <2>1, <2>2, <2>3
  <1> QED
    BY <1>1, ChaveInv, PTL

(* Exported again, a note keeps its key, but for the form of emission, once, *)
(* after the contingency.                                                    *)
THEOREM ChaveEstavelTeorema == TransSpec => ChaveEstavel
  <1> DEFINE A == Existe(xml) /\ xml' # xml =>
                    /\ SubSeq(xml'.id, 36, 43) = SubSeq(xml.id, 36, 43)
                    /\ xml'.id # xml.id => xml.id[35] = 1 /\ xml'.id[35] = 9
  <1>1. ASSUME ChaveIInv, [TransNext]_<<docVars, endVars>>
        PROVE  [A]_docVars
    <2> SUFFICES ASSUME Existe(xml), xml' # xml
                 PROVE  /\ SubSeq(xml'.id, 36, 43) = SubSeq(xml.id, 36, 43)
                        /\ xml'.id # xml.id => xml.id[35] = 1 /\ xml'.id[35] = 9
      OBVIOUS
    <2>1. PICK f \in 1..9 :
            /\ OitoDigitos(nota.codigo)
            /\ xml.id = ChaveDe(f, nota.codigo)
            /\ f = nota.forma \/ (f = 1 /\ nota.forma = 9)
      BY <1>1 DEF ChaveIInv, ChaveDaNota
    <2>2. xml'.id = ChaveDe(nota.forma, nota'.codigo) /\ OitoDigitos(nota'.codigo)
            /\ nota.forma \in 1..9 /\ (nota.codigo = <<>> \/ nota'.codigo = nota.codigo)
      BY <1>1, ChavePasso
    <2>3. nota'.codigo = nota.codigo
      BY <2>1, <2>2 DEF OitoDigitos
    <2>4. /\ SubSeq(xml'.id, 36, 43) = nota.codigo /\ SubSeq(xml.id, 36, 43) = nota.codigo
          /\ xml'.id[35] = nota.forma /\ xml.id[35] = f
      BY <2>1, <2>2, <2>3, DaChave
    <2> QED
      BY <2>1, <2>2, <2>3, <2>4
  <1> QED
    BY <1>1, ChaveInv, PTL DEF TransSpec, ChaveEstavel

-----------------------------------------------------------------------------
(* A sequence of groups none of which has a name in gs.                      *)
Fora(gs, s) ==
    /\ Len(s) \in Nat
    /\ s = [i \in 1..Len(s) |-> s[i]]
    /\ \A i \in 1..Len(s) : s[i].grupo \notin gs

LEMMA ForaDe ==
  ASSUME NEW gs, NEW X, NEW s \in Seq(X), \A g \in X : g.grupo \notin gs
  PROVE  Fora(gs, s)
  BY DEF Fora

LEMMA ForaEm ==
  ASSUME NEW gs, NEW s, Fora(gs, s), NEW X, \A i \in 1..Len(s) : s[i] \in X
  PROVE  s \in Seq(X)
  <1> DEFINE n == Len(s)
  <1>1. n \in Nat /\ s = [i \in 1..n |-> s[i]] /\ \A i \in 1..n : s[i] \in X
    BY DEF Fora
  <1> HIDE DEF n
  <1>2. s \in [1..n -> X]
    BY <1>1
  <1> QED
    BY <1>1, <1>2

LEMMA ForaVazia == \A gs : Fora(gs, <<>>)
  BY DEF Fora

LEMMA ForaGrupo ==
  ASSUME NEW gs, NEW nome, NEW filhos, nome \notin gs
  PROVE  Fora(gs, <<Grupo(nome, filhos)>>)
  BY DEF Fora, Grupo

LEMMA ForaDois ==
  ASSUME NEW gs, NEW g, NEW h, g.grupo \notin gs, h.grupo \notin gs
  PROVE  Fora(gs, <<g, h>>)
  BY DEF Fora

LEMMA ForaSe ==
  ASSUME NEW gs, NEW c, NEW s, Fora(gs, s)
  PROVE  Fora(gs, Se(c, s))
  BY ForaVazia DEF Se

LEMMA ForaColada ==
  ASSUME NEW gs, NEW s, NEW t, Fora(gs, s), Fora(gs, t)
  PROVE  Fora(gs, s \o t)
  <1> DEFINE X == {s[i] : i \in 1..Len(s)} \union {t[i] : i \in 1..Len(t)}
             u == s \o t
  <1>1. s \in Seq(X)
    BY ForaEm
  <1>2. t \in Seq(X)
    BY ForaEm
  <1>3. \A g \in X : g.grupo \notin gs
    BY DEF Fora
  <1> HIDE DEF X
  <1>4. u \in Seq(X)
    BY <1>1, <1>2, ConcatProperties
  <1> HIDE DEF u
  <1>5. Fora(gs, u)
    BY <1>3, <1>4, ForaDe
  <1> QED
    BY <1>5 DEF u

LEMMA ForaCada ==
  ASSUME NEW gs, NEW n \in Nat, NEW s, s = [i \in 1..n |-> s[i]],
         \A i \in 1..n : s[i].grupo \notin gs
  PROVE  Fora(gs, s)
  <1>1. Len(s) = n
    OBVIOUS
  <1> QED
    BY <1>1 DEF Fora

(* The groups of each of a sequence, one after the other.                    *)
Juntas(X, ss, f, n) ==
    /\ f = [i \in 1..n |-> f[i]]
    /\ \A i \in 1..n : /\ f[i] \in Seq(X)
                       /\ f[i] = IF i = 1 THEN ss[i] ELSE f[i - 1] \o ss[i]

LEMMA DasJuntas ==
  ASSUME NEW X, NEW ss, NEW n \in Nat, \A i \in 1..n : ss[i] \in Seq(X)
  PROVE  \E f : Juntas(X, ss, f, n)
  <1> DEFINE S == {k \in 0..n : ~\E f : Juntas(X, ss, f, k)}
  <1>1. SUFFICES ASSUME S # {} PROVE FALSE
    OBVIOUS
  <1>2. PICK m \in S : \A k \in S : m <= k
    <2>1. S \in SUBSET Nat
      OBVIOUS
    <2> HIDE DEF S
    <2> QED
      BY <1>1, <2>1, Minimo
  <1>3. m \in 0..n /\ ~\E f : Juntas(X, ss, f, m)
    OBVIOUS
  <1>4. m # 0
    <2>1. Juntas(X, ss, [i \in 1..0 |-> <<>>], 0)
      BY DEF Juntas
    <2> QED
      BY <1>3, <2>1
  <1>5. PICK f : Juntas(X, ss, f, m - 1)
    <2>1. m - 1 \notin S /\ m - 1 \in 0..n
      BY <1>2, <1>3, <1>4
    <2> QED
      BY <2>1
  <1> DEFINE ultima == IF m = 1 THEN ss[m] ELSE f[m - 1] \o ss[m]
             h == [i \in 1..m |-> IF i = m THEN ultima ELSE f[i]]
  <1>6. Juntas(X, ss, h, m)
    <2>1. m \in 1..n /\ m \in Nat /\ m - 1 \in Nat
      BY <1>3, <1>4
    <2>2. ultima \in Seq(X)
      <3>1. CASE m = 1
        BY <2>1, <3>1
      <3>2. CASE m # 1
        <4>1. f[m - 1] \in Seq(X) /\ ss[m] \in Seq(X)
          <5>1. m - 1 \in 1..(m - 1) /\ ss[m] \in Seq(X)
            BY <2>1, <3>2
          <5>2. \A i \in 1..(m - 1) : f[i] \in Seq(X)
            BY <1>5 DEF Juntas
          <5> QED
            BY <5>1, <5>2
        <4>2. f[m - 1] \o ss[m] \in Seq(X)
          BY <4>1, ConcatProperties
        <4> QED
          BY <3>2, <4>2
      <3> QED
        BY <3>1, <3>2
    <2>3. h[m] = ultima /\ \A i \in 1..(m - 1) : h[i] = f[i]
      <3> HIDE DEF ultima
      <3>1. m \in 1..m /\ \A i \in 1..(m - 1) : i \in 1..m /\ i # m
        BY <2>1
      <3> QED
        BY <3>1
    <2>4. h = [i \in 1..m |-> h[i]]
      OBVIOUS
    <2> HIDE DEF h
    <2>5. ASSUME NEW i \in 1..m
          PROVE  h[i] \in Seq(X) /\ h[i] = IF i = 1 THEN ss[i] ELSE h[i - 1] \o ss[i]
      <3>1. CASE i = m
        <4>1. m # 1 => h[m - 1] = f[m - 1]
          BY <2>1, <2>3
        <4>2. ultima = IF m = 1 THEN ss[m] ELSE f[m - 1] \o ss[m]
          OBVIOUS
        <4> HIDE DEF ultima
        <4> QED
          BY <2>2, <2>3, <3>1, <4>1, <4>2
      <3>2. CASE i # m
        <4>1. i \in 1..(m - 1) /\ h[i] = f[i] /\ (i # 1 => h[i - 1] = f[i - 1])
          BY <2>1, <2>3, <3>2
        <4>2. f[i] \in Seq(X) /\ f[i] = IF i = 1 THEN ss[i] ELSE f[i - 1] \o ss[i]
          BY <1>5, <4>1 DEF Juntas
        <4> QED
          BY <4>1, <4>2
      <3> QED
        BY <3>1, <3>2
    <2> QED
      BY <2>4, <2>5 DEF Juntas
  <1> QED
    BY <1>3, <1>6

LEMMA DaFlatten ==
  ASSUME NEW X, NEW n \in Nat \ {0}, NEW ss, ss = [i \in 1..n |-> ss[i]],
         \A i \in 1..n : ss[i] \in Seq(X)
  PROVE  \E f : Juntas(X, ss, f, n) /\ Sequencias!FlattenSeq(ss) = f[n]
  <1> DEFINE D(f) == [i \in 1..n |-> IF i = 1 THEN ss[i] ELSE f[i - 1] \o ss[i]]
             flatten == CHOOSE f : f = D(f)
  <1>1. Len(ss) = n
    OBVIOUS
  <1>2. Sequencias!FlattenSeq(ss) = flatten[n]
    BY <1>1 DEF Sequencias!FlattenSeq
  <1>3. PICK f : Juntas(X, ss, f, n)
    BY DasJuntas
  <1>4. f = D(f)
    BY <1>3 DEF Juntas
  <1>5. flatten = D(flatten)
    <2> HIDE DEF D
    <2> QED
      BY <1>4
  <1> HIDE DEF flatten
  <1>6. \A i \in 1..n : flatten[i] = IF i = 1 THEN ss[i] ELSE flatten[i - 1] \o ss[i]
    BY <1>5
  <1> HIDE DEF D
  <1> DEFINE S == {i \in 1..n : flatten[i] # f[i]}
  <1>7. S = {}
    <2>1. SUFFICES ASSUME S # {} PROVE FALSE
      OBVIOUS
    <2>2. PICK m \in S : \A k \in S : m <= k
      <3>1. S \in SUBSET Nat
        OBVIOUS
      <3> HIDE DEF S
      <3> QED
        BY <2>1, <3>1, Minimo
    <2>3. m \in 1..n /\ flatten[m] # f[m]
      OBVIOUS
    <2>4. f[m] = IF m = 1 THEN ss[m] ELSE f[m - 1] \o ss[m]
      BY <1>3, <2>3 DEF Juntas
    <2>5. m # 1
      BY <1>6, <2>3, <2>4
    <2>6. m - 1 \in 1..n /\ flatten[m - 1] = f[m - 1]
      BY <2>2, <2>3, <2>5
    <2> QED
      BY <1>6, <2>3, <2>4, <2>5, <2>6
  <1>8. n \in 1..n
    OBVIOUS
  <1> QED
    BY <1>2, <1>3, <1>7, <1>8

LEMMA ForaJuntas ==
  ASSUME NEW gs, NEW n \in Nat, NEW ss, ss = [i \in 1..n |-> ss[i]],
         \A i \in 1..n : Fora(gs, ss[i])
  PROVE  Fora(gs, Sequencias!FlattenSeq(ss))
  <1>1. Len(ss) = n
    OBVIOUS
  <1>2. CASE n = 0
    <2>1. Sequencias!FlattenSeq(ss) = ss
      BY <1>1, <1>2 DEF Sequencias!FlattenSeq
    <2>2. Fora(gs, ss)
      BY <1>1, <1>2 DEF Fora
    <2> QED
      BY <2>1, <2>2
  <1>3. CASE n # 0
    <2> DEFINE X == UNION {{ss[i][j] : j \in 1..Len(ss[i])} : i \in 1..n}
    <2>1. \A g \in X : g.grupo \notin gs
      BY DEF Fora
    <2>2. ASSUME NEW i \in 1..n PROVE ss[i] \in Seq(X)
      <3>1. \A j \in 1..Len(ss[i]) : ss[i][j] \in X
        OBVIOUS
      <3> HIDE DEF X
      <3> QED
        BY <3>1, ForaEm
    <2> HIDE DEF X
    <2>3. PICK f : Juntas(X, ss, f, n) /\ Sequencias!FlattenSeq(ss) = f[n]
      BY <1>3, <2>2, DaFlatten
    <2>4. f[n] \in Seq(X)
      BY <1>3, <2>3 DEF Juntas
    <2> QED
      BY <2>1, <2>3, <2>4, ForaDe
  <1> QED
    BY <1>2, <1>3

-----------------------------------------------------------------------------
(* The names of the groups whose amounts are compared: those of the items,   *)
(* those of the totals, and the others a document has.                       *)
GIbs == {"gIBSCBS", "gIBSUF", "gIBSMun", "gCBS"}

DosItens == GIcms \union GPis \union GCofins \union GIbs
              \union {"prod", "II", "IPITrib", "IPIDevol"}

DosTotais == {"ICMSTot", "IBSCBSTot", "gIBSTot", "gIBSUFTot", "gIBSMunTot", "gCBSTot"}

Conferidas == DosItens \union DosTotais

Demais ==
    {"infNFe", "ide", "NFref", "refNF", "refNFP", "emit", "enderEmit", "dest", "enderDest",
     "retirada", "entrega", "autXML", "det", "DI", "adi", "comb", "encerrante", "imposto",
     "IPI", "IPINT", "IBSCBS", "impostoDevol", "total", "transp", "transporta", "veicTransp",
     "reboque", "vol", "lacres", "cobr", "fat", "dup", "pag", "detPag", "card", "infAdic",
     "infRespTec"}

LEMMA DosDemais ==
  ASSUME NEW gs \in SUBSET Conferidas, NEW nome \in Demais
  PROVE  nome \notin gs
  <1>1. nome \notin DosItens
    BY DEF Demais, DosItens, GIcms, GPis, GCofins, GIbs
  <1>2. nome \notin DosTotais
    BY DEF Demais, DosTotais
  <1> QED
    BY <1>1, <1>2 DEF Conferidas

(* A sequence that begins with a group of another name, and one of two.      *)
LEMMA ForaDemais ==
  ASSUME NEW gs \in SUBSET Conferidas, NEW nome \in Demais, NEW filhos
  PROVE  Fora(gs, <<Grupo(nome, filhos)>>)
  BY DosDemais, ForaGrupo

LEMMA ForaPar ==
  ASSUME NEW gs \in SUBSET Conferidas, NEW x \in Demais, NEW y \in Demais, NEW f, NEW h
  PROVE  Fora(gs, <<Grupo(x, f), Grupo(y, h)>>)
  BY DosDemais, ForaDois DEF Grupo

-----------------------------------------------------------------------------
LEMMA ForaEmitente ==
  ASSUME NEW gs \in SUBSET Conferidas, NEW e
  PROVE  Fora(gs, Emitente(e))
  BY ForaPar DEF Emitente, Demais

LEMMA ForaCliente ==
  ASSUME NEW gs \in SUBSET Conferidas, NEW e, NEW soCpf
  PROVE  Fora(gs, Cliente(e, soCpf))
  <1>1. ASSUME NEW f PROVE Fora(gs, <<Grupo("dest", f)>>) /\ Fora(gs, <<Grupo("enderDest", f)>>)
    BY ForaDemais DEF Demais
  <1> QED
    BY <1>1, ForaSe, ForaColada DEF Cliente

LEMMA ForaReferencia ==
  ASSUME NEW gs \in SUBSET Conferidas, NEW r \in TiposDeReferencia
  PROVE  Fora(gs, Referencia(r))
  <1>1. ASSUME NEW f, NEW h
        PROVE  /\ Fora(gs, <<Grupo("NFref", f), Grupo("refNF", h)>>)
               /\ Fora(gs, <<Grupo("NFref", f), Grupo("refNFP", h)>>)
               /\ Fora(gs, <<Grupo("NFref", f)>>)
    BY ForaPar, ForaDemais DEF Demais
  <1> QED
    BY <1>1 DEF Referencia, TiposDeReferencia

LEMMA ForaTransporte ==
  ASSUME NEW gs \in SUBSET Conferidas, NEW n, Len(n.volumes) \in Nat
  PROVE  Fora(gs, Transporte(n))
  <1> DEFINE volumes == IF n.modelo = 55 THEN n.volumes ELSE <<>>
             k == Len(volumes)
             vs == [i \in 1..k |-> Volume(volumes[i])]
  <1>1. k \in Nat
    OBVIOUS
  <1>2. ASSUME NEW f
        PROVE  /\ Fora(gs, <<Grupo("vol", f)>>) /\ Fora(gs, <<Grupo("lacres", f)>>)
               /\ Fora(gs, <<Grupo("transp", f)>>) /\ Fora(gs, <<Grupo("transporta", f)>>)
               /\ Fora(gs, <<Grupo("veicTransp", f)>>) /\ Fora(gs, <<Grupo("reboque", f)>>)
    BY ForaDemais DEF Demais
  <1>3. ASSUME NEW v PROVE Fora(gs, Volume(v))
    BY <1>2, ForaSe, ForaColada DEF Volume
  <1>4. Fora(gs, Sequencias!FlattenSeq(vs))
    <2>1. vs = [i \in 1..k |-> vs[i]] /\ \A i \in 1..k : vs[i] = Volume(volumes[i])
      OBVIOUS
    <2> HIDE DEF vs, k
    <2>2. \A i \in 1..k : Fora(gs, vs[i])
      BY <1>3, <2>1
    <2> QED
      BY <1>1, <2>1, <2>2, ForaJuntas
  <1>5. Fora(gs, <<Transportadora(n.transportadora)>>)
    BY <1>2 DEF Transportadora
  <1> QED
    BY <1>2, <1>4, <1>5, ForaSe, ForaColada DEF Transporte

LEMMA ForaCobranca ==
  ASSUME NEW gs \in SUBSET Conferidas, NEW n, n.duplicatas \in Nat
  PROVE  Fora(gs, Cobranca(n))
  <1> DEFINE dups == [i \in 1..n.duplicatas |->
                        Grupo("dup", <<T("nDup"), T("dVenc"), T("vDup")>>)]
  <1>1. dups = [i \in 1..n.duplicatas |-> dups[i]]
        /\ \A i \in 1..n.duplicatas : dups[i].grupo = "dup"
    BY DEF Grupo
  <1>2. "dup" \notin gs
    BY DosDemais DEF Demais
  <1>3. Fora(gs, dups)
    <2> HIDE DEF dups
    <2> QED
      BY <1>1, <1>2, ForaCada
  <1>4. ASSUME NEW f PROVE Fora(gs, <<Grupo("cobr", f)>>) /\ Fora(gs, <<Grupo("fat", f)>>)
    BY ForaDemais DEF Demais
  <1> QED
    BY <1>3, <1>4, ForaSe, ForaColada DEF Cobranca

LEMMA ForaPagamentos ==
  ASSUME NEW gs \in SUBSET Conferidas, NEW n, Len(n.pagamentos) \in Nat
  PROVE  Fora(gs, Pagamento(n))
  <1>1. ASSUME NEW f, NEW h
        PROVE  /\ Fora(gs, <<Grupo("pag", f), Grupo("detPag", h)>>)
               /\ Fora(gs, <<Grupo("detPag", f), Grupo("card", h)>>)
               /\ Fora(gs, <<Grupo("pag", f)>>) /\ Fora(gs, <<Grupo("detPag", f)>>)
               /\ Fora(gs, <<Grupo("card", f)>>)
    BY ForaPar, ForaDemais DEF Demais
  <1>2. Fora(gs, SemPagamento)
    BY <1>1 DEF SemPagamento
  <1>3. Fora(gs, PagamentoAntigo(n))
    BY <1>1, <1>2, ForaSe, ForaColada DEF PagamentoAntigo
  <1>4. Fora(gs, PagamentosNovos(n))
    <2>1. ASSUME NEW f PROVE Fora(gs, <<Grupo("pag", f), SemPagamento[2]>>)
      BY <1>1 DEF SemPagamento
    <2>2. ASSUME NEW k \in Nat, NEW ss, ss = [i \in 1..k |-> ss[i]],
                 \A i \in 1..k : \/ \E f, h : ss[i] = <<Grupo("detPag", f), Grupo("card", h)>>
                                 \/ \E f : ss[i] = <<Grupo("detPag", f)>>
          PROVE  Fora(gs, Sequencias!FlattenSeq(ss))
      <3>1. \A i \in 1..k : Fora(gs, ss[i])
        BY <1>1, <2>2
      <3> QED
        BY <2>2, <3>1, ForaJuntas
    <2> QED
      BY <1>1, <2>1, <2>2, ForaColada DEF PagamentosNovos
  <1> QED
    BY <1>3, <1>4 DEF Pagamento

LEMMA ForaInf ==
  ASSUME NEW gs \in SUBSET Conferidas, NEW n
  PROVE  Fora(gs, InfAdic(n)) /\ Fora(gs, InfRespTec(n))
  <1>1. ASSUME NEW f
        PROVE  Fora(gs, <<Grupo("infAdic", f)>>) /\ Fora(gs, <<Grupo("infRespTec", f)>>)
    BY ForaDemais DEF Demais
  <1> QED
    BY <1>1, ForaSe DEF InfAdic, InfRespTec

-----------------------------------------------------------------------------
(* The name of the group each tax of an item is written in.                  *)
LEMMA NomesDosTributos ==
  ASSUME NEW it, it.icms \in ModalidadesIcms
  PROVE  ICMS(it).grupo \in GIcms /\ PIS(it).grupo \in GPis /\ COFINS(it).grupo \in GCofins
  <1>1. ICMS(it).grupo \in GIcms
    BY DEF ICMS, Grupo, ModalidadesIcms, GIcms
  <1>2. PIS(it).grupo \in GPis
    BY DEF PIS, Grupo, GPis
  <1>3. COFINS(it).grupo \in GCofins
    BY DEF COFINS, Grupo, GCofins
  <1> QED
    BY <1>1, <1>2, <1>3

(* The parts of an item that have none of the groups gs.                     *)
LEMMA ForaProd ==
  ASSUME NEW gs \in SUBSET Conferidas, NEW it
  PROVE  /\ Fora(gs, DeclaracaoImportacao(it)) /\ Fora(gs, Combustivel(it))
         /\ "prod" \notin gs => Fora(gs, Prod(it))
  <1>1. ASSUME NEW f
        PROVE  /\ Fora(gs, <<Grupo("DI", f)>>) /\ Fora(gs, <<Grupo("adi", f)>>)
               /\ Fora(gs, <<Grupo("comb", f)>>) /\ Fora(gs, <<Grupo("encerrante", f)>>)
    BY ForaDemais DEF Demais
  <1>2. Fora(gs, DeclaracaoImportacao(it))
    BY <1>1, ForaSe, ForaColada DEF DeclaracaoImportacao
  <1>3. Fora(gs, Combustivel(it))
    BY <1>1, ForaSe, ForaColada DEF Combustivel
  <1>4. ASSUME "prod" \notin gs PROVE Fora(gs, Prod(it))
    BY <1>2, <1>3, <1>4, ForaGrupo, ForaSe, ForaColada DEF Prod
  <1> QED
    BY <1>2, <1>3, <1>4

LEMMA ForaTributos ==
  ASSUME NEW gs \in SUBSET Conferidas, NEW it, it.icms \in ModalidadesIcms, NEW f
  PROVE  /\ gs \cap GIcms = {} => Fora(gs, <<Grupo("imposto", f), ICMS(it)>>)
         /\ "IPITrib" \notin gs => Fora(gs, IPI(it))
         /\ "II" \notin gs => Fora(gs, <<II(it)>>)
         /\ gs \cap GPis = {} => Fora(gs, <<PIS(it)>>)
         /\ gs \cap GCofins = {} => Fora(gs, <<COFINS(it)>>)
         /\ gs \cap GIbs = {} => Fora(gs, IBSCBS(it))
  <1>1. "imposto" \notin gs /\ "IPI" \notin gs /\ "IPINT" \notin gs /\ "IBSCBS" \notin gs
    BY DosDemais DEF Demais
  <1>2. ASSUME gs \cap GIcms = {} PROVE Fora(gs, <<Grupo("imposto", f), ICMS(it)>>)
    BY <1>1, <1>2, NomesDosTributos, ForaDois DEF Grupo
  <1>3. ASSUME "IPITrib" \notin gs PROVE Fora(gs, IPI(it))
    <2>1. ASSUME NEW g, NEW h PROVE Fora(gs, <<Grupo("IPI", g), Grupo("IPINT", h)>>)
                                    /\ Fora(gs, <<Grupo("IPI", g), Grupo("IPITrib", h)>>)
      BY <1>1, <1>3, ForaDois DEF Grupo
    <2> QED
      BY <2>1 DEF IPI
  <1>4. ASSUME "II" \notin gs PROVE Fora(gs, <<II(it)>>)
    BY <1>4, ForaGrupo DEF II
  <1>5. ASSUME gs \cap GPis = {} PROVE Fora(gs, <<PIS(it)>>)
    BY <1>5, NomesDosTributos DEF Fora
  <1>6. ASSUME gs \cap GCofins = {} PROVE Fora(gs, <<COFINS(it)>>)
    BY <1>6, NomesDosTributos DEF Fora
  <1>7. ASSUME gs \cap GIbs = {} PROVE Fora(gs, IBSCBS(it))
    <2>1. ASSUME NEW a, NEW b, NEW c, NEW d
          PROVE  Fora(gs, <<Grupo("gIBSCBS", a), Grupo("gIBSUF", b), Grupo("gIBSMun", c),
                            Grupo("gCBS", d)>>)
      BY <1>7 DEF Fora, Grupo, GIbs
    <2> QED
      BY <1>1, <2>1, ForaGrupo, ForaSe, ForaColada DEF IBSCBS
  <1> QED
    BY <1>2, <1>3, <1>4, <1>5, <1>6, <1>7

(* What an item has after its product and its taxes.                         *)
Devolvido(it) ==
    Se(Ha(it, "ipi_valor_ipi_dev"),
       <<Grupo("impostoDevol", <<T("pDevol"), T("IPI")>>),
         Grupo("IPIDevol", <<V("vIPIDevol", it, "ipi_valor_ipi_dev")>>)>>)

LEMMA ForaDevolvido ==
  ASSUME NEW gs \in SUBSET Conferidas, NEW it, "IPIDevol" \notin gs
  PROVE  Fora(gs, Devolvido(it))
  <1>1. ASSUME NEW f, NEW h PROVE Fora(gs, <<Grupo("impostoDevol", f), Grupo("IPIDevol", h)>>)
    <2>1. "impostoDevol" \notin gs
      BY DosDemais DEF Demais
    <2> QED
      BY <2>1, ForaDois DEF Grupo
  <1> QED
    BY <1>1, ForaSe DEF Devolvido

LEMMA ForaDet ==
  ASSUME NEW gs \in SUBSET DosTotais, NEW it, NEW modelo, it.icms \in ModalidadesIcms
  PROVE  Fora(gs, Det(it, modelo))
  <1>1. gs \in SUBSET Conferidas
    BY DEF Conferidas
  <1>2. /\ "prod" \notin gs /\ gs \cap GIcms = {} /\ "IPITrib" \notin gs /\ "II" \notin gs
        /\ gs \cap GPis = {} /\ gs \cap GCofins = {} /\ gs \cap GIbs = {}
        /\ "IPIDevol" \notin gs
    BY DEF DosTotais, GIcms, GPis, GCofins, GIbs
  <1>3. ASSUME NEW f PROVE Fora(gs, <<Grupo("det", f)>>)
    BY <1>1, ForaDemais DEF Demais
  <1>4. ASSUME NEW f PROVE Fora(gs, <<Grupo("imposto", f), ICMS(it)>>)
    BY <1>1, <1>2, ForaTributos
  <1>5. /\ Fora(gs, IPI(it)) /\ Fora(gs, <<II(it)>>) /\ Fora(gs, <<PIS(it)>>)
        /\ Fora(gs, <<COFINS(it)>>) /\ Fora(gs, IBSCBS(it))
    BY <1>1, <1>2, ForaTributos
  <1>6. Fora(gs, Imposto(it, modelo))
    BY <1>4, <1>5, ForaSe, ForaColada DEF Imposto
  <1>7. Fora(gs, Prod(it)) /\ Fora(gs, Devolvido(it))
    BY <1>1, <1>2, ForaProd, ForaDevolvido
  <1> QED
    BY <1>3, <1>6, <1>7, ForaColada DEF Det, Devolvido

LEMMA ForaIBSCBSTot ==
  ASSUME NEW n
  PROVE  Fora({"ICMSTot"}, IBSCBSTot(n))
  <1>1. ASSUME NEW a, NEW b, NEW c
        PROVE  Fora({"ICMSTot"}, <<Grupo("gIBSTot", a), Grupo("gIBSUFTot", b),
                                   Grupo("gIBSMunTot", c)>>)
    BY DEF Fora, Grupo
  <1> QED
    BY <1>1, ForaGrupo, ForaSe, ForaColada DEF IBSCBSTot

(* A sequence of groups of which one is g, and only that one has a name of gs. *)
Unico(gs, s, g) ==
    /\ Len(s) \in Nat
    /\ s = [i \in 1..Len(s) |-> s[i]]
    /\ \E i \in 1..Len(s) :
          s[i] = g /\ \A j \in 1..Len(s) : s[j].grupo \in gs <=> j = i

LEMMA UnicoColada ==
  ASSUME NEW gs, NEW s, NEW t, NEW g, Unico(gs, s, g), Fora(gs, t)
  PROVE  Unico(gs, s \o t, g) /\ Unico(gs, t \o s, g)
  <1> DEFINE X == {s[i] : i \in 1..Len(s)} \union {t[i] : i \in 1..Len(t)}
             u == s \o t
             w == t \o s
             a == Len(s)
             b == Len(t)
  <1>1. s \in Seq(X)
    <2>1. Len(s) \in Nat /\ s = [i \in 1..Len(s) |-> s[i]]
      BY DEF Unico
    <2>2. s \in [1..Len(s) -> X]
      BY <2>1
    <2> QED
      BY <2>1, <2>2
  <1>2. t \in Seq(X)
    BY ForaEm
  <1> HIDE DEF X
  <1>3. /\ u \in Seq(X) /\ Len(u) = a + b
        /\ \A i \in 1..a : u[i] = s[i]
        /\ \A i \in 1..b : u[a + i] = t[i]
    BY <1>1, <1>2, Colada
  <1>4. /\ w \in Seq(X) /\ Len(w) = b + a
        /\ \A i \in 1..b : w[i] = t[i]
        /\ \A i \in 1..a : w[b + i] = s[i]
    BY <1>1, <1>2, Colada
  <1>5. a \in Nat /\ b \in Nat
    BY DEF Unico, Fora
  <1>6. PICK i \in 1..a : s[i] = g /\ \A j \in 1..a : s[j].grupo \in gs <=> j = i
    BY DEF Unico
  <1>7. \A j \in 1..b : t[j].grupo \notin gs
    BY DEF Fora
  <1> HIDE DEF u, w, a, b
  <1>8. Unico(gs, u, g)
    <2>1. u = [j \in 1..Len(u) |-> u[j]] /\ Len(u) \in Nat
      BY <1>3
    <2>2. ASSUME NEW j \in 1..(a + b) PROVE u[j].grupo \in gs <=> j = i
      <3>1. CASE j \in 1..a
        BY <1>3, <1>6, <3>1
      <3>2. CASE j \notin 1..a
        <4>1. j - a \in 1..b /\ a + (j - a) = j
          BY <1>5, <3>2
        <4>2. u[j] = t[j - a]
          BY <1>3, <4>1
        <4> QED
          BY <1>6, <1>7, <3>2, <4>1, <4>2
      <3> QED
        BY <3>1, <3>2
    <2>3. i \in 1..(a + b) /\ u[i] = g
      BY <1>3, <1>5, <1>6
    <2> QED
      BY <1>3, <2>1, <2>2, <2>3 DEF Unico
  <1>9. Unico(gs, w, g)
    <2>1. w = [j \in 1..Len(w) |-> w[j]] /\ Len(w) \in Nat
      BY <1>4
    <2>2. ASSUME NEW j \in 1..(b + a) PROVE w[j].grupo \in gs <=> j = b + i
      <3>1. CASE j \in 1..b
        BY <1>4, <1>5, <1>6, <1>7, <3>1
      <3>2. CASE j \notin 1..b
        <4>1. j - b \in 1..a /\ b + (j - b) = j
          BY <1>5, <3>2
        <4>2. w[j] = s[j - b]
          BY <1>4, <4>1
        <4>3. w[j].grupo \in gs <=> j - b = i
          BY <1>6, <4>1, <4>2
        <4>4. j - b = i <=> j = b + i
          BY <1>5, <1>6, <4>1
        <4> QED
          BY <4>3, <4>4
      <3> QED
        BY <3>1, <3>2
    <2>3. b + i \in 1..(b + a) /\ w[b + i] = g
      BY <1>4, <1>5, <1>6
    <2> QED
      BY <1>4, <2>1, <2>2, <2>3 DEF Unico
  <1> QED
    BY <1>8, <1>9 DEF u, w

LEMMA UnicoTotal ==
  ASSUME NEW n
  PROVE  Unico({"ICMSTot"}, Total(n), ICMSTot(n))
  <1>1. ASSUME NEW f PROVE Unico({"ICMSTot"}, <<Grupo("total", f), ICMSTot(n)>>, ICMSTot(n))
    <2> DEFINE g == ICMSTot(n)
               h == Grupo("total", f)
    <2>1. g.grupo = "ICMSTot" /\ h.grupo # "ICMSTot"
      BY DEF ICMSTot, Grupo
    <2> HIDE DEF g, h
    <2>2. Unico({"ICMSTot"}, <<h, g>>, g)
      BY <2>1 DEF Unico
    <2> QED
      BY <2>2 DEF g, h
  <1> QED
    BY <1>1, ForaIBSCBSTot, ForaSe, UnicoColada DEF Total

(* What the groups of a note ask of it.                                      *)
Legivel(n) ==
    /\ {Len(n.volumes), Len(n.autorizados), Len(n.pagamentos), Len(n.referencias),
        n.duplicatas, Len(n.itens)} \subseteq Nat
    /\ \A i \in 1..Len(n.referencias) : n.referencias[i] \in TiposDeReferencia
    /\ \A i \in 1..Len(n.itens) : n.itens[i].icms \in ModalidadesIcms

Dets(n) == [i \in 1..Len(n.itens) |-> Det(n.itens[i], n.modelo)]

(* What a note has before its items, and after its totals.                   *)
Antes(n, contingencia, soCpf) ==
    <<InfNFe(n), Ide(n, contingencia)>>
      \o Sequencias!FlattenSeq([i \in 1..Len(Referencias(n)) |-> Referencia(Referencias(n)[i])])
      \o Emitente(n.emitente)
      \o Se(ClienteLegivel(n), Cliente(n.cliente, soCpf))
      \o Se("retirada" \in n.tem, <<EntregaRetirada("retirada")>>)
      \o Se("entrega" \in n.tem, <<EntregaRetirada("entrega")>>)
      \o [i \in 1..Len(n.autorizados) |-> AutXML(n.autorizados[i])]

(* The groups whose amounts are compared are all in the items and in the     *)
(* totals: nothing a document has before or after them is one of them.       *)
LEMMA DaNota ==
  ASSUME NEW gs \in SUBSET Conferidas, NEW n, NEW contingencia, NEW soCpf, Legivel(n)
  PROVE  /\ NotaFiscal(n, contingencia, soCpf)
               = Antes(n, contingencia, soCpf) \o Sequencias!FlattenSeq(Dets(n)) \o Total(n)
                   \o Transporte(n) \o Cobranca(n) \o Pagamento(n) \o InfAdic(n)
                   \o InfRespTec(n)
         /\ Fora(gs, Antes(n, contingencia, soCpf)) /\ Fora(gs, Transporte(n))
         /\ Fora(gs, Cobranca(n)) /\ Fora(gs, Pagamento(n)) /\ Fora(gs, InfAdic(n))
         /\ Fora(gs, InfRespTec(n))
  <1> DEFINE rs == [i \in 1..Len(Referencias(n)) |-> Referencia(Referencias(n)[i])]
             as == [i \in 1..Len(n.autorizados) |-> AutXML(n.autorizados[i])]
  <1>1. Fora(gs, Sequencias!FlattenSeq(rs))
    <2> DEFINE k == Len(Referencias(n))
    <2>1. k \in Nat /\ \A i \in 1..k : Referencias(n)[i] \in TiposDeReferencia
      BY DEF Legivel, Referencias
    <2>2. rs = [i \in 1..k |-> rs[i]] /\ \A i \in 1..k : rs[i] = Referencia(Referencias(n)[i])
      OBVIOUS
    <2> HIDE DEF rs, k
    <2>3. \A i \in 1..k : Fora(gs, rs[i])
      BY <2>1, <2>2, ForaReferencia
    <2> QED
      BY <2>1, <2>2, <2>3, ForaJuntas
  <1>2. Fora(gs, as)
    <2>1. as = [i \in 1..Len(n.autorizados) |-> as[i]]
          /\ \A i \in 1..Len(n.autorizados) : as[i].grupo = "autXML"
      BY DEF AutXML, Grupo
    <2>2. Len(n.autorizados) \in Nat
      BY DEF Legivel
    <2>3. "autXML" \notin gs
      BY DosDemais DEF Demais
    <2> HIDE DEF as
    <2> QED
      BY <2>1, <2>2, <2>3, ForaCada
  <1>3. Fora(gs, <<InfNFe(n), Ide(n, contingencia)>>)
    <2>1. ASSUME NEW x, NEW y PROVE Fora(gs, <<Grupo("infNFe", x), Grupo("ide", y)>>)
      BY ForaPar DEF Demais
    <2> QED
      BY <2>1 DEF InfNFe, Ide
  <1>4. Fora(gs, <<EntregaRetirada("retirada")>>) /\ Fora(gs, <<EntregaRetirada("entrega")>>)
    BY ForaDemais DEF EntregaRetirada, Demais
  <1>5. Fora(gs, Emitente(n.emitente)) /\ Fora(gs, Cliente(n.cliente, soCpf))
    BY ForaEmitente, ForaCliente
  <1> HIDE DEF rs, as
  <1> DEFINE a == <<InfNFe(n), Ide(n, contingencia)>>
             b == Sequencias!FlattenSeq(rs)
             c == Emitente(n.emitente)
             d == Se(ClienteLegivel(n), Cliente(n.cliente, soCpf))
             e == Se("retirada" \in n.tem, <<EntregaRetirada("retirada")>>)
             f == Se("entrega" \in n.tem, <<EntregaRetirada("entrega")>>)
             w == a \o b \o c \o d \o e \o f \o as
  <1>6. w = Antes(n, contingencia, soCpf)
    BY DEF Antes, rs, as
  <1>7. NotaFiscal(n, contingencia, soCpf)
          = Antes(n, contingencia, soCpf) \o Sequencias!FlattenSeq(Dets(n)) \o Total(n)
              \o Transporte(n) \o Cobranca(n) \o Pagamento(n) \o InfAdic(n) \o InfRespTec(n)
    BY DEF NotaFiscal, Antes, Dets
  <1>8. Fora(gs, d) /\ Fora(gs, e) /\ Fora(gs, f)
    BY <1>4, <1>5, ForaSe
  <1>9. Fora(gs, a) /\ Fora(gs, b) /\ Fora(gs, c)
    BY <1>1, <1>3, <1>5
  <1>10. /\ Fora(gs, Transporte(n)) /\ Fora(gs, Cobranca(n)) /\ Fora(gs, Pagamento(n))
         /\ Fora(gs, InfAdic(n)) /\ Fora(gs, InfRespTec(n))
    BY ForaTransporte, ForaCobranca, ForaPagamentos, ForaInf DEF Legivel
  <1> HIDE DEF a, b, c, d, e, f
  <1>11. Fora(gs, w)
    <2> DEFINE x == a \o b \o c \o d
    <2>1. Fora(gs, x)
      BY <1>8, <1>9, ForaColada
    <2> HIDE DEF x
    <2>2. Fora(gs, x \o e \o f \o as)
      BY <1>2, <1>8, <2>1, ForaColada
    <2> QED
      BY <2>2 DEF x
  <1> QED
    BY <1>6, <1>7, <1>10, <1>11

LEMMA ForaDets ==
  ASSUME NEW gs \in SUBSET DosTotais, NEW n, Legivel(n)
  PROVE  Fora(gs, Sequencias!FlattenSeq(Dets(n)))
  <1> DEFINE k == Len(n.itens)
             ds == Dets(n)
  <1>1. k \in Nat /\ \A i \in 1..k : n.itens[i].icms \in ModalidadesIcms
    BY DEF Legivel
  <1>2. ds = [i \in 1..k |-> ds[i]] /\ \A i \in 1..k : ds[i] = Det(n.itens[i], n.modelo)
    BY DEF Dets
  <1> HIDE DEF ds, k
  <1>3. \A i \in 1..k : Fora(gs, ds[i])
    BY <1>1, <1>2, ForaDet
  <1>4. Fora(gs, Sequencias!FlattenSeq(ds))
    BY <1>1, <1>2, <1>3, ForaJuntas
  <1> QED
    BY <1>4 DEF ds

LEMMA UnicoNota ==
  ASSUME NEW n, NEW contingencia, NEW soCpf, Legivel(n)
  PROVE  Unico({"ICMSTot"}, NotaFiscal(n, contingencia, soCpf), ICMSTot(n))
  <1> DEFINE gs == {"ICMSTot"}
             h == Sequencias!FlattenSeq(Dets(n))
             s == Total(n)
             x == ICMSTot(n)
  <1>1. gs \in SUBSET DosTotais /\ gs \in SUBSET Conferidas
    BY DEF DosTotais, Conferidas
  <1> DEFINE y == NotaFiscal(n, contingencia, soCpf)
             w == Antes(n, contingencia, soCpf)
             p == Transporte(n)
             q == Cobranca(n)
             r == Pagamento(n)
             t == InfAdic(n)
             u == InfRespTec(n)
  <1>2. /\ y = w \o h \o s \o p \o q \o r \o t \o u
        /\ Fora(gs, w) /\ Fora(gs, p) /\ Fora(gs, q) /\ Fora(gs, r) /\ Fora(gs, t)
        /\ Fora(gs, u)
    BY <1>1, DaNota
  <1>3. Fora(gs, h) /\ Unico(gs, s, x)
    <2>1. Fora(gs, h)
      BY <1>1, ForaDets
    <2>2. Unico(gs, s, x)
      BY UnicoTotal DEF gs
    <2> QED
      BY <2>1, <2>2
  <1> HIDE DEF gs, h, s, x, y, w, p, q, r, t, u
  <1> DEFINE z == w \o h \o s
  <1>5. Unico(gs, z, x)
    BY <1>2, <1>3, ForaColada, UnicoColada
  <1> HIDE DEF z
  <1>6. Unico(gs, z \o p \o q \o r \o t \o u, x)
    BY <1>2, <1>5, UnicoColada
  <1>7. y = z \o p \o q \o r \o t \o u
    BY <1>2 DEF z
  <1> QED
    BY <1>6, <1>7 DEF gs, x, y

-----------------------------------------------------------------------------
(* The totals vNF is composed of and itself, with the element of each.       *)
DoValor ==
    {<<"vProd", "totais_icms_total_produtos_e_servicos">>, <<"vST", "totais_icms_st_total">>,
     <<"vFCPST", "totais_fcp_st">>, <<"vFrete", "totais_icms_total_frete">>,
     <<"vSeg", "totais_icms_total_seguro">>,
     <<"vOutro", "totais_icms_outras_despesas_acessorias">>,
     <<"vII", "totais_icms_total_ii">>, <<"vIPI", "totais_icms_total_ipi">>,
     <<"vIPIDevol", "totais_icms_total_ipi_dev">>, <<"vDesc", "totais_icms_total_desconto">>,
     <<"vICMSDeson", "totais_icms_desonerado">>, <<"vNF", "totais_icms_total_nota">>}

(* Every element that is of one of them states its amount.                   *)
Elemento(e, n) ==
    \A p \in DoValor : e[1] = p[1] => e[2] = 10 * Centavos(Valor(n, p[2]))

Certos(s, n) ==
    /\ Len(s) \in Nat
    /\ s = [i \in 1..Len(s) |-> s[i]]
    /\ \A i \in 1..Len(s) : Elemento(s[i], n)

TemTag(s, tag) == \E i \in 1..Len(s) : s[i][1] = tag

LEMMA ElementoDe ==
  ASSUME NEW n, NEW tag, NEW campo,
         <<tag, campo>> \in DoValor \/ \A p \in DoValor : p[1] # tag
  PROVE  Elemento(V(tag, n, campo), n)
  <1>1. \A p, q \in DoValor : p[1] = q[1] => p[2] = q[2]
    BY DEF DoValor
  <1>2. V(tag, n, campo)[1] = tag /\ V(tag, n, campo)[2] = 10 * Centavos(Valor(n, campo))
    BY DEF V
  <1>3. CASE <<tag, campo>> \in DoValor
    <2> DEFINE q == <<tag, campo>>
    <2>1. q \in DoValor /\ q[1] = tag /\ q[2] = campo
      BY <1>3
    <2> HIDE DEF q
    <2>2. \A p \in DoValor : p[1] = tag => p[2] = campo
      BY <1>1, <2>1
    <2> QED
      BY <1>2, <2>2 DEF Elemento
  <1> QED
    BY <1>2, <1>3 DEF Elemento

LEMMA CertosSe ==
  ASSUME NEW n, NEW tag, NEW campo, \A p \in DoValor : p[1] # tag
  PROVE  Certos(VSe(tag, n, campo), n)
  <1>1. Elemento(V(tag, n, campo), n)
    BY ElementoDe
  <1>2. Certos(<<V(tag, n, campo)>>, n)
    BY <1>1 DEF Certos
  <1>3. Certos(<<>>, n)
    BY DEF Certos
  <1> QED
    BY <1>2, <1>3 DEF VSe, Se

LEMMA CertosColada ==
  ASSUME NEW n, NEW s, NEW t, Certos(s, n), Certos(t, n)
  PROVE  /\ Certos(s \o t, n)
         /\ \A tag : TemTag(s, tag) \/ TemTag(t, tag) => TemTag(s \o t, tag)
  <1> DEFINE X == {s[i] : i \in 1..Len(s)} \union {t[i] : i \in 1..Len(t)}
             u == s \o t
             a == Len(s)
             b == Len(t)
  <1>1. s \in Seq(X) /\ t \in Seq(X) /\ a \in Nat /\ b \in Nat
    <2>1. s \in [1..Len(s) -> X] /\ Len(s) \in Nat
      <3>1. s = [i \in 1..Len(s) |-> s[i]] /\ Len(s) \in Nat /\ \A i \in 1..Len(s) : s[i] \in X
        BY DEF Certos
      <3> HIDE DEF X
      <3> QED
        BY <3>1
    <2>2. t \in [1..Len(t) -> X] /\ Len(t) \in Nat
      <3>1. t = [i \in 1..Len(t) |-> t[i]] /\ Len(t) \in Nat /\ \A i \in 1..Len(t) : t[i] \in X
        BY DEF Certos
      <3> HIDE DEF X
      <3> QED
        BY <3>1
    <2> HIDE DEF X
    <2> QED
      BY <2>1, <2>2
  <1>2. \A e \in X : Elemento(e, n)
    BY DEF Certos
  <1> HIDE DEF X
  <1>3. /\ u \in Seq(X) /\ Len(u) = a + b
        /\ \A i \in 1..a : u[i] = s[i]
        /\ \A i \in 1..b : u[a + i] = t[i]
    BY <1>1, Colada
  <1> HIDE DEF u, a, b
  <1>4. Certos(u, n)
    BY <1>2, <1>3 DEF Certos
  <1>5. ASSUME NEW tag, TemTag(s, tag) PROVE TemTag(u, tag)
    <2>1. PICK i \in 1..a : s[i][1] = tag
      BY <1>5 DEF TemTag, a
    <2>2. i \in 1..(a + b) /\ u[i] = s[i]
      BY <1>1, <1>3
    <2> QED
      BY <1>3, <2>1, <2>2 DEF TemTag
  <1>6. ASSUME NEW tag, TemTag(t, tag) PROVE TemTag(u, tag)
    <2>1. PICK i \in 1..b : t[i][1] = tag
      BY <1>6 DEF TemTag, b
    <2>2. a + i \in 1..(a + b) /\ u[a + i] = t[i]
      BY <1>1, <1>3
    <2> QED
      BY <1>3, <2>1, <2>2 DEF TemTag
  <1> QED
    BY <1>4, <1>5, <1>6 DEF u

(* The ICMSTot states every one of them, and states what the note has.       *)
LEMMA DoICMSTot ==
  ASSUME NEW n
  PROVE  /\ Certos(ICMSTot(n).filhos, n)
         /\ \A p \in DoValor : TemTag(ICMSTot(n).filhos, p[1])
  <1> DEFINE a == <<V("vBC", n, "totais_icms_base_calculo"), V("vICMS", n, "totais_icms_total"),
                    V("vICMSDeson", n, "totais_icms_desonerado")>>
             b == <<V("vFCP", n, "totais_fcp"), V("vBCST", n, "totais_icms_st_base_calculo"),
                    V("vST", n, "totais_icms_st_total"), V("vFCPST", n, "totais_fcp_st"),
                    V("vFCPSTRet", n, "totais_fcp_st_ret")>>
             c == <<V("vProd", n, "totais_icms_total_produtos_e_servicos"),
                    V("vFrete", n, "totais_icms_total_frete"),
                    V("vSeg", n, "totais_icms_total_seguro"),
                    V("vDesc", n, "totais_icms_total_desconto"),
                    V("vII", n, "totais_icms_total_ii"), V("vIPI", n, "totais_icms_total_ipi"),
                    V("vIPIDevol", n, "totais_icms_total_ipi_dev"),
                    V("vPIS", n, "totais_icms_pis"), V("vCOFINS", n, "totais_icms_cofins"),
                    V("vOutro", n, "totais_icms_outras_despesas_acessorias"),
                    V("vNF", n, "totais_icms_total_nota")>>
             d == VSe("vFCPUFDest", n, "totais_fcp_destino")
             e == VSe("vICMSUFDest", n, "totais_icms_inter_destino")
             f == VSe("qBCMono", n, "totais_icms_q_bc_mono")
             g == VSe("vICMSMono", n, "totais_icms_v_icms_mono")
             h == VSe("qBCMonoReten", n, "totais_icms_q_bc_mono_reten")
             i == VSe("vICMSMonoReten", n, "totais_icms_v_icms_mono_reten")
             j == VSe("qBCMonoRet", n, "totais_icms_q_bc_mono_ret")
             k == VSe("vICMSMonoRet", n, "totais_icms_v_icms_mono_ret")
             l == VSe("vTotTrib", n, "totais_tributos_aproximado")
             ate == a \o d \o e \o b
             todos == ate \o f \o g \o h \o i \o j \o k \o c \o l
  <1>1. ICMSTot(n).filhos = todos
    BY DEF ICMSTot, Grupo
  <1>2. Certos(d, n) /\ Certos(e, n) /\ Certos(f, n) /\ Certos(g, n) /\ Certos(h, n)
        /\ Certos(i, n) /\ Certos(j, n) /\ Certos(k, n) /\ Certos(l, n)
    <2>1. ASSUME NEW tag \in {"vFCPUFDest", "vICMSUFDest", "qBCMono", "vICMSMono",
                               "qBCMonoReten", "vICMSMonoReten", "qBCMonoRet",
                               "vICMSMonoRet", "vTotTrib"},
                 NEW campo
          PROVE  Certos(VSe(tag, n, campo), n)
      <3>1. \A p \in DoValor : p[1] # tag
        BY DEF DoValor
      <3> QED
        BY <3>1, CertosSe
    <2> QED
      BY <2>1
  <1>3. Certos(a, n) /\ TemTag(a, "vICMSDeson")
    <2>1. Elemento(a[1], n) /\ Elemento(a[2], n) /\ Elemento(a[3], n)
      BY ElementoDe DEF DoValor
    <2>2. a[3][1] = "vICMSDeson"
      BY DEF V
    <2> QED
      BY <2>1, <2>2 DEF Certos, TemTag
  <1>4. Certos(b, n) /\ TemTag(b, "vST") /\ TemTag(b, "vFCPST")
    <2>1. Elemento(b[1], n) /\ Elemento(b[2], n) /\ Elemento(b[3], n) /\ Elemento(b[4], n)
          /\ Elemento(b[5], n)
      BY ElementoDe DEF DoValor
    <2>2. b[3][1] = "vST" /\ b[4][1] = "vFCPST"
      BY DEF V
    <2> QED
      BY <2>1, <2>2 DEF Certos, TemTag
  <1>5. Certos(c, n) /\ TemTag(c, "vProd") /\ TemTag(c, "vFrete") /\ TemTag(c, "vSeg")
        /\ TemTag(c, "vDesc") /\ TemTag(c, "vII") /\ TemTag(c, "vIPI")
        /\ TemTag(c, "vIPIDevol") /\ TemTag(c, "vOutro") /\ TemTag(c, "vNF")
    <2>1. Elemento(c[1], n) /\ Elemento(c[2], n) /\ Elemento(c[3], n) /\ Elemento(c[4], n)
          /\ Elemento(c[5], n) /\ Elemento(c[6], n) /\ Elemento(c[7], n)
          /\ Elemento(c[8], n) /\ Elemento(c[9], n) /\ Elemento(c[10], n)
          /\ Elemento(c[11], n)
      BY ElementoDe DEF DoValor
    <2>2. c[1][1] = "vProd" /\ c[2][1] = "vFrete" /\ c[3][1] = "vSeg" /\ c[4][1] = "vDesc"
          /\ c[5][1] = "vII" /\ c[6][1] = "vIPI" /\ c[7][1] = "vIPIDevol"
          /\ c[10][1] = "vOutro" /\ c[11][1] = "vNF"
      BY DEF V
    <2>3. Len(c) = 11 /\ c = [x \in 1..11 |-> c[x]]
      OBVIOUS
    <2> HIDE DEF c
    <2>4. Certos(c, n)
      BY <2>1, <2>3 DEF Certos
    <2>5. \A x \in 1..11 : TemTag(c, c[x][1])
      BY <2>3 DEF TemTag
    <2> QED
      BY <2>2, <2>4, <2>5
  <1> HIDE DEF a, b, c, d, e, f, g, h, i, j, k, l
  <1>6. Certos(ate, n) /\ TemTag(ate, "vICMSDeson") /\ TemTag(ate, "vST")
        /\ TemTag(ate, "vFCPST")
    BY <1>2, <1>3, <1>4, CertosColada
  <1> HIDE DEF ate
  <1>7. ASSUME NEW s, Certos(s, n)
        PROVE  /\ Certos(s \o f \o g \o h \o i \o j \o k, n)
               /\ \A tag : TemTag(s, tag) => TemTag(s \o f \o g \o h \o i \o j \o k, tag)
    <2>1. Certos(s \o f \o g \o h, n) /\ \A tag : TemTag(s, tag) => TemTag(s \o f \o g \o h, tag)
      BY <1>2, <1>7, CertosColada
    <2> DEFINE w == s \o f \o g \o h
    <2>2. Certos(w, n) /\ \A tag : TemTag(s, tag) => TemTag(w, tag)
      BY <2>1
    <2> HIDE DEF w
    <2>3. Certos(w \o i \o j \o k, n) /\ \A tag : TemTag(w, tag) => TemTag(w \o i \o j \o k, tag)
      BY <1>2, <2>2, CertosColada
    <2> QED
      BY <2>2, <2>3 DEF w
  <1>8. Certos(todos, n) /\ \A tag : TemTag(ate, tag) \/ TemTag(c, tag) => TemTag(todos, tag)
    <2> DEFINE w == ate \o f \o g \o h \o i \o j \o k
    <2>1. Certos(w, n) /\ \A tag : TemTag(ate, tag) => TemTag(w, tag)
      BY <1>6, <1>7
    <2> HIDE DEF w
    <2>2. Certos(w \o c \o l, n)
          /\ \A tag : TemTag(w, tag) \/ TemTag(c, tag) => TemTag(w \o c \o l, tag)
      BY <1>2, <1>5, <2>1, CertosColada
    <2> QED
      BY <2>1, <2>2 DEF w
  <1> HIDE DEF todos
  <1>9. \A p \in DoValor : TemTag(todos, p[1])
    BY <1>5, <1>6, <1>8 DEF DoValor
  <1> QED
    BY <1>1, <1>8, <1>9

LEMMA DeDeclarado ==
  ASSUME NEW n, NEW p \in DoValor
  PROVE  Declarado(ICMSTot(n), p[1]) = 10 * Centavos(Valor(n, p[2]))
  <1> DEFINE fs == ICMSTot(n).filhos
             i == CHOOSE i \in DOMAIN fs : fs[i][1] = p[1]
  <1>1. Certos(fs, n) /\ TemTag(fs, p[1])
    BY DoICMSTot
  <1>2. Declarado(ICMSTot(n), p[1]) = fs[i][2]
    BY DEF Declarado
  <1> HIDE DEF fs
  <1>3. DOMAIN fs = 1..Len(fs)
    BY <1>1 DEF Certos
  <1>4. i \in DOMAIN fs /\ fs[i][1] = p[1]
    BY <1>1, <1>3 DEF TemTag
  <1> HIDE DEF i
  <1>5. Elemento(fs[i], n)
    BY <1>1, <1>3, <1>4 DEF Certos
  <1> QED
    BY <1>2, <1>4, <1>5 DEF Elemento

(* The rounding of an amount is of half a cent at most.                      *)
LEMMA DeCentavos ==
  ASSUME NEW x \in Int
  PROVE  /\ 10 * Centavos(x) \in Int
         /\ -5 <= 10 * Centavos(x) - x /\ 10 * Centavos(x) - x <= 5
         /\ x % 10 = 0 => 10 * Centavos(x) = x
  <1>1. x = 10 * (x \div 10) + (x % 10) /\ x \div 10 \in Int /\ x % 10 \in 0..9
    OBVIOUS
  <1> DEFINE q == x \div 10
             r == x % 10
  <1>2. Centavos(x) = IF r > 5 \/ (r = 5 /\ q % 2 = 1) THEN q + 1 ELSE q
    BY DEF Centavos
  <1>3. x = 10 * q + r /\ q \in Int /\ r \in 0..9
    BY <1>1
  <1> HIDE DEF q, r
  <1>4. (Centavos(x) = q /\ r <= 5) \/ (Centavos(x) = q + 1 /\ r >= 5)
    BY <1>2, <1>3
  <1> QED
    BY <1>3, <1>4 DEF r

-----------------------------------------------------------------------------
(* A note whose total is what adicionar_produto_servico composes it of.      *)
Somada(n) ==
    /\ \A p \in DoValor : p[2] \in DOMAIN n.v /\ n.v[p[2]] \in Int
    /\ n.v["totais_icms_total_nota"] =
          n.v["totais_icms_total_produtos_e_servicos"] + n.v["totais_icms_st_total"]
            + n.v["totais_fcp_st"] + n.v["totais_icms_total_frete"]
            + n.v["totais_icms_total_seguro"] + n.v["totais_icms_outras_despesas_acessorias"]
            + n.v["totais_icms_total_ii"] + n.v["totais_icms_total_ipi"]
            + n.v["totais_icms_total_ipi_dev"] - n.v["totais_icms_total_desconto"]
            - n.v["totais_icms_desonerado"]

NotaComTotais ==
    \/ nota = Nenhum
    \/ /\ {"existe", "itens", "v", "codigo", "forma"} \subseteq DOMAIN nota
       /\ Existe(nota)
       /\ OpcaoComListas(nota)
       /\ nota.itens \in Seq(Itens)
       /\ Somada(nota)

DocumentoComTotais ==
    Existe(xml) => Somada(xml.nota) /\ Unico({"ICMSTot"}, xml.grupos, ICMSTot(xml.nota))

ValorIInv == NotaComTotais /\ DocumentoComTotais

LEMMA ValorInicio == TransInit => ValorIInv
  BY DEF TransInit, DocInit, ValorIInv, NotaComTotais, DocumentoComTotais, Existe, Nenhum

LEMMA ValorCriar ==
  ASSUME ValorIInv, NEW op \in Opcoes, Criar(op)
  PROVE  ValorIInv'
  <1>1. nota = Nenhum /\ xml' = xml
    BY DEF ValorIInv, NotaComTotais, Criar
  <1>2. DOMAIN Vazia = {"existe", "itens", "v"} /\ Vazia.existe /\ Vazia.itens = <<>>
    BY DEF Vazia
  <1>3. OpcaoComChave(op) /\ OpcaoComListas(op)
    BY OpcoesAssumption
  <1>4. /\ {"existe", "itens", "v", "codigo", "forma", "volumes", "autorizados", "pagamentos",
            "referencias", "duplicatas"} \subseteq DOMAIN nota'
        /\ nota'.existe /\ nota'.itens = <<>> /\ nota'.v = Vazia.v
        /\ nota'.volumes = op.volumes /\ nota'.autorizados = op.autorizados
        /\ nota'.pagamentos = op.pagamentos /\ nota'.referencias = op.referencias
        /\ nota'.duplicatas = op.duplicatas
    BY <1>2, <1>3 DEF Criar, OpcaoComChave, OpcaoComListas
  <1>5. \A c \in DOMAIN Somas \union {"totais_icms_total_nota"} :
           c \in DOMAIN Vazia.v /\ Vazia.v[c] = 0
    BY DEF Vazia
  <1>6. \A p \in DoValor : p[2] \in DOMAIN Somas \union {"totais_icms_total_nota"}
    BY DEF DoValor, Somas
  <1>7. Somada(nota')
    <2>1. \A p \in DoValor : p[2] \in DOMAIN nota'.v /\ nota'.v[p[2]] = 0
      BY <1>4, <1>5, <1>6
    <2> QED
      BY <2>1 DEF Somada, DoValor
  <1>8. OpcaoComListas(nota')
    BY <1>3, <1>4 DEF OpcaoComListas
  <1>9. NotaComTotais'
    BY <1>4, <1>7, <1>8 DEF NotaComTotais, Existe
  <1> QED
    BY <1>1, <1>9 DEF ValorIInv, DocumentoComTotais

LEMMA DeValor ==
  ASSUME NEW it \in Itens, NEW campo
  PROVE  Valor(it, campo) \in Nat
  BY ItensAssumption DEF Valor

LEMMA ValorAdicionar ==
  ASSUME ValorIInv, NEW it \in Itens, AdicionarItem(it)
  PROVE  ValorIInv'
  <1>1. /\ {"existe", "itens", "v", "codigo", "forma"} \subseteq DOMAIN nota
        /\ Existe(nota) /\ OpcaoComListas(nota) /\ nota.itens \in Seq(Itens) /\ Somada(nota)
        /\ xml' = xml
    BY DEF ValorIInv, NotaComTotais, AdicionarItem, Existe, Nenhum
  <1> DEFINE itens == Append(nota.itens, it)
             v == [c \in DOMAIN nota.v |->
                     nota.v[c] + IF c = "totais_icms_total_nota" THEN TotalDaNota(it)
                                 ELSE Valor(it, Somas[c])]
  <1>2. nota' = [nota EXCEPT !.itens = itens, !.v = v]
    BY DEF AdicionarItem
  <1>3. itens \in Seq(Itens)
    BY <1>1, AppendProperties
  <1>4. \A c \in DOMAIN nota.v :
           /\ c \in DOMAIN v
           /\ v[c] = nota.v[c] + IF c = "totais_icms_total_nota" THEN TotalDaNota(it)
                                 ELSE Valor(it, Somas[c])
    OBVIOUS
  <1> HIDE DEF itens, v
  <1>5. /\ DOMAIN nota' = DOMAIN nota /\ nota'.existe = nota.existe
        /\ nota'.itens = itens /\ nota'.v = v
        /\ \A a \in DOMAIN nota \ {"itens", "v"} : nota'[a] = nota[a]
    BY <1>1, <1>2
  <1>6. Somada(nota')
    <2> DEFINE x(campo) == Valor(it, campo)
    <2>1. \A campo : x(campo) \in Nat
      BY DeValor
    <2>2. TotalDaNota(it) =
            x("valor_total_bruto") + x("icms_st_valor") + x("fcp_st_valor") + x("total_frete")
              + x("total_seguro") + x("outras_despesas_acessorias")
              + x("imposto_importacao_valor") + x("ipi_valor_ipi") + x("ipi_valor_ipi_dev")
              - x("desconto") - x("icms_desonerado")
      BY DEF TotalDaNota
    <2> HIDE DEF x
    <2>3. /\ Somas["totais_icms_total_produtos_e_servicos"] = "valor_total_bruto"
          /\ Somas["totais_icms_st_total"] = "icms_st_valor"
          /\ Somas["totais_fcp_st"] = "fcp_st_valor"
          /\ Somas["totais_icms_total_frete"] = "total_frete"
          /\ Somas["totais_icms_total_seguro"] = "total_seguro"
          /\ Somas["totais_icms_outras_despesas_acessorias"] = "outras_despesas_acessorias"
          /\ Somas["totais_icms_total_ii"] = "imposto_importacao_valor"
          /\ Somas["totais_icms_total_ipi"] = "ipi_valor_ipi"
          /\ Somas["totais_icms_total_ipi_dev"] = "ipi_valor_ipi_dev"
          /\ Somas["totais_icms_total_desconto"] = "desconto"
          /\ Somas["totais_icms_desonerado"] = "icms_desonerado"
      BY DEF Somas
    <2>4. \A p \in DoValor : p[2] \in DOMAIN nota.v /\ nota.v[p[2]] \in Int
      BY <1>1 DEF Somada
    <2>5. /\ v["totais_icms_total_produtos_e_servicos"]
               = nota.v["totais_icms_total_produtos_e_servicos"] + x("valor_total_bruto")
          /\ v["totais_icms_st_total"] = nota.v["totais_icms_st_total"] + x("icms_st_valor")
          /\ v["totais_fcp_st"] = nota.v["totais_fcp_st"] + x("fcp_st_valor")
          /\ v["totais_icms_total_frete"] = nota.v["totais_icms_total_frete"] + x("total_frete")
          /\ v["totais_icms_total_seguro"]
               = nota.v["totais_icms_total_seguro"] + x("total_seguro")
          /\ v["totais_icms_outras_despesas_acessorias"]
               = nota.v["totais_icms_outras_despesas_acessorias"] + x("outras_despesas_acessorias")
          /\ v["totais_icms_total_ii"]
               = nota.v["totais_icms_total_ii"] + x("imposto_importacao_valor")
          /\ v["totais_icms_total_ipi"] = nota.v["totais_icms_total_ipi"] + x("ipi_valor_ipi")
          /\ v["totais_icms_total_ipi_dev"]
               = nota.v["totais_icms_total_ipi_dev"] + x("ipi_valor_ipi_dev")
          /\ v["totais_icms_total_desconto"]
               = nota.v["totais_icms_total_desconto"] + x("desconto")
          /\ v["totais_icms_desonerado"]
               = nota.v["totais_icms_desonerado"] + x("icms_desonerado")
          /\ v["totais_icms_total_nota"] = nota.v["totais_icms_total_nota"] + TotalDaNota(it)
      BY <1>4, <2>3, <2>4 DEF x, DoValor
    <2>6. TotalDaNota(it) \in Int
      BY <2>1, <2>2
    <2>7. \A p \in DoValor : p[2] \in DOMAIN v /\ v[p[2]] \in Int
      <3>1. \A p \in DoValor : p[2] \in DOMAIN v
        BY <1>4, <2>4
      <3>2. \A p \in DoValor : v[p[2]] \in Int
        BY <2>1, <2>4, <2>5, <2>6 DEF DoValor
      <3> QED
        BY <3>1, <3>2
    <2>8. v["totais_icms_total_nota"] =
            v["totais_icms_total_produtos_e_servicos"] + v["totais_icms_st_total"]
              + v["totais_fcp_st"] + v["totais_icms_total_frete"]
              + v["totais_icms_total_seguro"] + v["totais_icms_outras_despesas_acessorias"]
              + v["totais_icms_total_ii"] + v["totais_icms_total_ipi"]
              + v["totais_icms_total_ipi_dev"] - v["totais_icms_total_desconto"]
              - v["totais_icms_desonerado"]
      <3> DEFINE a(campo) == nota.v[campo]
      <3>1. \A campo \in {p[2] : p \in DoValor} : a(campo) \in Int
        BY <2>4
      <3>2. /\ a("totais_icms_total_produtos_e_servicos") \in Int
            /\ a("totais_icms_st_total") \in Int
            /\ a("totais_fcp_st") \in Int
            /\ a("totais_icms_total_frete") \in Int
            /\ a("totais_icms_total_seguro") \in Int
            /\ a("totais_icms_outras_despesas_acessorias") \in Int
            /\ a("totais_icms_total_ii") \in Int
            /\ a("totais_icms_total_ipi") \in Int
            /\ a("totais_icms_total_ipi_dev") \in Int
            /\ a("totais_icms_total_desconto") \in Int
            /\ a("totais_icms_desonerado") \in Int
            /\ a("totais_icms_total_nota") \in Int
        BY <3>1 DEF DoValor
      <3>3. a("totais_icms_total_nota") =
              a("totais_icms_total_produtos_e_servicos") + a("totais_icms_st_total")
                + a("totais_fcp_st") + a("totais_icms_total_frete")
                + a("totais_icms_total_seguro") + a("totais_icms_outras_despesas_acessorias")
                + a("totais_icms_total_ii") + a("totais_icms_total_ipi")
                + a("totais_icms_total_ipi_dev") - a("totais_icms_total_desconto")
                - a("totais_icms_desonerado")
        BY <1>1 DEF Somada
      <3> HIDE DEF a
      <3> QED
        BY <2>1, <2>2, <2>5, <3>2, <3>3 DEF a
    <2> QED
      BY <1>5, <2>7, <2>8 DEF Somada
  <1>7. OpcaoComListas(nota')
    BY <1>1, <1>5 DEF OpcaoComListas
  <1>8. NotaComTotais'
    BY <1>1, <1>3, <1>5, <1>6, <1>7 DEF NotaComTotais, Existe
  <1> QED
    BY <1>1, <1>8 DEF ValorIInv, DocumentoComTotais

LEMMA ValorExportar ==
  ASSUME ValorIInv, NEW s \in Serializadores, Exportar(s)
  PROVE  ValorIInv'
  <1>1. /\ {"existe", "itens", "v", "codigo", "forma"} \subseteq DOMAIN nota
        /\ Existe(nota) /\ OpcaoComListas(nota) /\ nota.itens \in Seq(Itens) /\ Somada(nota)
    BY DEF ValorIInv, NotaComTotais, Exportar, Existe, Nenhum
  <1>2. PICK codigo \in CodigosDa(nota) :
           \/ FalhaNoInicio(nota) /\ nota' = [nota EXCEPT !.codigo = codigo] /\ xml' = xml
           \/ /\ ~FalhaNoInicio(nota)
              /\ nota' = Preparada(nota, codigo, s)
              /\ xml' = IF FalhaNoMeio(nota) THEN xml ELSE Escrito(nota, codigo, s)
    BY DEF Exportar
  <1>3. /\ DOMAIN nota' = DOMAIN nota
        /\ \A a \in DOMAIN nota \ {"codigo", "forma"} : nota'[a] = nota[a]
    BY <1>1, <1>2 DEF Preparada
  <1>4. NotaComTotais'
    <2>1. nota'.existe = nota.existe /\ nota'.itens = nota.itens /\ nota'.v = nota.v
      BY <1>1, <1>3
    <2>2. Somada(nota')
      BY <1>1, <2>1 DEF Somada
    <2>3. OpcaoComListas(nota')
      BY <1>1, <1>3 DEF OpcaoComListas
    <2> QED
      BY <1>1, <1>3, <2>1, <2>2, <2>3 DEF NotaComTotais, Existe
  <1>5. CASE xml' = xml
    BY <1>4, <1>5 DEF ValorIInv, DocumentoComTotais
  <1>6. CASE ~FalhaNoMeio(nota) /\ xml' = Escrito(nota, codigo, s)
    <2>1. Legivel(nota)
      <3>1. Len(nota.itens) \in Nat /\ DOMAIN nota.itens = 1..Len(nota.itens)
        BY <1>1
      <3>2. \A i \in DOMAIN nota.itens : nota.itens[i].icms \in ModalidadesIcms
        BY <1>6 DEF FalhaNoMeio
      <3> QED
        BY <1>1, <3>1, <3>2 DEF Legivel, OpcaoComListas
    <2>2. xml'.nota = nota /\ xml'.grupos = NotaFiscal(nota, s.contingencia, s.soCpf)
      BY <1>6 DEF Escrito
    <2>3. Unico({"ICMSTot"}, xml'.grupos, ICMSTot(xml'.nota))
      BY <2>1, <2>2, UnicoNota
    <2> QED
      BY <1>1, <1>4, <2>2, <2>3 DEF ValorIInv, DocumentoComTotais
  <1> QED
    BY <1>2, <1>5, <1>6

LEMMA ValorPasso ==
  ASSUME ValorIInv, [TransNext]_<<docVars, endVars>>
  PROVE  ValorIInv'
  <1>1. CASE UNCHANGED docVars
    BY <1>1 DEF docVars, ValorIInv, NotaComTotais, DocumentoComTotais
  <1>2. CASE DocNext
    BY <1>2, ValorCriar, ValorAdicionar, ValorExportar DEF DocNext
  <1> QED
    BY <1>1, <1>2 DEF TransNext

LEMMA ValorInv == TransSpec => []ValorIInv
  BY ValorInicio, ValorPasso, PTL DEF TransSpec

(* For every note and every item, the vNF of the document is what the other  *)
(* totals it states compose it of, but for the rounding of each of them      *)
(* (notafiscal.py:443-504, serializacao.py:1666-1743).                       *)
THEOREM ValorDaNotaTeorema == TransSpec => []ValorDaNota
  <1>1. ValorIInv => ValorDaNota
    <2> SUFFICES ASSUME ValorIInv, Existe(xml)
                 PROVE  ValorDaNota
      BY DEF ValorDaNota
    <2> DEFINE n == xml.nota
               g == ICMSTot(n)
               d(tag) == Declarado(g, tag)
               a(campo) == n.v[campo]
    <2>1. Somada(n) /\ Unico({"ICMSTot"}, xml.grupos, g)
      BY DEF ValorIInv, DocumentoComTotais
    <2> DEFINE e == IF {c \in DOMAIN n.v : n.v[c] % 10 = 0} = DOMAIN n.v THEN 0 ELSE 5
    <2>2. \A p \in DoValor :
             /\ a(p[2]) \in Int /\ d(p[1]) \in Int
             /\ -e <= d(p[1]) - a(p[2]) /\ d(p[1]) - a(p[2]) <= e
      <3> TAKE p \in DoValor
      <3>1. /\ a(p[2]) \in Int /\ Valor(n, p[2]) = a(p[2])
            /\ {c \in DOMAIN n.v : n.v[c] % 10 = 0} = DOMAIN n.v => a(p[2]) % 10 = 0
        BY <2>1 DEF Somada, Valor
      <3>2. d(p[1]) = 10 * Centavos(Valor(n, p[2]))
        BY DeDeclarado
      <3> HIDE DEF d, a
      <3>3. /\ d(p[1]) \in Int
            /\ -5 <= d(p[1]) - a(p[2]) /\ d(p[1]) - a(p[2]) <= 5
            /\ a(p[2]) % 10 = 0 => d(p[1]) = a(p[2])
        BY <3>1, <3>2, DeCentavos
      <3>4. CASE {c \in DOMAIN n.v : n.v[c] % 10 = 0} = DOMAIN n.v
        <4>1. e = 0
          BY <3>4
        <4>2. d(p[1]) = a(p[2])
          BY <3>1, <3>3, <3>4
        <4> HIDE DEF e
        <4> QED
          BY <3>1, <3>3, <4>1, <4>2
      <3>5. CASE {c \in DOMAIN n.v : n.v[c] % 10 = 0} # DOMAIN n.v
        <4>1. e = 5
          BY <3>5
        <4> HIDE DEF e
        <4> QED
          BY <3>1, <3>3, <4>1
      <3> QED
        BY <3>4, <3>5
    <2>3. PICK i \in 1..Len(xml.grupos) :
             /\ xml.grupos[i] = g
             /\ \A j \in 1..Len(xml.grupos) : xml.grupos[j].grupo = "ICMSTot" <=> j = i
      BY <2>1 DEF Unico
    <2>4. DOMAIN xml.grupos = 1..Len(xml.grupos)
      BY <2>1 DEF Unico
    <2>5. {j \in DOMAIN xml.grupos : xml.grupos[j].grupo = "ICMSTot"} = {i}
      BY <2>3, <2>4
    <2> DEFINE dif == d("vProd") + d("vST") + d("vFCPST") + d("vFrete") + d("vSeg")
                        + d("vOutro") + d("vII") + d("vIPI") + d("vIPIDevol")
                        - d("vDesc") - d("vICMSDeson") - d("vNF")
    <2>6. a("totais_icms_total_nota") =
            a("totais_icms_total_produtos_e_servicos") + a("totais_icms_st_total")
              + a("totais_fcp_st") + a("totais_icms_total_frete")
              + a("totais_icms_total_seguro") + a("totais_icms_outras_despesas_acessorias")
              + a("totais_icms_total_ii") + a("totais_icms_total_ipi")
              + a("totais_icms_total_ipi_dev") - a("totais_icms_total_desconto")
              - a("totais_icms_desonerado")
      BY <2>1 DEF Somada
    <2> HIDE DEF d, a
    <2>7. e \in {0, 5}
      OBVIOUS
    <2> HIDE DEF e
    <2>8. /\ \A p \in DoValor : a(p[2]) \in Int
          /\ \A p \in DoValor : d(p[1]) \in Int
          /\ \A p \in DoValor : -e <= d(p[1]) - a(p[2])
          /\ \A p \in DoValor : d(p[1]) - a(p[2]) <= e
      BY <2>2
    <2> DEFINE a1 == a("totais_icms_total_produtos_e_servicos")
               a2 == a("totais_icms_st_total")
               a3 == a("totais_fcp_st")
               a4 == a("totais_icms_total_frete")
               a5 == a("totais_icms_total_seguro")
               a6 == a("totais_icms_outras_despesas_acessorias")
               a7 == a("totais_icms_total_ii")
               a8 == a("totais_icms_total_ipi")
               a9 == a("totais_icms_total_ipi_dev")
               a10 == a("totais_icms_total_desconto")
               a11 == a("totais_icms_desonerado")
               a12 == a("totais_icms_total_nota")
               d1 == d("vProd")
               d2 == d("vST")
               d3 == d("vFCPST")
               d4 == d("vFrete")
               d5 == d("vSeg")
               d6 == d("vOutro")
               d7 == d("vII")
               d8 == d("vIPI")
               d9 == d("vIPIDevol")
               d10 == d("vDesc")
               d11 == d("vICMSDeson")
               d12 == d("vNF")
    <2>9. /\ a1 \in Int /\ d1 \in Int
          /\ a2 \in Int /\ d2 \in Int
          /\ a3 \in Int /\ d3 \in Int
          /\ a4 \in Int /\ d4 \in Int
          /\ a5 \in Int /\ d5 \in Int
          /\ a6 \in Int /\ d6 \in Int
          /\ a7 \in Int /\ d7 \in Int
          /\ a8 \in Int /\ d8 \in Int
          /\ a9 \in Int /\ d9 \in Int
          /\ a10 \in Int /\ d10 \in Int
          /\ a11 \in Int /\ d11 \in Int
          /\ a12 \in Int /\ d12 \in Int
      BY <2>8 DEF DoValor
    <2>10. /\ -e <= d1 - a1
           /\ -e <= d2 - a2
           /\ -e <= d3 - a3
           /\ -e <= d4 - a4
           /\ -e <= d5 - a5
           /\ -e <= d6 - a6
           /\ -e <= d7 - a7
           /\ -e <= d8 - a8
           /\ -e <= d9 - a9
           /\ -e <= d10 - a10
           /\ -e <= d11 - a11
           /\ -e <= d12 - a12
      BY <2>8 DEF DoValor
    <2>11. /\ d1 - a1 <= e
           /\ d2 - a2 <= e
           /\ d3 - a3 <= e
           /\ d4 - a4 <= e
           /\ d5 - a5 <= e
           /\ d6 - a6 <= e
           /\ d7 - a7 <= e
           /\ d8 - a8 <= e
           /\ d9 - a9 <= e
           /\ d10 - a10 <= e
           /\ d11 - a11 <= e
           /\ d12 - a12 <= e
      BY <2>8 DEF DoValor
    <2>12. dif = d1 + d2 + d3 + d4 + d5 + d6 + d7 + d8 + d9 - d10 - d11 - d12
           /\ a12 = a1 + a2 + a3 + a4 + a5 + a6 + a7 + a8 + a9 - a10 - a11
      BY <2>6
    <2> HIDE DEF dif, a1, a2, a3, a4, a5, a6, a7, a8, a9, a10, a11, a12,
                 d1, d2, d3, d4, d5, d6, d7, d8, d9, d10, d11, d12
    <2>13. dif \in -(12 * e)..(12 * e)
      BY <2>7, <2>9, <2>10, <2>11, <2>12
    <2>14. dif \in -60..60 /\ (e = 0 => dif = 0)
      BY <2>7, <2>13
    <2>15. {c \in DOMAIN n.v : n.v[c] % 10 = 0} = DOMAIN n.v => e = 0
      BY DEF e
    <2> QED
      <3> DEFINE tot == {j \in DOMAIN xml.grupos : xml.grupos[j].grupo = "ICMSTot"}
                 c(k, tag) == Declarado(xml.grupos[k], tag)
                 soma(k) == c(k, "vProd") + c(k, "vST") + c(k, "vFCPST") + c(k, "vFrete")
                              + c(k, "vSeg") + c(k, "vOutro") + c(k, "vII") + c(k, "vIPI")
                              + c(k, "vIPIDevol") - c(k, "vDesc") - c(k, "vICMSDeson")
                              - c(k, "vNF")
      <3>1. i \in tot /\ tot = {i}
        BY <2>5
      <3>2. soma(i) = dif
        BY <2>3 DEF d, dif
      <3> HIDE DEF tot
      <3>3. ValorDaNota <=>
              \E k \in tot : /\ tot = {k}
                             /\ soma(k) \in -60..60
                             /\ {x \in DOMAIN n.v : n.v[x] % 10 = 0} = DOMAIN n.v => soma(k) = 0
        BY DEF ValorDaNota, tot
      <3> HIDE DEF soma
      <3> QED
        BY <2>14, <2>15, <3>1, <3>2, <3>3
  <1> QED
    BY <1>1, ValorInv, PTL
-----------------------------------------------------------------------------
(* Sums.  A sequence of n amounts.                                           *)
Naturais(q, n) == q = [i \in 1..n |-> q[i]] /\ \A i \in 1..n : q[i] \in Nat

(* The sum is the last of the partial ones, whatever way they are found.     *)
LEMMA DoSomatorio ==
  ASSUME NEW n \in Nat, NEW q, Naturais(q, n), NEW g, Parcial(q, g, n)
  PROVE  Somatorio(q) = g[n] /\ Somatorio(q) \in Nat
  <1> DEFINE D(f) == [i \in 0..n |-> IF i = 0 THEN 0 ELSE f[i - 1] + q[i]]
             soma == CHOOSE f : f = D(f)
  <1>1. Len(q) = n
    BY DEF Naturais
  <1>2. Somatorio(q) = soma[n]
    BY <1>1 DEF Somatorio
  <1>3. g = D(g)
    BY DEF Parcial
  <1>4. soma = D(soma)
    <2> HIDE DEF D
    <2> QED
      BY <1>3
  <1> HIDE DEF soma
  <1>5. soma[0] = 0 /\ \A i \in 1..n : soma[i] = soma[i - 1] + q[i]
    BY <1>4
  <1> HIDE DEF D
  <1> DEFINE X == {i \in 0..n : soma[i] # g[i]}
  <1>6. X = {}
    <2>1. SUFFICES ASSUME X # {} PROVE FALSE
      OBVIOUS
    <2>2. PICK m \in X : \A k \in X : m <= k
      <3>1. X \in SUBSET Nat
        OBVIOUS
      <3> HIDE DEF X
      <3> QED
        BY <2>1, <3>1, Minimo
    <2>3. m \in 0..n /\ soma[m] # g[m]
      OBVIOUS
    <2>4. m \in 1..n
      BY <1>5, <2>3 DEF Parcial
    <2>5. m - 1 \in 0..n /\ soma[m - 1] = g[m - 1]
      BY <2>2, <2>4
    <2> QED
      BY <1>5, <2>3, <2>4, <2>5 DEF Parcial
  <1>7. n \in 0..n
    OBVIOUS
  <1> QED
    BY <1>2, <1>6, <1>7 DEF Parcial

LEMMA HaParcial ==
  ASSUME NEW n \in Nat, NEW q, Naturais(q, n)
  PROVE  \E g : Parcial(q, g, n)
  <1>1. q \in [1..n -> Nat] /\ n \in 0..n
    BY DEF Naturais
  <1> QED
    BY <1>1, DaParcial

LEMMA SomatorioNatural ==
  ASSUME NEW n \in Nat, NEW q, Naturais(q, n)
  PROVE  Somatorio(q) \in Nat
  BY HaParcial, DoSomatorio

LEMMA SomatorioNulo ==
  ASSUME NEW n \in Nat, NEW q, q = [i \in 1..n |-> q[i]], \A i \in 1..n : q[i] = 0
  PROVE  Somatorio(q) = 0
  <1> DEFINE g == [i \in 0..n |-> 0]
  <1>1. Parcial(q, g, n) /\ g[n] = 0
    BY DEF Parcial
  <1>2. Naturais(q, n)
    BY DEF Naturais
  <1> HIDE DEF g
  <1> QED
    BY <1>1, <1>2, DoSomatorio

LEMMA SomatorioUnico ==
  ASSUME NEW n \in Nat, NEW q, q = [i \in 1..n |-> q[i]], NEW k \in 1..n, q[k] \in Nat,
         \A i \in 1..n : i # k => q[i] = 0
  PROVE  Somatorio(q) = q[k]
  <1> DEFINE g == [i \in 0..n |-> IF i < k THEN 0 ELSE q[k]]
  <1>1. Parcial(q, g, n) /\ g[n] = q[k]
    <2>1. g \in [0..n -> Nat] /\ g[0] = 0 /\ g[n] = q[k]
      OBVIOUS
    <2>2. ASSUME NEW i \in 1..n PROVE g[i] = g[i - 1] + q[i]
      <3>1. i - 1 \in 0..n /\ i \in 0..n
        OBVIOUS
      <3>2. CASE i < k
        BY <3>1, <3>2
      <3>3. CASE i = k
        BY <3>1, <3>3
      <3>4. CASE i > k
        BY <3>1, <3>4
      <3> QED
        BY <3>2, <3>3, <3>4
    <2> QED
      BY <2>1, <2>2 DEF Parcial
  <1>2. Naturais(q, n)
    BY DEF Naturais
  <1> HIDE DEF g
  <1> QED
    BY <1>1, <1>2, DoSomatorio

(* The n amounts of p, and then the m of q.                                   *)
Seguidas(p, n, q, m, r) ==
    /\ r = [i \in 1..(n + m) |-> r[i]]
    /\ \A i \in 1..n : r[i] = p[i]
    /\ \A i \in 1..m : r[n + i] = q[i]

LEMMA SomatorioColada ==
  ASSUME NEW n \in Nat, NEW m \in Nat, NEW p, NEW q, NEW r,
         Naturais(p, n), Naturais(q, m), Seguidas(p, n, q, m, r)
  PROVE  Naturais(r, n + m) /\ Somatorio(r) = Somatorio(p) + Somatorio(q)
  <1>0. /\ r = [i \in 1..(n + m) |-> r[i]]
        /\ \A i \in 1..n : r[i] = p[i]
        /\ \A i \in 1..m : r[n + i] = q[i]
    BY DEF Seguidas
  <1>1. PICK g : Parcial(p, g, n)
    BY HaParcial
  <1>2. PICK h : Parcial(q, h, m)
    BY HaParcial
  <1> DEFINE f == [i \in 0..(n + m) |-> IF i <= n THEN g[i] ELSE g[n] + h[i - n]]
  <1>3. \A i \in 0..n : f[i] = g[i]
    OBVIOUS
  <1>4. \A i \in 0..m : f[n + i] = g[n] + h[i]
    <2> TAKE i \in 0..m
    <2>1. n + i \in 0..(n + m) /\ (n + i) - n = i /\ (n + i <= n <=> i = 0)
      OBVIOUS
    <2>2. h[0] = 0 /\ g[n] \in Nat
      BY <1>1, <1>2 DEF Parcial
    <2>3. ASSUME NEW k \in 0..(n + m) PROVE f[k] = IF k <= n THEN g[k] ELSE g[n] + h[k - n]
      OBVIOUS
    <2> HIDE DEF f
    <2>4. CASE i = 0
      <3>1. n + 0 \in 0..(n + m) /\ n + 0 = n /\ n <= n
        OBVIOUS
      <3> QED
        BY <2>2, <2>3, <2>4, <3>1
    <2>5. CASE i # 0
      BY <2>1, <2>3, <2>5
    <2> QED
      BY <2>4, <2>5
  <1>5. f = [i \in 0..(n + m) |-> f[i]]
    OBVIOUS
  <1> HIDE DEF f
  <1>6. ASSUME NEW i \in 1..(n + m)
        PROVE  f[i] \in Nat /\ f[i] = f[i - 1] + r[i] /\ r[i] \in Nat
    <2>1. CASE i \in 1..n
      <3>1. i - 1 \in 0..n /\ i \in 0..n
        BY <2>1
      <3> QED
        BY <1>0, <1>1, <1>3, <2>1, <3>1 DEF Parcial, Naturais
    <2>2. CASE i \notin 1..n
      <3> DEFINE j == i - n
      <3>1. j \in 1..m /\ j - 1 \in 0..m /\ j \in 0..m /\ i = n + j /\ i - 1 = n + (j - 1)
        BY <2>2
      <3> HIDE DEF j
      <3>2. g[n] \in Nat /\ h[j] \in Nat /\ h[j - 1] \in Nat /\ h[j] = h[j - 1] + q[j]
            /\ q[j] \in Nat
        BY <1>1, <1>2, <3>1 DEF Parcial, Naturais
      <3>3. f[i] = g[n] + h[j] /\ f[i - 1] = g[n] + h[j - 1] /\ r[i] = q[j]
        BY <1>0, <1>4, <3>1
      <3> QED
        BY <3>2, <3>3
    <2> QED
      BY <2>1, <2>2
  <1>7. f[0] = 0
    BY <1>1, <1>3 DEF Parcial
  <1>8. Parcial(r, f, n + m) /\ Naturais(r, n + m)
    <2> DEFINE k == n + m
    <2>1. k \in Nat
      OBVIOUS
    <2>2. f = [i \in 0..k |-> f[i]] /\ r = [i \in 1..k |-> r[i]]
      BY <1>0, <1>5
    <2>3. \A i \in 1..k : f[i] \in Nat /\ f[i] = f[i - 1] + r[i] /\ r[i] \in Nat
      BY <1>6
    <2> HIDE DEF k
    <2>4. ASSUME NEW i \in 0..k PROVE f[i] \in Nat
      <3>1. CASE i = 0
        BY <1>7, <3>1
      <3>2. CASE i # 0
        <4>1. i \in 1..k
          BY <2>1, <3>2
        <4> QED
          BY <2>3, <4>1
      <3> QED
        BY <3>1, <3>2
    <2>5. f \in [0..k -> Nat]
      BY <2>2, <2>4
    <2>6. Parcial(r, f, k)
      BY <1>7, <2>3, <2>5 DEF Parcial
    <2>7. Naturais(r, k)
      BY <2>2, <2>3 DEF Naturais
    <2> QED
      BY <2>6, <2>7 DEF k
  <1>9. f[n + m] = g[n] + h[m]
    BY <1>4
  <1>10. Somatorio(p) = g[n] /\ Somatorio(q) = h[m]
    BY <1>1, <1>2, DoSomatorio
  <1>11. Somatorio(r) = f[n + m]
    BY <1>8, DoSomatorio
  <1> QED
    BY <1>8, <1>9, <1>10, <1>11

(* Amounts that differ by 5 at most one by one differ by 5 * n at most in    *)
(* all.                                                                      *)
LEMMA SomatorioProximo ==
  ASSUME NEW n \in Nat, NEW p, NEW q, NEW r, Naturais(p, n), Naturais(q, n), Naturais(r, n),
         \A i \in 1..n : -5 <= p[i] + q[i] - r[i] /\ p[i] + q[i] - r[i] <= 5
  PROVE  LET d == Somatorio(p) + Somatorio(q) - Somatorio(r) IN -(5 * n) <= d /\ d <= 5 * n
  <1>1. PICK f : Parcial(p, f, n)
    BY HaParcial
  <1>2. PICK g : Parcial(q, g, n)
    BY HaParcial
  <1>3. PICK h : Parcial(r, h, n)
    BY HaParcial
  <1> DEFINE X == {i \in 0..n : ~(-(5 * i) <= f[i] + g[i] - h[i]
                                    /\ f[i] + g[i] - h[i] <= 5 * i)}
  <1>4. X = {}
    <2>1. SUFFICES ASSUME X # {} PROVE FALSE
      OBVIOUS
    <2>2. PICK m \in X : \A k \in X : m <= k
      <3>1. X \in SUBSET Nat
        OBVIOUS
      <3> HIDE DEF X
      <3> QED
        BY <2>1, <3>1, Minimo
    <2>3. m \in 0..n /\ ~(-(5 * m) <= f[m] + g[m] - h[m] /\ f[m] + g[m] - h[m] <= 5 * m)
      OBVIOUS
    <2>4. m \in 1..n
      BY <1>1, <1>2, <1>3, <2>3 DEF Parcial
    <2>5. m - 1 \in 0..n /\ m - 1 \notin X
      BY <2>2, <2>4
    <2> DEFINE k == m - 1
    <2>6. -(5 * k) <= f[k] + g[k] - h[k] /\ f[k] + g[k] - h[k] <= 5 * k
      BY <2>5
    <2>7. /\ f[m] = f[k] + p[m] /\ g[m] = g[k] + q[m] /\ h[m] = h[k] + r[m]
          /\ f[k] \in Nat /\ g[k] \in Nat /\ h[k] \in Nat
          /\ p[m] \in Nat /\ q[m] \in Nat /\ r[m] \in Nat
      BY <1>1, <1>2, <1>3, <2>4, <2>5 DEF Parcial, Naturais
    <2>8. m = k + 1 /\ k \in Int
      BY <2>4
    <2>9. -5 <= p[m] + q[m] - r[m] /\ p[m] + q[m] - r[m] <= 5
      BY <2>4
    <2> HIDE DEF X, k
    <2> QED
      BY <2>3, <2>6, <2>7, <2>8, <2>9
  <1>5. n \in 0..n /\ n \notin X
    BY <1>4
  <1>6. Somatorio(p) = f[n] /\ Somatorio(q) = g[n] /\ Somatorio(r) = h[n]
    BY <1>1, <1>2, <1>3, DoSomatorio
  <1> QED
    BY <1>5, <1>6

-----------------------------------------------------------------------------
(* What the elements of a sequence say.  m gives the tags that are compared, *)
(* with the amount of the entity each one states; K has those of them the    *)
(* sequence does have.                                                       *)
Sequencia(s) == Len(s) \in Nat /\ s = [i \in 1..Len(s) |-> s[i]]

Certo(y, x) == y \in Nat /\ -5 <= y - x /\ y - x <= 5

Parte(s, tag) == [i \in 1..Len(s) |-> IF s[i][1] = tag THEN s[i][2] ELSE 0]

Diz(it, m, s, K) ==
    /\ Sequencia(s)
    /\ \A tag \in DOMAIN m :
          /\ Naturais(Parte(s, tag), Len(s))
          /\ tag \in K => Certo(SomaDosElementos(s, tag), Valor(it, m[tag]))
          /\ tag \notin K => SomaDosElementos(s, tag) = 0

Natural(it, m) == \A tag \in DOMAIN m : Valor(it, m[tag]) \in Nat

LEMMA SequenciaColada ==
  ASSUME NEW s, NEW t, Sequencia(s), Sequencia(t)
  PROVE  /\ Sequencia(s \o t) /\ Len(s \o t) = Len(s) + Len(t)
         /\ \A i \in 1..Len(s) : (s \o t)[i] = s[i]
         /\ \A i \in 1..Len(t) : (s \o t)[Len(s) + i] = t[i]
  <1> DEFINE X == {s[i] : i \in 1..Len(s)} \union {t[i] : i \in 1..Len(t)}
             u == s \o t
  <1>1. s \in Seq(X)
    <2>1. s \in [1..Len(s) -> X] /\ Len(s) \in Nat
      BY DEF Sequencia
    <2> QED
      BY <2>1
  <1>2. t \in Seq(X)
    <2>1. t \in [1..Len(t) -> X] /\ Len(t) \in Nat
      BY DEF Sequencia
    <2> QED
      BY <2>1
  <1> HIDE DEF X
  <1>3. /\ u \in Seq(X) /\ Len(u) = Len(s) + Len(t)
        /\ \A i \in 1..Len(s) : u[i] = s[i]
        /\ \A i \in 1..Len(t) : u[Len(s) + i] = t[i]
    BY <1>1, <1>2, Colada
  <1> HIDE DEF u
  <1>4. Sequencia(u)
    BY <1>3 DEF Sequencia
  <1> QED
    BY <1>3, <1>4 DEF u

LEMMA SomaColada ==
  ASSUME NEW s, NEW t, NEW tag, Sequencia(s), Sequencia(t),
         Naturais(Parte(s, tag), Len(s)), Naturais(Parte(t, tag), Len(t))
  PROVE  /\ Naturais(Parte(s \o t, tag), Len(s \o t))
         /\ SomaDosElementos(s \o t, tag) = SomaDosElementos(s, tag) + SomaDosElementos(t, tag)
  <1> DEFINE u == s \o t
             n == Len(s)
             k == Len(t)
             p == Parte(s, tag)
             q == Parte(t, tag)
             r == Parte(u, tag)
  <1>1. /\ Sequencia(u) /\ Len(u) = n + k
        /\ \A i \in 1..n : u[i] = s[i]
        /\ \A i \in 1..k : u[n + i] = t[i]
    BY SequenciaColada
  <1>2. n \in Nat /\ k \in Nat
    BY DEF Sequencia
  <1>3. SomaDosElementos(s, tag) = Somatorio(p) /\ SomaDosElementos(t, tag) = Somatorio(q)
        /\ SomaDosElementos(u, tag) = Somatorio(r)
    BY DEF SomaDosElementos, Parte
  <1>4. \A i \in 1..n : p[i] = IF s[i][1] = tag THEN s[i][2] ELSE 0
    BY DEF Parte
  <1>5. \A i \in 1..k : q[i] = IF t[i][1] = tag THEN t[i][2] ELSE 0
    BY DEF Parte
  <1>6. r = [i \in 1..Len(u) |-> IF u[i][1] = tag THEN u[i][2] ELSE 0]
    BY DEF Parte
  <1> HIDE DEF u, n, k, p, q, r
  <1>7. r = [i \in 1..(n + k) |-> r[i]]
        /\ \A i \in 1..(n + k) : r[i] = IF u[i][1] = tag THEN u[i][2] ELSE 0
    BY <1>1, <1>6
  <1>8. \A i \in 1..n : r[i] = p[i]
    <2> TAKE i \in 1..n
    <2>1. i \in 1..(n + k)
      BY <1>2
    <2> QED
      BY <1>1, <1>4, <1>7, <2>1
  <1>9. \A i \in 1..k : r[n + i] = q[i]
    <2> TAKE i \in 1..k
    <2>1. n + i \in 1..(n + k)
      BY <1>2
    <2> QED
      BY <1>1, <1>5, <1>7, <2>1
  <1>10. Naturais(p, n) /\ Naturais(q, k)
    BY DEF n, k, p, q
  <1>11. Naturais(r, n + k) /\ Somatorio(r) = Somatorio(p) + Somatorio(q)
    <2>1. Seguidas(p, n, q, k, r)
      BY <1>7, <1>8, <1>9 DEF Seguidas
    <2> QED
      BY <1>2, <1>10, <2>1, SomatorioColada
  <1>12. Naturais(r, Len(u)) /\ SomaDosElementos(u, tag)
                                   = SomaDosElementos(s, tag) + SomaDosElementos(t, tag)
    BY <1>1, <1>3, <1>11
  <1> QED
    BY <1>12 DEF u, r

LEMMA DizColada ==
  ASSUME NEW it, NEW m, NEW s, NEW t, NEW K, NEW J, Diz(it, m, s, K), Diz(it, m, t, J),
         K \cap J = {}
  PROVE  Diz(it, m, s \o t, K \union J)
  <1>1. Sequencia(s) /\ Sequencia(t) /\ Sequencia(s \o t)
    BY SequenciaColada DEF Diz
  <1>2. ASSUME NEW tag \in DOMAIN m
        PROVE  LET x == SomaDosElementos(s \o t, tag) IN
                 /\ Naturais(Parte(s \o t, tag), Len(s \o t))
                 /\ tag \in K \union J => Certo(x, Valor(it, m[tag]))
                 /\ tag \notin K \union J => x = 0
    <2> DEFINE x == SomaDosElementos(s, tag)
               y == SomaDosElementos(t, tag)
               z == SomaDosElementos(s \o t, tag)
               v == Valor(it, m[tag])
    <2>1. /\ Naturais(Parte(s, tag), Len(s)) /\ Naturais(Parte(t, tag), Len(t))
          /\ (tag \in K => Certo(x, v)) /\ (tag \notin K => x = 0)
          /\ (tag \in J => Certo(y, v)) /\ (tag \notin J => y = 0)
      BY DEF Diz
    <2>2. Naturais(Parte(s \o t, tag), Len(s \o t)) /\ z = x + y
      BY <1>1, <2>1, SomaColada
    <2> HIDE DEF x, y, z, v
    <2>3. (tag \in K \union J => Certo(z, v)) /\ (tag \notin K \union J => z = 0)
      BY <2>1, <2>2 DEF Certo
    <2> QED
      BY <2>2, <2>3 DEF z, v
  <1> QED
    BY <1>1, <1>2 DEF Diz

(* Elements written one by one, each tag at most once.                       *)
LEMMA DizElementos ==
  ASSUME NEW it, NEW m, NEW s, NEW K, Sequencia(s),
         \A i \in 1..Len(s) : s[i][1] \in DOMAIN m =>
            /\ s[i][1] \in K
            /\ Certo(s[i][2], Valor(it, m[s[i][1]]))
            /\ \A j \in 1..Len(s) : s[j][1] = s[i][1] => j = i,
         \A tag \in K : \E i \in 1..Len(s) : s[i][1] = tag
  PROVE  Diz(it, m, s, K)
  <1> DEFINE n == Len(s)
  <1>1. n \in Nat
    BY DEF Sequencia
  <1>2. ASSUME NEW tag \in DOMAIN m
        PROVE  LET x == SomaDosElementos(s, tag) IN
                 /\ Naturais(Parte(s, tag), n)
                 /\ tag \in K => Certo(x, Valor(it, m[tag]))
                 /\ tag \notin K => x = 0
    <2> DEFINE p == Parte(s, tag)
               x == SomaDosElementos(s, tag)
    <2>1. x = Somatorio(p)
      BY DEF SomaDosElementos, Parte
    <2>2. p = [i \in 1..n |-> p[i]] /\ \A i \in 1..n : p[i] = IF s[i][1] = tag THEN s[i][2] ELSE 0
      BY DEF Parte
    <2> HIDE DEF p, x, n
    <2>3. Naturais(p, n)
      BY <2>2 DEF Naturais, Certo, n
    <2>4. ASSUME tag \notin K PROVE x = 0
      <3>1. \A i \in 1..n : p[i] = 0
        BY <2>2, <2>4 DEF n
      <3> QED
        BY <1>1, <2>1, <2>2, <3>1, SomatorioNulo
    <2>5. ASSUME tag \in K PROVE Certo(x, Valor(it, m[tag]))
      <3>1. PICK k \in 1..n : s[k][1] = tag
        BY <2>5 DEF n
      <3>2. Certo(s[k][2], Valor(it, m[tag])) /\ \A j \in 1..n : s[j][1] = tag => j = k
        BY <3>1 DEF n
      <3>3. p[k] = s[k][2] /\ p[k] \in Nat /\ \A j \in 1..n : j # k => p[j] = 0
        BY <2>2, <3>1, <3>2 DEF Certo
      <3>4. x = p[k]
        BY <1>1, <2>1, <2>2, <3>3, SomatorioUnico
      <3> QED
        BY <3>2, <3>3, <3>4
    <2> QED
      BY <2>3, <2>4, <2>5 DEF p, x
  <1> QED
    BY <1>2 DEF Diz

LEMMA DizVazia == ASSUME NEW it, NEW m PROVE Diz(it, m, <<>>, {})
  <1> DEFINE s == <<>>
  <1>1. Len(s) = 0 /\ Sequencia(s)
    BY DEF Sequencia
  <1> HIDE DEF s
  <1>2. Diz(it, m, s, {})
    BY <1>1, DizElementos
  <1> QED
    BY <1>2 DEF s

(* What is written only under a condition: without it there is nothing to    *)
(* state, or the elements do not state it.                                   *)
LEMMA DizSe ==
  ASSUME NEW it, NEW m, NEW c \in BOOLEAN, NEW s, NEW K, Natural(it, m), Diz(it, m, s, K),
         ~c => \A tag \in K : tag \in DOMAIN m => Valor(it, m[tag]) = 0
  PROVE  Diz(it, m, Se(c, s), K)
  <1>1. CASE c
    BY <1>1 DEF Se
  <1>2. CASE ~c
    <2>1. Se(c, s) = <<>>
      BY <1>2 DEF Se
    <2>2. Diz(it, m, <<>>, {})
      BY DizVazia
    <2> DEFINE v == <<>>
    <2>3. Diz(it, m, v, {})
      BY <2>2
    <2> HIDE DEF v
    <2>4. Diz(it, m, v, K)
      BY <1>2, <2>3 DEF Diz, Certo
    <2> QED
      BY <2>1, <2>4 DEF v
  <1> QED
    BY <1>1, <1>2

LEMMA DizQuando ==
  ASSUME NEW it, NEW m, NEW c \in BOOLEAN, NEW s, NEW K, c => Diz(it, m, s, K)
  PROVE  Diz(it, m, Se(c, s), IF c THEN K ELSE {})
  BY DizVazia DEF Se

(* An amount written with two places, and one written as it is.              *)
LEMMA DeV ==
  ASSUME NEW tag, NEW it, NEW campo, Valor(it, campo) \in Nat
  PROVE  V(tag, it, campo)[1] = tag /\ Certo(V(tag, it, campo)[2], Valor(it, campo))
  <1> DEFINE x == Valor(it, campo)
             y == 10 * Centavos(x)
  <1>1. x \in Nat
    OBVIOUS
  <1>2. V(tag, it, campo)[1] = tag /\ V(tag, it, campo)[2] = y
    BY DEF V
  <1> HIDE DEF x
  <1>3. -5 <= y - x /\ y - x <= 5
    <2>1. x \in Int
      BY <1>1
    <2> QED
      BY <2>1, DeCentavos, Zenon
  <1>4. y \in Nat
    <2>1. x \div 10 \in Nat
      BY <1>1
    <2>2. Centavos(x) = x \div 10 \/ Centavos(x) = (x \div 10) + 1
      BY DEF Centavos
    <2> QED
      BY <2>1, <2>2
  <1> HIDE DEF y
  <1>5. Certo(y, x)
    BY <1>3, <1>4 DEF Certo
  <1> QED
    BY <1>2, <1>5 DEF x

LEMMA DeQ ==
  ASSUME NEW tag, NEW it, NEW campo, Valor(it, campo) \in Nat
  PROVE  Q(tag, it, campo)[1] = tag /\ Certo(Q(tag, it, campo)[2], Valor(it, campo))
  BY DEF Q, Certo

LEMMA DeVStr ==
  ASSUME NEW tag, NEW it, NEW campo, Valor(it, campo) \in Nat
  PROVE  VStr(tag, it, campo)[1] = tag /\ Certo(VStr(tag, it, campo)[2], Valor(it, campo))
  BY DEF VStr, Certo

-----------------------------------------------------------------------------
(* The amounts the group of the ICMS of an item may state.                   *)
DoIcms ==
    [vBC |-> "icms_valor_base_calculo", vICMS |-> "icms_valor",
     vICMSDeson |-> "icms_desonerado", vFCP |-> "fcp_valor",
     vBCST |-> "icms_st_valor_base_calculo", vICMSST |-> "icms_st_valor",
     vFCPST |-> "fcp_st_valor", vFCPSTRet |-> "fcp_st_ret_valor",
     vICMSMono |-> "icms_v_icms_mono", vICMSMonoReten |-> "icms_v_icms_mono_reten",
     vICMSMonoRet |-> "icms_v_icms_mono_ret"]

LEMMA TagsDoIcms ==
  /\ DOMAIN DoIcms = {"vBC", "vICMS", "vICMSDeson", "vFCP", "vBCST", "vICMSST", "vFCPST",
                      "vFCPSTRet", "vICMSMono", "vICMSMonoReten", "vICMSMonoRet"}
  /\ DoIcms["vBC"] = "icms_valor_base_calculo"
  /\ DoIcms["vICMS"] = "icms_valor"
  /\ DoIcms["vICMSDeson"] = "icms_desonerado"
  /\ DoIcms["vFCP"] = "fcp_valor"
  /\ DoIcms["vBCST"] = "icms_st_valor_base_calculo"
  /\ DoIcms["vICMSST"] = "icms_st_valor"
  /\ DoIcms["vFCPST"] = "fcp_st_valor"
  /\ DoIcms["vFCPSTRet"] = "fcp_st_ret_valor"
  /\ DoIcms["vICMSMono"] = "icms_v_icms_mono"
  /\ DoIcms["vICMSMonoReten"] = "icms_v_icms_mono_reten"
  /\ DoIcms["vICMSMonoRet"] = "icms_v_icms_mono_ret"
  BY DEF DoIcms

(* An element that states the amount of its tag.                             *)
Dito(it, m, e, tag) == tag \in DOMAIN m /\ e[1] = tag /\ Certo(e[2], Valor(it, m[tag]))

LEMMA DitoV ==
  ASSUME NEW it, NEW m, Natural(it, m), NEW tag \in DOMAIN m, NEW campo, campo = m[tag]
  PROVE  /\ Dito(it, m, V(tag, it, campo), tag)
         /\ Dito(it, m, Q(tag, it, campo), tag)
         /\ Dito(it, m, VStr(tag, it, campo), tag)
  <1>1. Valor(it, campo) \in Nat
    BY DEF Natural
  <1> QED
    BY <1>1, DeV, DeQ, DeVStr DEF Dito

LEMMA DizOrigCST ==
  ASSUME NEW it, Natural(it, DoIcms)
  PROVE  Diz(it, DoIcms, OrigCST, {})
  <1>1. Diz(it, DoIcms, <<T("orig"), T("CST")>>, {})
    <2> DEFINE s == <<T("orig"), T("CST")>>
    <2>2. /\ Sequencia(s) /\ Len(s) = 2 /\ s[1][1] = "orig" /\ s[2][1] = "CST"
      BY DEF Sequencia, T
    <2> HIDE DEF s
    <2>3. Diz(it, DoIcms, s, {})
      BY <2>2, TagsDoIcms, DizElementos
    <2> QED
      BY <2>3 DEF s
  <1> QED
    BY <1>1 DEF OrigCST

LEMMA DizOrigCSOSN ==
  ASSUME NEW it, Natural(it, DoIcms)
  PROVE  Diz(it, DoIcms, OrigCSOSN, {})
  <1>1. Diz(it, DoIcms, <<T("orig"), T("CSOSN")>>, {})
    <2> DEFINE s == <<T("orig"), T("CSOSN")>>
    <2>2. /\ Sequencia(s) /\ Len(s) = 2 /\ s[1][1] = "orig" /\ s[2][1] = "CSOSN"
      BY DEF Sequencia, T
    <2> HIDE DEF s
    <2>3. Diz(it, DoIcms, s, {})
      BY <2>2, TagsDoIcms, DizElementos
    <2> QED
      BY <2>3 DEF s
  <1> QED
    BY <1>1 DEF OrigCSOSN

LEMMA DizOperacao ==
  ASSUME NEW it, Natural(it, DoIcms)
  PROVE  Diz(it, DoIcms, Operacao(it), {"vBC", "vICMS"})
  <1>1. Diz(it, DoIcms, <<T("modBC"), VStr("vBC", it, "icms_valor_base_calculo"),
                          T("pICMS"), V("vICMS", it, "icms_valor")>>,
                        {"vBC", "vICMS"})
    <2> DEFINE a == VStr("vBC", it, "icms_valor_base_calculo")
               b == V("vICMS", it, "icms_valor")
               s == <<T("modBC"), a, T("pICMS"), b>>
    <2>1. /\ Dito(it, DoIcms, a, "vBC")
          /\ Dito(it, DoIcms, b, "vICMS")
      BY TagsDoIcms, DitoV
    <2> HIDE DEF a, b
    <2>2. /\ Sequencia(s) /\ Len(s) = 4 /\ s[1][1] = "modBC" /\ s[2] = a
          /\ s[3][1] = "pICMS" /\ s[4] = b
      BY DEF Sequencia, T
    <2> HIDE DEF s
    <2>3. Diz(it, DoIcms, s, {"vBC", "vICMS"})
      BY <2>1, <2>2, TagsDoIcms, DizElementos DEF Dito
    <2> QED
      BY <2>3 DEF s, a, b
  <1> QED
    BY <1>1 DEF Operacao

LEMMA DizOperacaoReduzida ==
  ASSUME NEW it, Natural(it, DoIcms)
  PROVE  Diz(it, DoIcms, OperacaoReduzida(it), {"vBC", "vICMS"})
  <1>1. Diz(it, DoIcms, <<T("modBC"), T("pRedBC"),
                          V("vBC", it, "icms_valor_base_calculo"), T("pICMS"),
                          V("vICMS", it, "icms_valor")>>,
                        {"vBC", "vICMS"})
    <2> DEFINE a == V("vBC", it, "icms_valor_base_calculo")
               b == V("vICMS", it, "icms_valor")
               s == <<T("modBC"), T("pRedBC"), a, T("pICMS"), b>>
    <2>1. /\ Dito(it, DoIcms, a, "vBC")
          /\ Dito(it, DoIcms, b, "vICMS")
      BY TagsDoIcms, DitoV
    <2> HIDE DEF a, b
    <2>2. /\ Sequencia(s) /\ Len(s) = 5 /\ s[1][1] = "modBC" /\ s[2][1] = "pRedBC"
          /\ s[3] = a /\ s[4][1] = "pICMS" /\ s[5] = b
      BY DEF Sequencia, T
    <2> HIDE DEF s
    <2>3. Diz(it, DoIcms, s, {"vBC", "vICMS"})
      BY <2>1, <2>2, TagsDoIcms, DizElementos DEF Dito
    <2> QED
      BY <2>3 DEF s, a, b
  <1> QED
    BY <1>1 DEF OperacaoReduzida

LEMMA DizFCPProprio ==
  ASSUME NEW it, Natural(it, DoIcms)
  PROVE  Diz(it, DoIcms, FCPProprio(it), {"vFCP"})
  <1>1. Diz(it, DoIcms, <<V("vBCFCP", it, "fcp_base_calculo"), T("pFCP"),
                          V("vFCP", it, "fcp_valor")>>,
                        {"vFCP"})
    <2> DEFINE a == V("vFCP", it, "fcp_valor")
               s == <<V("vBCFCP", it, "fcp_base_calculo"), T("pFCP"), a>>
    <2>1. Dito(it, DoIcms, a, "vFCP")
      BY TagsDoIcms, DitoV
    <2> HIDE DEF a
    <2>2. /\ Sequencia(s) /\ Len(s) = 3 /\ s[1][1] = "vBCFCP" /\ s[2][1] = "pFCP" /\ s[3] = a
      BY DEF Sequencia, T, V
    <2> HIDE DEF s
    <2>3. Diz(it, DoIcms, s, {"vFCP"})
      BY <2>1, <2>2, TagsDoIcms, DizElementos DEF Dito
    <2> QED
      BY <2>3 DEF s, a
  <1>2. Ha(it, "fcp_valor") \in BOOLEAN /\ (~Ha(it, "fcp_valor") => Valor(it, "fcp_valor") = 0)
    BY TagsDoIcms DEF Ha, Natural
  <1> QED
    BY <1>1, <1>2, TagsDoIcms, DizSe DEF FCPProprio

LEMMA DizST ==
  ASSUME NEW it, Natural(it, DoIcms)
  PROVE  Diz(it, DoIcms, ST(it), {"vBCST", "vICMSST"})
  <1>1. Diz(it, DoIcms, <<T("modBCST"), T("pMVAST"), T("pRedBCST"),
                          V("vBCST", it, "icms_st_valor_base_calculo"), T("pICMSST"),
                          V("vICMSST", it, "icms_st_valor")>>,
                        {"vBCST", "vICMSST"})
    <2> DEFINE a == V("vBCST", it, "icms_st_valor_base_calculo")
               b == V("vICMSST", it, "icms_st_valor")
               s == <<T("modBCST"), T("pMVAST"), T("pRedBCST"), a, T("pICMSST"), b>>
    <2>1. /\ Dito(it, DoIcms, a, "vBCST")
          /\ Dito(it, DoIcms, b, "vICMSST")
      BY TagsDoIcms, DitoV
    <2> HIDE DEF a, b
    <2>2. /\ Sequencia(s) /\ Len(s) = 6 /\ s[1][1] = "modBCST" /\ s[2][1] = "pMVAST"
          /\ s[3][1] = "pRedBCST" /\ s[4] = a /\ s[5][1] = "pICMSST" /\ s[6] = b
      BY DEF Sequencia, T
    <2> HIDE DEF s
    <2>3. \A i \in 1..6 : s[i][1] \in DOMAIN DoIcms => i = 4 \/ i = 6
      BY <2>1, <2>2, TagsDoIcms DEF Dito
    <2>4. Diz(it, DoIcms, s, {"vBCST", "vICMSST"})
      BY <2>1, <2>2, <2>3, DizElementos DEF Dito
    <2> QED
      BY <2>4 DEF s, a, b
  <1> QED
    BY <1>1 DEF ST

LEMMA DizFCPSt ==
  ASSUME NEW it, Natural(it, DoIcms)
  PROVE  Diz(it, DoIcms, FCPSt(it), {"vFCPST"})
  <1>1. Diz(it, DoIcms, <<V("vBCFCPST", it, "fcp_st_base_calculo"), T("pFCPST"),
                          V("vFCPST", it, "fcp_st_valor")>>,
                        {"vFCPST"})
    <2> DEFINE a == V("vFCPST", it, "fcp_st_valor")
               s == <<V("vBCFCPST", it, "fcp_st_base_calculo"), T("pFCPST"), a>>
    <2>1. Dito(it, DoIcms, a, "vFCPST")
      BY TagsDoIcms, DitoV
    <2> HIDE DEF a
    <2>2. /\ Sequencia(s) /\ Len(s) = 3 /\ s[1][1] = "vBCFCPST" /\ s[2][1] = "pFCPST"
          /\ s[3] = a
      BY DEF Sequencia, T, V
    <2> HIDE DEF s
    <2>3. Diz(it, DoIcms, s, {"vFCPST"})
      BY <2>1, <2>2, TagsDoIcms, DizElementos DEF Dito
    <2> QED
      BY <2>3 DEF s, a
  <1>2. Ha(it, "fcp_st_valor") \in BOOLEAN
        /\ (~Ha(it, "fcp_st_valor") => Valor(it, "fcp_st_valor") = 0)
    BY TagsDoIcms DEF Ha, Natural
  <1> QED
    BY <1>1, <1>2, TagsDoIcms, DizSe DEF FCPSt

LEMMA DizDesonerado ==
  ASSUME NEW it, Natural(it, DoIcms)
  PROVE  Diz(it, DoIcms, Desonerado(it), {"vICMSDeson"})
  <1>1. Diz(it, DoIcms, <<V("vICMSDeson", it, "icms_desonerado"), T("motDesICMS")>>,
                        {"vICMSDeson"})
    <2> DEFINE a == V("vICMSDeson", it, "icms_desonerado")
               s == <<a, T("motDesICMS")>>
    <2>1. Dito(it, DoIcms, a, "vICMSDeson")
      BY TagsDoIcms, DitoV
    <2> HIDE DEF a
    <2>2. /\ Sequencia(s) /\ Len(s) = 2 /\ s[1] = a /\ s[2][1] = "motDesICMS"
      BY DEF Sequencia, T
    <2> HIDE DEF s
    <2>3. Diz(it, DoIcms, s, {"vICMSDeson"})
      BY <2>1, <2>2, TagsDoIcms, DizElementos DEF Dito
    <2> QED
      BY <2>3 DEF s, a
  <1>2. Ha(it, "icms_desonerado") \in BOOLEAN
        /\ (~Ha(it, "icms_desonerado") => Valor(it, "icms_desonerado") = 0)
    BY TagsDoIcms DEF Ha, Natural
  <1> QED
    BY <1>1, <1>2, TagsDoIcms, DizSe DEF Desonerado

LEMMA DizMonofasico ==
  ASSUME NEW it, Natural(it, DoIcms)
  PROVE  Diz(it, DoIcms, Monofasico(it), {"vICMSMono"})
  <1>1. Diz(it, DoIcms, <<Q("qBCMono", it, "icms_q_bc_mono"), T("adRemICMS"),
                          V("vICMSMono", it, "icms_v_icms_mono")>>,
                        {"vICMSMono"})
    <2> DEFINE a == V("vICMSMono", it, "icms_v_icms_mono")
               s == <<Q("qBCMono", it, "icms_q_bc_mono"), T("adRemICMS"), a>>
    <2>1. Dito(it, DoIcms, a, "vICMSMono")
      BY TagsDoIcms, DitoV
    <2> HIDE DEF a
    <2>2. /\ Sequencia(s) /\ Len(s) = 3 /\ s[1][1] = "qBCMono" /\ s[2][1] = "adRemICMS"
          /\ s[3] = a
      BY DEF Sequencia, Q, T
    <2> HIDE DEF s
    <2>3. Diz(it, DoIcms, s, {"vICMSMono"})
      BY <2>1, <2>2, TagsDoIcms, DizElementos DEF Dito
    <2> QED
      BY <2>3 DEF s, a
  <1> QED
    BY <1>1 DEF Monofasico

LEMMA DizOpcional ==
  ASSUME NEW it, Natural(it, DoIcms)
  PROVE  Diz(it, DoIcms, OperacaoOpcional(it),
             IF Ha(it, "icms_valor_base_calculo") /\ Ha(it, "icms_valor") THEN {"vBC", "vICMS"}
             ELSE {})
  <1>1. Diz(it, DoIcms, <<T("modBC"), V("vBC", it, "icms_valor_base_calculo"),
                          T("pRedBC"), T("pICMS"), V("vICMS", it, "icms_valor")>>,
                        {"vBC", "vICMS"})
    <2> DEFINE a == V("vBC", it, "icms_valor_base_calculo")
               b == V("vICMS", it, "icms_valor")
               s == <<T("modBC"), a, T("pRedBC"), T("pICMS"), b>>
    <2>1. /\ Dito(it, DoIcms, a, "vBC")
          /\ Dito(it, DoIcms, b, "vICMS")
      BY TagsDoIcms, DitoV
    <2> HIDE DEF a, b
    <2>2. /\ Sequencia(s) /\ Len(s) = 5 /\ s[1][1] = "modBC" /\ s[2] = a
          /\ s[3][1] = "pRedBC" /\ s[4][1] = "pICMS" /\ s[5] = b
      BY DEF Sequencia, T
    <2> HIDE DEF s
    <2>3. Diz(it, DoIcms, s, {"vBC", "vICMS"})
      BY <2>1, <2>2, TagsDoIcms, DizElementos DEF Dito
    <2> QED
      BY <2>3 DEF s, a, b
  <1> QED
    BY <1>1, DizQuando DEF OperacaoOpcional

LEMMA DizMesmo ==
  ASSUME NEW it, NEW m, NEW s, NEW K, NEW J, Diz(it, m, s, K),
         \A tag \in DOMAIN m : tag \in K <=> tag \in J
  PROVE  Diz(it, m, s, J)
  BY DEF Diz


LEMMA DizFCP00 ==
  ASSUME NEW it, Natural(it, DoIcms)
  PROVE  Diz(it, DoIcms, Se(Ha(it, "fcp_valor"), <<T("pFCP"), V("vFCP", it, "fcp_valor")>>),
             {"vFCP"})
  <1>1. Diz(it, DoIcms, <<T("pFCP"), V("vFCP", it, "fcp_valor")>>, {"vFCP"})
    <2> DEFINE a == V("vFCP", it, "fcp_valor")
               s == <<T("pFCP"), a>>
    <2>1. Dito(it, DoIcms, a, "vFCP")
      BY TagsDoIcms, DitoV
    <2> HIDE DEF a
    <2>2. /\ Sequencia(s) /\ Len(s) = 2 /\ s[1][1] = "pFCP" /\ s[2] = a
      BY DEF Sequencia, T
    <2> HIDE DEF s
    <2>3. Diz(it, DoIcms, s, {"vFCP"})
      BY <2>1, <2>2, TagsDoIcms, DizElementos DEF Dito
    <2> QED
      BY <2>3 DEF s, a
  <1>2. Ha(it, "fcp_valor") \in BOOLEAN /\ (~Ha(it, "fcp_valor") => Valor(it, "fcp_valor") = 0)
    BY TagsDoIcms DEF Ha, Natural
  <1> QED
    BY <1>1, <1>2, TagsDoIcms, DizSe

LEMMA DizCreditoSN ==
  ASSUME NEW it, Natural(it, DoIcms)
  PROVE  Diz(it, DoIcms, CreditoSN(it), {})
  <1>1. Diz(it, DoIcms, <<T("pCredSN"), T("vCredICMSSN")>>, {})
    <2> DEFINE s == <<T("pCredSN"), T("vCredICMSSN")>>
    <2>2. /\ Sequencia(s) /\ Len(s) = 2 /\ s[1][1] = "pCredSN" /\ s[2][1] = "vCredICMSSN"
      BY DEF Sequencia, T
    <2> HIDE DEF s
    <2>3. Diz(it, DoIcms, s, {})
      BY <2>2, TagsDoIcms, DizElementos
    <2> QED
      BY <2>3 DEF s
  <1> QED
    BY <1>1 DEF CreditoSN

LEMMA DizJunto ==
  ASSUME NEW it, NEW m, NEW s, NEW t, NEW K, NEW J, NEW L, Diz(it, m, s, K), Diz(it, m, t, J),
         K \cap J = {}, L = K \union J
  PROVE  Diz(it, m, s \o t, L)
  BY DizColada

LEMMA DizReten ==
  ASSUME NEW it, Natural(it, DoIcms)
  PROVE  Diz(it, DoIcms, <<Q("qBCMonoReten", it, "icms_q_bc_mono_reten"),
                            T("adRemICMSReten"),
                            V("vICMSMonoReten", it, "icms_v_icms_mono_reten")>>,
                          {"vICMSMonoReten"})
  <1> DEFINE a == V("vICMSMonoReten", it, "icms_v_icms_mono_reten")
             s == <<Q("qBCMonoReten", it, "icms_q_bc_mono_reten"), T("adRemICMSReten"), a>>
  <1>1. Dito(it, DoIcms, a, "vICMSMonoReten")
    BY TagsDoIcms, DitoV
  <1> HIDE DEF a
  <1>2. /\ Sequencia(s) /\ Len(s) = 3 /\ s[1][1] = "qBCMonoReten"
        /\ s[2][1] = "adRemICMSReten" /\ s[3] = a
    BY DEF Sequencia, Q, T
  <1> HIDE DEF s
  <1>3. Diz(it, DoIcms, s, {"vICMSMonoReten"})
    BY <1>1, <1>2, TagsDoIcms, DizElementos DEF Dito
  <1> QED
    BY <1>3 DEF s, a

LEMMA DizMono53 ==
  ASSUME NEW it, Natural(it, DoIcms)
  PROVE  Diz(it, DoIcms, <<Q("qBCMono", it, "icms_q_bc_mono"), T("adRemICMS"),
                            T("vICMSMonoOp"), T("pDif"),
                            <<"vICMSMonoDif", Valor(it, "icms_v_icms_mono_dif"), 4>>,
                            V("vICMSMono", it, "icms_v_icms_mono")>>,
                          {"vICMSMono"})
  <1> DEFINE a == V("vICMSMono", it, "icms_v_icms_mono")
             s == <<Q("qBCMono", it, "icms_q_bc_mono"), T("adRemICMS"), T("vICMSMonoOp"),
                    T("pDif"), <<"vICMSMonoDif", Valor(it, "icms_v_icms_mono_dif"), 4>>, a>>
  <1>1. Dito(it, DoIcms, a, "vICMSMono")
    BY TagsDoIcms, DitoV
  <1> HIDE DEF a
  <1>2. /\ Sequencia(s) /\ Len(s) = 6 /\ s[1][1] = "qBCMono" /\ s[2][1] = "adRemICMS"
        /\ s[3][1] = "vICMSMonoOp" /\ s[4][1] = "pDif" /\ s[5][1] = "vICMSMonoDif"
        /\ s[6] = a
    BY DEF Sequencia, Q, T
  <1> HIDE DEF s
  <1>3. \A i \in 1..6 : s[i][1] \in DOMAIN DoIcms => i = 6
    BY <1>1, <1>2, TagsDoIcms DEF Dito
  <1>4. Diz(it, DoIcms, s, {"vICMSMono"})
    BY <1>1, <1>2, <1>3, DizElementos DEF Dito
  <1> QED
    BY <1>4 DEF s, a

LEMMA DizMono61 ==
  ASSUME NEW it, Natural(it, DoIcms)
  PROVE  Diz(it, DoIcms, <<Q("qBCMonoRet", it, "icms_q_bc_mono_ret"), T("adRemICMSRet"),
                            V("vICMSMonoRet", it, "icms_v_icms_mono_ret")>>,
                          {"vICMSMonoRet"})
  <1> DEFINE a == V("vICMSMonoRet", it, "icms_v_icms_mono_ret")
             s == <<Q("qBCMonoRet", it, "icms_q_bc_mono_ret"), T("adRemICMSRet"), a>>
  <1>1. Dito(it, DoIcms, a, "vICMSMonoRet")
    BY TagsDoIcms, DitoV
  <1> HIDE DEF a
  <1>2. /\ Sequencia(s) /\ Len(s) = 3 /\ s[1][1] = "qBCMonoRet"
        /\ s[2][1] = "adRemICMSRet" /\ s[3] = a
    BY DEF Sequencia, Q, T
  <1> HIDE DEF s
  <1>3. Diz(it, DoIcms, s, {"vICMSMonoRet"})
    BY <1>1, <1>2, TagsDoIcms, DizElementos DEF Dito
  <1> QED
    BY <1>3 DEF s, a

LEMMA DizModBC ==
  ASSUME NEW it, Natural(it, DoIcms)
  PROVE  Diz(it, DoIcms, <<T("modBC")>>, {})
  <1> DEFINE s == <<T("modBC")>>
  <1>2. /\ Sequencia(s) /\ Len(s) = 1 /\ s[1][1] = "modBC"
    BY DEF Sequencia, T
  <1> HIDE DEF s
  <1>3. Diz(it, DoIcms, s, {})
    BY <1>2, TagsDoIcms, DizElementos
  <1> QED
    BY <1>3 DEF s

LEMMA DizRetido ==
  ASSUME NEW it, Natural(it, DoIcms)
  PROVE  Diz(it, DoIcms, <<T("vBCSTRet"), T("pST"), T("vICMSSTRet")>>, {})
  <1> DEFINE s == <<T("vBCSTRet"), T("pST"), T("vICMSSTRet")>>
  <1>2. /\ Sequencia(s) /\ Len(s) = 3 /\ s[1][1] = "vBCSTRet" /\ s[2][1] = "pST"
        /\ s[3][1] = "vICMSSTRet"
    BY DEF Sequencia, T
  <1> HIDE DEF s
  <1>3. Diz(it, DoIcms, s, {})
    BY <1>2, TagsDoIcms, DizElementos
  <1> QED
    BY <1>3 DEF s

LEMMA DizFCPRetido ==
  ASSUME NEW it, Natural(it, DoIcms)
  PROVE  Diz(it, DoIcms, <<T("vBCFCPSTRet"), T("pFCPSTRet"),
                            V("vFCPSTRet", it, "fcp_st_ret_valor")>>,
                          {"vFCPSTRet"})
  <1> DEFINE a == V("vFCPSTRet", it, "fcp_st_ret_valor")
             s == <<T("vBCFCPSTRet"), T("pFCPSTRet"), a>>
  <1>1. Dito(it, DoIcms, a, "vFCPSTRet")
    BY TagsDoIcms, DitoV
  <1> HIDE DEF a
  <1>2. /\ Sequencia(s) /\ Len(s) = 3 /\ s[1][1] = "vBCFCPSTRet" /\ s[2][1] = "pFCPSTRet"
        /\ s[3] = a
    BY DEF Sequencia, T
  <1> HIDE DEF s
  <1>3. Diz(it, DoIcms, s, {"vFCPSTRet"})
    BY <1>1, <1>2, TagsDoIcms, DizElementos DEF Dito
  <1> QED
    BY <1>3 DEF s, a

LEMMA DizRed ==
  ASSUME NEW it, Natural(it, DoIcms)
  PROVE  Diz(it, DoIcms, <<T("pRedAdRem"), T("motRedAdRem")>>, {})
  <1> DEFINE s == <<T("pRedAdRem"), T("motRedAdRem")>>
  <1>2. /\ Sequencia(s) /\ Len(s) = 2 /\ s[1][1] = "pRedAdRem" /\ s[2][1] = "motRedAdRem"
    BY DEF Sequencia, T
  <1> HIDE DEF s
  <1>3. Diz(it, DoIcms, s, {})
    BY <1>2, TagsDoIcms, DizElementos
  <1> QED
    BY <1>3 DEF s

LEMMA DizICMS00 ==
  ASSUME NEW it, Natural(it, DoIcms)
  PROVE  Diz(it, DoIcms, ICMS00(it), {"vBC", "vICMS", "vFCP"})
  <1>1. Diz(it, DoIcms, OrigCST \o Operacao(it), {"vBC", "vICMS"})
    BY DizOrigCST, DizOperacao, DizJunto
  <1> QED
    BY <1>1, DizFCP00, DizJunto DEF ICMS00

LEMMA DizICMS02 ==
  ASSUME NEW it, Natural(it, DoIcms)
  PROVE  Diz(it, DoIcms, ICMS02(it), {"vICMSMono"})
  BY DizOrigCST, DizMonofasico, DizJunto DEF ICMS02

LEMMA DizICMS10 ==
  ASSUME NEW it, Natural(it, DoIcms)
  PROVE  Diz(it, DoIcms, ICMS10(it), {"vBC", "vICMS", "vFCP", "vBCST", "vICMSST", "vFCPST"})
  <1>1. Diz(it, DoIcms, OrigCST \o Operacao(it), {"vBC", "vICMS"})
    BY DizOrigCST, DizOperacao, DizJunto
  <1>2. Diz(it, DoIcms, OrigCST \o Operacao(it) \o FCPProprio(it), {"vBC", "vICMS", "vFCP"})
    BY <1>1, DizFCPProprio, DizJunto
  <1>3. Diz(it, DoIcms, OrigCST \o Operacao(it) \o FCPProprio(it) \o ST(it),
                   {"vBC", "vICMS", "vFCP", "vBCST", "vICMSST"})
    BY <1>2, DizST, DizJunto
  <1> QED
    BY <1>3, DizFCPSt, DizJunto DEF ICMS10

LEMMA DizSeRed ==
  ASSUME NEW it, Natural(it, DoIcms)
  PROVE  Diz(it, DoIcms, Se(Ha(it, "icms_p_red_ad_rem"), <<T("pRedAdRem"), T("motRedAdRem")>>), {})
  <1>1. Ha(it, "icms_p_red_ad_rem") \in BOOLEAN
    BY DEF Ha
  <1> QED
    BY <1>1, DizRed, DizSe

LEMMA DizICMS15 ==
  ASSUME NEW it, Natural(it, DoIcms)
  PROVE  Diz(it, DoIcms, ICMS15(it), {"vICMSMono", "vICMSMonoReten"})
  <1>1. Diz(it, DoIcms, OrigCST \o Monofasico(it), {"vICMSMono"})
    BY DizOrigCST, DizMonofasico, DizJunto
  <1>2. Diz(it, DoIcms, OrigCST \o Monofasico(it)
                          \o <<Q("qBCMonoReten", it, "icms_q_bc_mono_reten"),
                               T("adRemICMSReten"),
                               V("vICMSMonoReten", it, "icms_v_icms_mono_reten")>>,
                   {"vICMSMono", "vICMSMonoReten"})
    BY <1>1, DizReten, DizJunto
  <1> QED
    BY <1>2, DizSeRed, DizJunto DEF ICMS15

LEMMA DizICMS20 ==
  ASSUME NEW it, Natural(it, DoIcms)
  PROVE  Diz(it, DoIcms, ICMS20(it), {"vBC", "vICMS", "vFCP", "vICMSDeson"})
  <1>1. Diz(it, DoIcms, OrigCST \o OperacaoReduzida(it), {"vBC", "vICMS"})
    BY DizOrigCST, DizOperacaoReduzida, DizJunto
  <1>2. Diz(it, DoIcms, OrigCST \o OperacaoReduzida(it) \o FCPProprio(it),
                   {"vBC", "vICMS", "vFCP"})
    BY <1>1, DizFCPProprio, DizJunto
  <1> QED
    BY <1>2, DizDesonerado, DizJunto DEF ICMS20

LEMMA DizICMS30 ==
  ASSUME NEW it, Natural(it, DoIcms)
  PROVE  Diz(it, DoIcms, ICMS30(it), {"vBCST", "vICMSST", "vFCPST", "vICMSDeson"})
  <1>1. Diz(it, DoIcms, OrigCST \o ST(it), {"vBCST", "vICMSST"})
    BY DizOrigCST, DizST, DizJunto
  <1>2. Diz(it, DoIcms, OrigCST \o ST(it) \o FCPSt(it), {"vBCST", "vICMSST", "vFCPST"})
    BY <1>1, DizFCPSt, DizJunto
  <1> QED
    BY <1>2, DizDesonerado, DizJunto DEF ICMS30

LEMMA DizICMS40 ==
  ASSUME NEW it, Natural(it, DoIcms)
  PROVE  Diz(it, DoIcms, ICMS40(it), {"vICMSDeson"})
  BY DizOrigCST, DizDesonerado, DizJunto DEF ICMS40

LEMMA DizICMS51 ==
  ASSUME NEW it, Natural(it, DoIcms)
  PROVE  Diz(it, DoIcms, ICMS51(it), {"vFCP"})
  <1>1. Diz(it, DoIcms, OrigCST \o <<T("modBC")>>, {})
    BY DizOrigCST, DizModBC, DizJunto
  <1> QED
    BY <1>1, DizFCPProprio, DizJunto DEF ICMS51

LEMMA DizICMS53 ==
  ASSUME NEW it, Natural(it, DoIcms)
  PROVE  Diz(it, DoIcms, ICMS53(it), {"vICMSMono"})
  BY DizOrigCST, DizMono53, DizJunto DEF ICMS53

LEMMA DizSeRetido ==
  ASSUME NEW it, Natural(it, DoIcms)
  PROVE  Diz(it, DoIcms, Se(Ha(it, "fcp_st_ret_valor"),
                            <<T("vBCFCPSTRet"), T("pFCPSTRet"),
                              V("vFCPSTRet", it, "fcp_st_ret_valor")>>), {"vFCPSTRet"})
  <1>1. Ha(it, "fcp_st_ret_valor") \in BOOLEAN
        /\ (~Ha(it, "fcp_st_ret_valor") => Valor(it, "fcp_st_ret_valor") = 0)
    BY TagsDoIcms DEF Ha, Natural
  <1> QED
    BY <1>1, TagsDoIcms, DizFCPRetido, DizSe

LEMMA DizICMS60 ==
  ASSUME NEW it, Natural(it, DoIcms)
  PROVE  Diz(it, DoIcms, ICMS60(it), {"vFCPSTRet"})
  <1>1. Diz(it, DoIcms, OrigCST \o <<T("vBCSTRet"), T("pST"), T("vICMSSTRet")>>, {})
    BY DizOrigCST, DizRetido, DizJunto
  <1> QED
    BY <1>1, DizSeRetido, DizJunto DEF ICMS60

LEMMA DizICMS61 ==
  ASSUME NEW it, Natural(it, DoIcms)
  PROVE  Diz(it, DoIcms, ICMS61(it), {"vICMSMonoRet"})
  BY DizOrigCST, DizMono61, DizJunto DEF ICMS61

LEMMA DizICMS70 ==
  ASSUME NEW it, Natural(it, DoIcms)
  PROVE  Diz(it, DoIcms, ICMS70(it),
             {"vBC", "vICMS", "vFCP", "vBCST", "vICMSST", "vFCPST", "vICMSDeson"})
  <1>1. Diz(it, DoIcms, OrigCST \o OperacaoReduzida(it), {"vBC", "vICMS"})
    BY DizOrigCST, DizOperacaoReduzida, DizJunto
  <1>2. Diz(it, DoIcms, OrigCST \o OperacaoReduzida(it) \o FCPProprio(it),
                   {"vBC", "vICMS", "vFCP"})
    BY <1>1, DizFCPProprio, DizJunto
  <1>3. Diz(it, DoIcms, OrigCST \o OperacaoReduzida(it) \o FCPProprio(it) \o ST(it),
                   {"vBC", "vICMS", "vFCP", "vBCST", "vICMSST"})
    BY <1>2, DizST, DizJunto
  <1>4. Diz(it, DoIcms, OrigCST \o OperacaoReduzida(it) \o FCPProprio(it) \o ST(it) \o FCPSt(it),
                   {"vBC", "vICMS", "vFCP", "vBCST", "vICMSST", "vFCPST"})
    BY <1>3, DizFCPSt, DizJunto
  <1> QED
    BY <1>4, DizDesonerado, DizJunto DEF ICMS70

(* The tags of the operation and of the substitution, where they are         *)
(* optional.                                                                 *)
DaOperacao(it) ==
    IF Ha(it, "icms_valor_base_calculo") /\ Ha(it, "icms_valor") THEN {"vBC", "vICMS"} ELSE {}

DaST(it) == IF HaST(it) THEN {"vBCST", "vICMSST"} ELSE {}

LEMMA DizICMS90 ==
  ASSUME NEW it, Natural(it, DoIcms)
  PROVE  Diz(it, DoIcms, ICMS90(it),
             DaOperacao(it) \union DaST(it) \union {"vFCP", "vFCPST", "vICMSDeson"})
  <1> DEFINE a == OrigCST \o OperacaoOpcional(it)
             b == a \o FCPProprio(it)
             c == b \o Se(HaST(it), ST(it))
             A == DaOperacao(it)
             B == DaST(it)
  <1>1. A \subseteq {"vBC", "vICMS"} /\ B \subseteq {"vBCST", "vICMSST"}
    BY DEF DaOperacao, DaST
  <1>2. Diz(it, DoIcms, OperacaoOpcional(it), A) /\ Diz(it, DoIcms, Se(HaST(it), ST(it)), B)
    <2>1. HaST(it) \in BOOLEAN
      BY DEF HaST, Ha
    <2> QED
      BY <2>1, DizOpcional, DizST, DizQuando DEF DaOperacao, DaST
  <1>3. ICMS90(it) = c \o FCPSt(it) \o Desonerado(it)
    BY DEF ICMS90
  <1> HIDE DEF A, B
  <1>4. Diz(it, DoIcms, a, A)
    BY <1>2, DizOrigCST, DizJunto
  <1> HIDE DEF a
  <1>5. Diz(it, DoIcms, b, A \union {"vFCP"})
    BY <1>1, <1>4, DizFCPProprio, DizJunto
  <1> HIDE DEF b
  <1>6. Diz(it, DoIcms, c, A \union B \union {"vFCP"})
    <2>1. (A \union {"vFCP"}) \cap B = {}
          /\ A \union B \union {"vFCP"} = (A \union {"vFCP"}) \union B
      BY <1>1
    <2> QED
      BY <1>2, <1>5, <2>1, DizJunto
  <1> HIDE DEF c
  <1>7. Diz(it, DoIcms, c \o FCPSt(it), A \union B \union {"vFCP", "vFCPST"})
    BY <1>1, <1>6, DizFCPSt, DizJunto
  <1>8. Diz(it, DoIcms, c \o FCPSt(it) \o Desonerado(it),
                   A \union B \union {"vFCP", "vFCPST", "vICMSDeson"})
    BY <1>1, <1>7, DizDesonerado, DizJunto
  <1> QED
    BY <1>3, <1>8 DEF A, B

LEMMA DizSimples ==
  ASSUME NEW it, Natural(it, DoIcms)
  PROVE  /\ Diz(it, DoIcms, ICMSSN101(it), {})
         /\ Diz(it, DoIcms, ICMSSN102(it), {})
         /\ Diz(it, DoIcms, ICMSSN500(it), {})
  <1>1. Diz(it, DoIcms, ICMSSN101(it), {})
    BY DizOrigCSOSN, DizCreditoSN, DizJunto DEF ICMSSN101
  <1> QED
    BY <1>1, DizOrigCSOSN DEF ICMSSN102, ICMSSN500

LEMMA DizICMSSN201 ==
  ASSUME NEW it, Natural(it, DoIcms)
  PROVE  Diz(it, DoIcms, ICMSSN201(it), {"vBCST", "vICMSST", "vFCPST"})
  <1> DEFINE c == it.icms = "201"
             d == Se(c, CreditoSN(it))
  <1>1. Diz(it, DoIcms, OrigCSOSN \o ST(it), {"vBCST", "vICMSST"})
    BY DizOrigCSOSN, DizST, DizJunto
  <1>2. Diz(it, DoIcms, OrigCSOSN \o ST(it) \o FCPSt(it), {"vBCST", "vICMSST", "vFCPST"})
    BY <1>1, DizFCPSt, DizJunto
  <1>3. Diz(it, DoIcms, d, {})
    <2>1. c \in BOOLEAN
      OBVIOUS
    <2> HIDE DEF c
    <2> QED
      BY <2>1, DizCreditoSN, DizSe
  <1>4. ICMSSN201(it) = OrigCSOSN \o ST(it) \o FCPSt(it) \o d
    BY DEF ICMSSN201
  <1> HIDE DEF c, d
  <1> QED
    BY <1>2, <1>3, <1>4, DizJunto

LEMMA DizICMSSN900 ==
  ASSUME NEW it, Natural(it, DoIcms)
  PROVE  Diz(it, DoIcms, ICMSSN900(it),
             DaOperacao(it) \union IF HaST(it) THEN {"vBCST", "vICMSST", "vFCPST"} ELSE {})
  <1> DEFINE a == OrigCSOSN \o OperacaoOpcional(it)
             b == a \o Se(HaST(it), ST(it) \o FCPSt(it))
             A == DaOperacao(it)
             B == IF HaST(it) THEN {"vBCST", "vICMSST", "vFCPST"} ELSE {}
             d == Se(Ha(it, "icms_aliquota"), CreditoSN(it))
  <1>1. A \subseteq {"vBC", "vICMS"} /\ B \subseteq {"vBCST", "vICMSST", "vFCPST"}
    BY DEF DaOperacao
  <1>2. Diz(it, DoIcms, ST(it) \o FCPSt(it), {"vBCST", "vICMSST", "vFCPST"})
    BY DizST, DizFCPSt, DizJunto
  <1>3. Diz(it, DoIcms, OperacaoOpcional(it), A)
        /\ Diz(it, DoIcms, Se(HaST(it), ST(it) \o FCPSt(it)), B)
    <2>1. HaST(it) \in BOOLEAN
      BY DEF HaST, Ha
    <2> QED
      BY <1>2, <2>1, DizOpcional, DizQuando DEF DaOperacao
  <1>4. Diz(it, DoIcms, d, {})
    <2>1. Ha(it, "icms_aliquota") \in BOOLEAN
      BY DEF Ha
    <2> QED
      BY <2>1, DizCreditoSN, DizSe
  <1>5. ICMSSN900(it) = b \o d
    BY DEF ICMSSN900
  <1> HIDE DEF A, B, d
  <1>6. Diz(it, DoIcms, a, A)
    BY <1>3, DizOrigCSOSN, DizJunto
  <1> HIDE DEF a
  <1>7. Diz(it, DoIcms, b, A \union B)
    BY <1>1, <1>3, <1>6, DizJunto
  <1> HIDE DEF b
  <1>8. Diz(it, DoIcms, b \o d, A \union B)
    BY <1>4, <1>7, DizJunto
  <1> QED
    BY <1>5, <1>8 DEF A, B

(* The tags of the amounts the item states, for every modality: those        *)
(* Declara says.                                                             *)
NoTotal(tag) == IF tag = "vICMSST" THEN "vST" ELSE tag

Declarados(it, m) == {tag \in DOMAIN m : Declara(it, NoTotal(tag))}

LEMMA DeclaraIcms ==
  ASSUME NEW it
  PROVE  /\ Declara(it, "vBC") <=> \/ it.icms \in {"00", "10", "20", "70"}
                                   \/ it.icms \in {"90", "900"} /\ DaOperacao(it) # {}
         /\ Declara(it, "vICMS") <=> Declara(it, "vBC")
         /\ Declara(it, "vICMSDeson") <=> it.icms \in {"20", "30", "40", "41", "50", "70", "90"}
         /\ Declara(it, "vFCP") <=> it.icms \in {"00", "10", "20", "51", "70", "90"}
         /\ Declara(it, "vBCST") <=> \/ it.icms \in {"10", "30", "70", "201", "202", "203"}
                                     \/ it.icms \in {"90", "900"} /\ HaST(it)
         /\ Declara(it, "vST") <=> Declara(it, "vBCST")
         /\ Declara(it, "vFCPST") <=>
              \/ it.icms \in {"10", "30", "70", "201", "202", "203", "90"}
              \/ it.icms = "900" /\ HaST(it)
         /\ Declara(it, "vFCPSTRet") <=> it.icms \in {"ST", "60"}
         /\ Declara(it, "vICMSMono") <=> it.icms \in {"02", "15", "53"}
         /\ Declara(it, "vICMSMonoReten") <=> it.icms = "15"
         /\ Declara(it, "vICMSMonoRet") <=> it.icms = "61"
  <1> DEFINE propria == Ha(it, "icms_valor_base_calculo") /\ Ha(it, "icms_valor")
  <1>1. propria <=> DaOperacao(it) # {}
    BY DEF DaOperacao
  <1>2. Declara(it, "vBC") <=> \/ it.icms \in {"00", "10", "20", "70"}
                               \/ it.icms \in {"90", "900"} /\ propria
    BY DEF Declara
  <1>3. Declara(it, "vICMS") <=> \/ it.icms \in {"00", "10", "20", "70"}
                                 \/ it.icms \in {"90", "900"} /\ propria
    BY DEF Declara
  <1>4. Declara(it, "vICMSDeson") <=> it.icms \in {"20", "30", "40", "41", "50", "70", "90"}
    BY DEF Declara
  <1>5. Declara(it, "vFCP") <=> it.icms \in {"00", "10", "20", "51", "70", "90"}
    BY DEF Declara
  <1>6. Declara(it, "vBCST") <=> \/ it.icms \in {"10", "30", "70", "201", "202", "203"}
                                 \/ it.icms \in {"90", "900"} /\ HaST(it)
    BY DEF Declara
  <1>7. Declara(it, "vST") <=> \/ it.icms \in {"10", "30", "70", "201", "202", "203"}
                               \/ it.icms \in {"90", "900"} /\ HaST(it)
    BY DEF Declara
  <1>8. Declara(it, "vFCPST") <=>
              \/ it.icms \in {"10", "30", "70", "201", "202", "203", "90"}
              \/ it.icms = "900" /\ HaST(it)
    BY DEF Declara
  <1>9. Declara(it, "vFCPSTRet") <=> it.icms \in {"ST", "60"}
    BY DEF Declara
  <1>10. Declara(it, "vICMSMono") <=> it.icms \in {"02", "15", "53"}
    BY DEF Declara
  <1>11. Declara(it, "vICMSMonoReten") <=> it.icms = "15"
    BY DEF Declara
  <1>12. Declara(it, "vICMSMonoRet") <=> it.icms = "61"
    BY DEF Declara
  <1> HIDE DEF propria
  <1>13. Declara(it, "vICMS") <=> Declara(it, "vBC")
    BY <1>2, <1>3
  <1>14. Declara(it, "vST") <=> Declara(it, "vBCST")
    BY <1>6, <1>7
  <1> QED
    BY <1>1, <1>2, <1>4, <1>5, <1>6, <1>8, <1>9, <1>10, <1>11, <1>12, <1>13, <1>14

LEMMA DizICMS ==
  ASSUME NEW it, Natural(it, DoIcms), it.icms \in ModalidadesIcms
  PROVE  Diz(it, DoIcms, ICMS(it).filhos, Declarados(it, DoIcms))
  <1> DEFINE D == Declarados(it, DoIcms)
             s == ICMS(it).filhos
  <1>1. /\ "vBC" \in D <=> Declara(it, "vBC")
        /\ "vICMS" \in D <=> Declara(it, "vBC")
        /\ "vICMSDeson" \in D <=> Declara(it, "vICMSDeson")
        /\ "vFCP" \in D <=> Declara(it, "vFCP")
        /\ "vBCST" \in D <=> Declara(it, "vBCST")
        /\ "vICMSST" \in D <=> Declara(it, "vBCST")
        /\ "vFCPST" \in D <=> Declara(it, "vFCPST")
        /\ "vFCPSTRet" \in D <=> Declara(it, "vFCPSTRet")
        /\ "vICMSMono" \in D <=> Declara(it, "vICMSMono")
        /\ "vICMSMonoReten" \in D <=> Declara(it, "vICMSMonoReten")
        /\ "vICMSMonoRet" \in D <=> Declara(it, "vICMSMonoRet")
    BY TagsDoIcms, DeclaraIcms DEF Declarados, NoTotal
  <1>2. DaOperacao(it) = (IF DaOperacao(it) # {} THEN {"vBC", "vICMS"} ELSE {})
        /\ DaST(it) = (IF HaST(it) THEN {"vBCST", "vICMSST"} ELSE {})
    BY DEF DaOperacao, DaST
  <1> DEFINE K(x) == \A tag \in DOMAIN DoIcms : tag \in x <=> tag \in D
  <1> HIDE DEF D
  <1> SUFFICES \E x : Diz(it, DoIcms, s, x) /\ K(x)
    BY DizMesmo DEF D
  <1>3. CASE it.icms = "00"
    <2>1. s = ICMS00(it)
      BY <1>3 DEF ICMS, Grupo
    <2> DEFINE x == {"vBC", "vICMS", "vFCP"}
    <2>2. Diz(it, DoIcms, s, x)
      BY <2>1, DizICMS00
    <2>3. K(x)
      BY <1>1, <1>3, TagsDoIcms, DeclaraIcms
    <2> QED
      BY <2>2, <2>3
  <1>4. CASE it.icms = "02"
    <2>1. s = ICMS02(it)
      BY <1>4 DEF ICMS, Grupo
    <2> DEFINE x == {"vICMSMono"}
    <2>2. Diz(it, DoIcms, s, x)
      BY <2>1, DizICMS02
    <2>3. K(x)
      BY <1>1, <1>4, TagsDoIcms, DeclaraIcms
    <2> QED
      BY <2>2, <2>3
  <1>5. CASE it.icms = "10"
    <2>1. s = ICMS10(it)
      BY <1>5 DEF ICMS, Grupo
    <2> DEFINE x == {"vBC", "vICMS", "vFCP", "vBCST", "vICMSST", "vFCPST"}
    <2>2. Diz(it, DoIcms, s, x)
      BY <2>1, DizICMS10
    <2>3. K(x)
      BY <1>1, <1>5, TagsDoIcms, DeclaraIcms
    <2> QED
      BY <2>2, <2>3
  <1>6. CASE it.icms = "15"
    <2>1. s = ICMS15(it)
      BY <1>6 DEF ICMS, Grupo
    <2> DEFINE x == {"vICMSMono", "vICMSMonoReten"}
    <2>2. Diz(it, DoIcms, s, x)
      BY <2>1, DizICMS15
    <2>3. K(x)
      BY <1>1, <1>6, TagsDoIcms, DeclaraIcms
    <2> QED
      BY <2>2, <2>3
  <1>7. CASE it.icms = "20"
    <2>1. s = ICMS20(it)
      BY <1>7 DEF ICMS, Grupo
    <2> DEFINE x == {"vBC", "vICMS", "vFCP", "vICMSDeson"}
    <2>2. Diz(it, DoIcms, s, x)
      BY <2>1, DizICMS20
    <2>3. K(x)
      BY <1>1, <1>7, TagsDoIcms, DeclaraIcms
    <2> QED
      BY <2>2, <2>3
  <1>8. CASE it.icms = "30"
    <2>1. s = ICMS30(it)
      BY <1>8 DEF ICMS, Grupo
    <2> DEFINE x == {"vBCST", "vICMSST", "vFCPST", "vICMSDeson"}
    <2>2. Diz(it, DoIcms, s, x)
      BY <2>1, DizICMS30
    <2>3. K(x)
      BY <1>1, <1>8, TagsDoIcms, DeclaraIcms
    <2> QED
      BY <2>2, <2>3
  <1>9. CASE it.icms \in {"40", "41", "50"}
    <2>1. s = ICMS40(it)
      BY <1>9 DEF ICMS, Grupo
    <2> DEFINE x == {"vICMSDeson"}
    <2>2. Diz(it, DoIcms, s, x)
      BY <2>1, DizICMS40
    <2>3. K(x)
      BY <1>1, <1>9, TagsDoIcms, DeclaraIcms
    <2> QED
      BY <2>2, <2>3
  <1>10. CASE it.icms = "51"
    <2>1. s = ICMS51(it)
      BY <1>10 DEF ICMS, Grupo
    <2> DEFINE x == {"vFCP"}
    <2>2. Diz(it, DoIcms, s, x)
      BY <2>1, DizICMS51
    <2>3. K(x)
      BY <1>1, <1>10, TagsDoIcms, DeclaraIcms
    <2> QED
      BY <2>2, <2>3
  <1>11. CASE it.icms = "53"
    <2>1. s = ICMS53(it)
      BY <1>11 DEF ICMS, Grupo
    <2> DEFINE x == {"vICMSMono"}
    <2>2. Diz(it, DoIcms, s, x)
      BY <2>1, DizICMS53
    <2>3. K(x)
      BY <1>1, <1>11, TagsDoIcms, DeclaraIcms
    <2> QED
      BY <2>2, <2>3
  <1>12. CASE it.icms \in {"ST", "60"}
    <2>1. s = ICMS60(it)
      BY <1>12 DEF ICMS, Grupo
    <2> DEFINE x == {"vFCPSTRet"}
    <2>2. Diz(it, DoIcms, s, x)
      BY <2>1, DizICMS60
    <2>3. K(x)
      BY <1>1, <1>12, TagsDoIcms, DeclaraIcms
    <2> QED
      BY <2>2, <2>3
  <1>13. CASE it.icms = "61"
    <2>1. s = ICMS61(it)
      BY <1>13 DEF ICMS, Grupo
    <2> DEFINE x == {"vICMSMonoRet"}
    <2>2. Diz(it, DoIcms, s, x)
      BY <2>1, DizICMS61
    <2>3. K(x)
      BY <1>1, <1>13, TagsDoIcms, DeclaraIcms
    <2> QED
      BY <2>2, <2>3
  <1>14. CASE it.icms = "70"
    <2>1. s = ICMS70(it)
      BY <1>14 DEF ICMS, Grupo
    <2> DEFINE x == {"vBC", "vICMS", "vFCP", "vBCST", "vICMSST", "vFCPST", "vICMSDeson"}
    <2>2. Diz(it, DoIcms, s, x)
      BY <2>1, DizICMS70
    <2>3. K(x)
      BY <1>1, <1>14, TagsDoIcms, DeclaraIcms
    <2> QED
      BY <2>2, <2>3
  <1>15. CASE it.icms = "90"
    <2>1. s = ICMS90(it)
      BY <1>15 DEF ICMS, Grupo
    <2> DEFINE x == DaOperacao(it) \union DaST(it) \union {"vFCP", "vFCPST", "vICMSDeson"}
    <2>2. Diz(it, DoIcms, s, x)
      BY <2>1, DizICMS90
    <2>3. K(x)
      BY <1>1, <1>2, <1>15, TagsDoIcms, DeclaraIcms
    <2> QED
      BY <2>2, <2>3
  <1>16. CASE it.icms = "101"
    <2>1. s = ICMSSN101(it)
      BY <1>16 DEF ICMS, Grupo
    <2> DEFINE x == {}
    <2>2. Diz(it, DoIcms, s, x)
      BY <2>1, DizSimples
    <2>3. K(x)
      BY <1>1, <1>16, TagsDoIcms, DeclaraIcms
    <2> QED
      BY <2>2, <2>3
  <1>17. CASE it.icms \in {"102", "103", "300", "400"}
    <2>1. s = ICMSSN102(it)
      BY <1>17 DEF ICMS, Grupo
    <2> DEFINE x == {}
    <2>2. Diz(it, DoIcms, s, x)
      BY <2>1, DizSimples
    <2>3. K(x)
      BY <1>1, <1>17, TagsDoIcms, DeclaraIcms
    <2> QED
      BY <2>2, <2>3
  <1>18. CASE it.icms \in {"201", "202", "203"}
    <2>1. s = ICMSSN201(it)
      BY <1>18 DEF ICMS, Grupo
    <2> DEFINE x == {"vBCST", "vICMSST", "vFCPST"}
    <2>2. Diz(it, DoIcms, s, x)
      BY <2>1, DizICMSSN201
    <2>3. K(x)
      BY <1>1, <1>18, TagsDoIcms, DeclaraIcms
    <2> QED
      BY <2>2, <2>3
  <1>19. CASE it.icms = "500"
    <2>1. s = ICMSSN500(it)
      BY <1>19 DEF ICMS, Grupo
    <2> DEFINE x == {}
    <2>2. Diz(it, DoIcms, s, x)
      BY <2>1, DizSimples
    <2>3. K(x)
      BY <1>1, <1>19, TagsDoIcms, DeclaraIcms
    <2> QED
      BY <2>2, <2>3
  <1>20. CASE it.icms = "900"
    <2>1. s = ICMSSN900(it)
      BY <1>20 DEF ICMS, Grupo
    <2> DEFINE x == DaOperacao(it) \union IF HaST(it) THEN {"vBCST", "vICMSST", "vFCPST"} ELSE {}
    <2>2. Diz(it, DoIcms, s, x)
      BY <2>1, DizICMSSN900
    <2>3. K(x)
      BY <1>1, <1>2, <1>20, TagsDoIcms, DeclaraIcms
    <2> QED
      BY <2>2, <2>3
  <1> QED
    BY <1>3, <1>4, <1>5, <1>6, <1>7, <1>8, <1>9, <1>10, <1>11, <1>12, <1>13, <1>14, <1>15,
       <1>16, <1>17, <1>18, <1>19, <1>20 DEF ModalidadesIcms

-----------------------------------------------------------------------------
(* What a sequence of groups adds up to, in the groups gs and in the tag.    *)
PartesDe(s, gs, tag) ==
    [i \in 1..Len(s) |-> IF s[i].grupo \in gs THEN SomaDosElementos(s[i].filhos, tag) ELSE 0]

Vale(s, gs, tag, x) ==
    /\ Sequencia(s)
    /\ Naturais(PartesDe(s, gs, tag), Len(s))
    /\ SomaDe(s, gs, tag) = x

LEMMA ValeNatural ==
  ASSUME NEW s, NEW gs, NEW tag, NEW x, Vale(s, gs, tag, x)
  PROVE  x \in Nat
  <1> DEFINE p == PartesDe(s, gs, tag)
  <1>1. Len(s) \in Nat /\ Naturais(p, Len(s)) /\ x = Somatorio(p)
    BY DEF Vale, Sequencia, SomaDe, PartesDe
  <1> HIDE DEF p
  <1> QED
    BY <1>1, SomatorioNatural

LEMMA ValeFora ==
  ASSUME NEW s, NEW gs, NEW tag, Fora(gs, s)
  PROVE  Vale(s, gs, tag, 0)
  <1> DEFINE p == PartesDe(s, gs, tag)
             n == Len(s)
  <1>1. n \in Nat /\ Sequencia(s) /\ \A i \in 1..n : s[i].grupo \notin gs
    BY DEF Fora, Sequencia
  <1>2. SomaDe(s, gs, tag) = Somatorio(p)
    BY DEF SomaDe, PartesDe
  <1>3. p = [i \in 1..n |-> p[i]] /\ \A i \in 1..n : p[i] = 0
    BY <1>1 DEF PartesDe
  <1> HIDE DEF p, n
  <1>4. Naturais(p, n) /\ Somatorio(p) = 0
    BY <1>1, <1>3, SomatorioNulo DEF Naturais
  <1> QED
    BY <1>1, <1>2, <1>4 DEF Vale, p, n

LEMMA ValeUnico ==
  ASSUME NEW s, NEW gs, NEW tag, NEW g, Unico(gs, s, g), SomaDosElementos(g.filhos, tag) \in Nat
  PROVE  Vale(s, gs, tag, SomaDosElementos(g.filhos, tag))
  <1> DEFINE p == PartesDe(s, gs, tag)
             n == Len(s)
             x == SomaDosElementos(g.filhos, tag)
  <1>1. n \in Nat /\ Sequencia(s)
    BY DEF Unico, Sequencia
  <1>2. PICK k \in 1..n : s[k] = g /\ \A j \in 1..n : s[j].grupo \in gs <=> j = k
    BY DEF Unico
  <1>3. SomaDe(s, gs, tag) = Somatorio(p)
    BY DEF SomaDe, PartesDe
  <1>4. p = [i \in 1..n |-> p[i]]
        /\ \A i \in 1..n : p[i] = IF s[i].grupo \in gs THEN SomaDosElementos(s[i].filhos, tag)
                                  ELSE 0
    BY DEF PartesDe
  <1> HIDE DEF p, n
  <1>5. p[k] = x /\ \A j \in 1..n : j # k => p[j] = 0
    BY <1>2, <1>4
  <1>6. x \in Nat
    OBVIOUS
  <1> HIDE DEF x
  <1>7. Naturais(p, n)
    BY <1>4, <1>5, <1>6 DEF Naturais
  <1>8. Somatorio(p) = x
    BY <1>1, <1>2, <1>4, <1>5, <1>6, SomatorioUnico
  <1> QED
    BY <1>1, <1>3, <1>7, <1>8 DEF Vale, p, n, x

LEMMA ValeColada ==
  ASSUME NEW s, NEW t, NEW gs, NEW tag, NEW x, NEW y, Vale(s, gs, tag, x), Vale(t, gs, tag, y)
  PROVE  Vale(s \o t, gs, tag, x + y)
  <1> DEFINE u == s \o t
             n == Len(s)
             k == Len(t)
             p == PartesDe(s, gs, tag)
             q == PartesDe(t, gs, tag)
             r == PartesDe(u, gs, tag)
             v(g) == IF g.grupo \in gs THEN SomaDosElementos(g.filhos, tag) ELSE 0
  <1>1. Sequencia(s) /\ Sequencia(t)
    BY DEF Vale
  <1>2. /\ Sequencia(u) /\ Len(u) = n + k
        /\ \A i \in 1..n : u[i] = s[i]
        /\ \A i \in 1..k : u[n + i] = t[i]
    BY <1>1, SequenciaColada
  <1>3. n \in Nat /\ k \in Nat
    BY <1>1 DEF Sequencia
  <1>4. Somatorio(p) = x /\ Somatorio(q) = y /\ SomaDe(u, gs, tag) = Somatorio(r)
    BY DEF Vale, SomaDe, PartesDe
  <1>5. (\A i \in 1..n : p[i] = v(s[i])) /\ (\A i \in 1..k : q[i] = v(t[i]))
    BY DEF PartesDe
  <1>6. r = [i \in 1..Len(u) |-> v(u[i])]
    BY DEF PartesDe
  <1>7. Naturais(p, n) /\ Naturais(q, k)
    BY DEF Vale
  <1> HIDE DEF u, n, k, p, q, r, v
  <1>8. Seguidas(p, n, q, k, r)
    <2>1. r = [i \in 1..(n + k) |-> r[i]] /\ \A i \in 1..(n + k) : r[i] = v(u[i])
      BY <1>2, <1>6
    <2>2. \A i \in 1..n : i \in 1..(n + k)
      BY <1>3
    <2>3. \A i \in 1..k : n + i \in 1..(n + k)
      BY <1>3
    <2> QED
      BY <1>2, <1>5, <2>1, <2>2, <2>3 DEF Seguidas
  <1>9. Naturais(r, n + k) /\ Somatorio(r) = x + y
    BY <1>3, <1>4, <1>7, <1>8, SomatorioColada
  <1>10. Naturais(r, Len(u)) /\ SomaDe(u, gs, tag) = x + y
    BY <1>2, <1>4, <1>9
  <1>11. Vale(u, gs, tag, x + y)
    BY <1>2, <1>10 DEF Vale, r
  <1> QED
    BY <1>11 DEF u

(* The groups of each of a sequence, one after the other.                    *)
LEMMA ValeJuntas ==
  ASSUME NEW gs, NEW tag, NEW n \in Nat, NEW ss, ss = [i \in 1..n |-> ss[i]], NEW p,
         p = [i \in 1..n |-> p[i]],
         \A i \in 1..n : Vale(ss[i], gs, tag, p[i])
  PROVE  /\ Vale(Sequencias!FlattenSeq(ss), gs, tag, Somatorio(p))
         /\ Naturais(p, n)
  <1>1. Len(ss) = n
    OBVIOUS
  <1>2. Naturais(p, n)
    BY ValeNatural DEF Naturais
  <1>3. CASE n = 0
    <2>1. Sequencias!FlattenSeq(ss) = ss
      BY <1>1, <1>3 DEF Sequencias!FlattenSeq
    <2>2. Fora(gs, ss)
      BY <1>1, <1>3 DEF Fora
    <2>3. Somatorio(p) = 0
      <3>1. \A i \in 1..n : p[i] = 0
        BY <1>3
      <3> QED
        BY <3>1, SomatorioNulo
    <2> QED
      BY <1>2, <2>1, <2>2, <2>3, ValeFora
  <1>4. CASE n # 0
    <2> DEFINE X == UNION {{ss[i][j] : j \in 1..Len(ss[i])} : i \in 1..n}
    <2>1. ASSUME NEW i \in 1..n PROVE ss[i] \in Seq(X)
      <3>1. \A j \in 1..Len(ss[i]) : ss[i][j] \in X
        OBVIOUS
      <3>2. Sequencia(ss[i])
        BY DEF Vale
      <3> DEFINE s == ss[i]
      <3>3. Len(s) \in Nat /\ s = [j \in 1..Len(s) |-> s[j]] /\ \A j \in 1..Len(s) : s[j] \in X
        BY <3>1, <3>2 DEF Sequencia
      <3> HIDE DEF X, s
      <3>4. s \in Seq(X)
        <4>1. s \in [1..Len(s) -> X]
          BY <3>3
        <4> QED
          BY <3>3, <4>1
      <3> QED
        BY <3>4 DEF s
    <2> HIDE DEF X
    <2>2. PICK f : Juntas(X, ss, f, n) /\ Sequencias!FlattenSeq(ss) = f[n]
      BY <1>4, <2>1, DaFlatten
    <2>3. PICK g : Parcial(p, g, n)
      BY <1>2, HaParcial
    <2> DEFINE R == {i \in 1..n : ~Vale(f[i], gs, tag, g[i])}
    <2>4. R = {}
      <3>1. SUFFICES ASSUME R # {} PROVE FALSE
        OBVIOUS
      <3>2. PICK m \in R : \A k \in R : m <= k
        <4>1. R \in SUBSET Nat
          OBVIOUS
        <4> HIDE DEF R
        <4> QED
          BY <3>1, <4>1, Minimo
      <3>3. m \in 1..n /\ ~Vale(f[m], gs, tag, g[m])
        OBVIOUS
      <3>4. f[m] = (IF m = 1 THEN ss[m] ELSE f[m - 1] \o ss[m]) /\ g[m] = g[m - 1] + p[m]
            /\ g[0] = 0 /\ p[m] \in Nat /\ Vale(ss[m], gs, tag, p[m])
        BY <1>2, <2>2, <2>3, <3>3 DEF Juntas, Parcial, Naturais
      <3>5. m # 1
        BY <3>3, <3>4
      <3>6. m - 1 \in 1..n /\ m - 1 \notin R
        BY <3>2, <3>3, <3>5
      <3>7. Vale(f[m - 1], gs, tag, g[m - 1])
        BY <3>6
      <3> HIDE DEF R
      <3>8. Vale(f[m - 1] \o ss[m], gs, tag, g[m - 1] + p[m])
        BY <3>4, <3>7, ValeColada
      <3> QED
        BY <3>3, <3>4, <3>5, <3>8
    <2>5. Vale(f[n], gs, tag, g[n])
      BY <1>4, <2>4
    <2>6. Somatorio(p) = g[n]
      BY <1>2, <2>3, DoSomatorio
    <2> QED
      BY <1>2, <2>2, <2>5, <2>6
  <1> QED
    BY <1>3, <1>4

-----------------------------------------------------------------------------
(* An element that is optional.                                              *)
LEMMA DizUm ==
  ASSUME NEW it, NEW m, NEW e
  PROVE  /\ e[1] \notin DOMAIN m => Diz(it, m, <<e>>, {})
         /\ \A tag : Dito(it, m, e, tag) => Diz(it, m, <<e>>, {tag})
  <1> DEFINE s == <<e>>
  <1>1. Sequencia(s) /\ Len(s) = 1 /\ s[1] = e
    BY DEF Sequencia
  <1> HIDE DEF s
  <1>2. ASSUME e[1] \notin DOMAIN m PROVE Diz(it, m, s, {})
    BY <1>1, <1>2, DizElementos
  <1>3. ASSUME NEW tag, Dito(it, m, e, tag) PROVE Diz(it, m, s, {tag})
    BY <1>1, <1>3, DizElementos DEF Dito
  <1> QED
    BY <1>2, <1>3 DEF s

LEMMA DizMais ==
  ASSUME NEW it, NEW m, NEW s, NEW t, NEW K, Diz(it, m, s, K), Diz(it, m, t, {})
  PROVE  Diz(it, m, s \o t, K) /\ Diz(it, m, t \o s, K)
  BY DizJunto

LEMMA DizSeUm ==
  ASSUME NEW it, NEW m, Natural(it, m), NEW tag, tag \notin DOMAIN m
  PROVE  /\ \A e, campo : Diz(it, m, O(tag, e, campo), {})
         /\ \A campo : Diz(it, m, VSe(tag, it, campo), {})
         /\ \A c \in BOOLEAN : Diz(it, m, Se(c, <<T(tag)>>), {})
  <1>1. Diz(it, m, <<T(tag)>>, {}) /\ \A campo : Diz(it, m, <<V(tag, it, campo)>>, {})
    <2>1. T(tag)[1] = tag /\ \A campo : V(tag, it, campo)[1] = tag
      BY DEF T, V
    <2> QED
      BY <2>1, DizUm
  <1>2. \A c \in BOOLEAN : Diz(it, m, Se(c, <<T(tag)>>), {})
    BY <1>1, DizVazia DEF Se
  <1>3. \A e, campo : Diz(it, m, O(tag, e, campo), {})
    BY <1>1, DizVazia DEF O, Se
  <1>4. \A campo : Diz(it, m, VSe(tag, it, campo), {})
    BY <1>1, DizVazia DEF VSe, Se
  <1> QED
    BY <1>2, <1>3, <1>4

LEMMA DizVSe ==
  ASSUME NEW it, NEW m, Natural(it, m), NEW tag \in DOMAIN m, NEW campo, campo = m[tag]
  PROVE  Diz(it, m, VSe(tag, it, campo), {tag})
  <1>1. Diz(it, m, <<V(tag, it, campo)>>, {tag})
    BY DitoV, DizUm
  <1> DEFINE c == Ha(it, campo)
  <1>2. c \in BOOLEAN /\ (~c => Valor(it, m[tag]) = 0)
    BY DEF Ha, Natural
  <1> HIDE DEF c
  <1>3. Diz(it, m, Se(c, <<V(tag, it, campo)>>), {tag})
    BY <1>1, <1>2, DizSe
  <1> QED
    BY <1>3 DEF VSe, c

(* What <prod> states.                                                       *)
DoProd ==
    [vProd |-> "valor_total_bruto", vFrete |-> "total_frete", vSeg |-> "total_seguro",
     vDesc |-> "desconto", vOutro |-> "outras_despesas_acessorias"]

LEMMA TagsDoProd ==
  /\ DOMAIN DoProd = {"vProd", "vFrete", "vSeg", "vDesc", "vOutro"}
  /\ DoProd["vProd"] = "valor_total_bruto"
  /\ DoProd["vFrete"] = "total_frete"
  /\ DoProd["vSeg"] = "total_seguro"
  /\ DoProd["vDesc"] = "desconto"
  /\ DoProd["vOutro"] = "outras_despesas_acessorias"
  BY DEF DoProd

LEMMA DizProdInicio ==
  ASSUME NEW it, Natural(it, DoProd)
  PROVE  Diz(it, DoProd, <<T("cProd"), T("cEAN"), T("xProd"), T("NCM")>>, {})
  <1> DEFINE s == <<T("cProd"), T("cEAN"), T("xProd"), T("NCM")>>
  <1>2. /\ Sequencia(s) /\ Len(s) = 4 /\ s[1][1] = "cProd" /\ s[2][1] = "cEAN"
        /\ s[3][1] = "xProd" /\ s[4][1] = "NCM"
    BY DEF Sequencia, T
  <1> HIDE DEF s
  <1>3. Diz(it, DoProd, s, {})
    BY <1>2, TagsDoProd, DizElementos
  <1> QED
    BY <1>3 DEF s

LEMMA DizProdMeio ==
  ASSUME NEW it, Natural(it, DoProd)
  PROVE  Diz(it, DoProd, <<T("CFOP"), T("uCom"), T("qCom"), T("vUnCom"),
                            V("vProd", it, "valor_total_bruto"), T("cEANTrib"),
                            T("uTrib"), T("qTrib"), T("vUnTrib")>>,
                          {"vProd"})
  <1> DEFINE a == V("vProd", it, "valor_total_bruto")
             s == <<T("CFOP"), T("uCom"), T("qCom"), T("vUnCom"), a, T("cEANTrib"),
                    T("uTrib"), T("qTrib"), T("vUnTrib")>>
  <1>1. Dito(it, DoProd, a, "vProd")
    BY TagsDoProd, DitoV
  <1> HIDE DEF a
  <1>2. /\ Sequencia(s) /\ Len(s) = 9 /\ s[1][1] = "CFOP" /\ s[2][1] = "uCom"
        /\ s[3][1] = "qCom" /\ s[4][1] = "vUnCom" /\ s[5] = a /\ s[6][1] = "cEANTrib"
        /\ s[7][1] = "uTrib" /\ s[8][1] = "qTrib" /\ s[9][1] = "vUnTrib"
    BY DEF Sequencia, T
  <1> HIDE DEF s
  <1>3. \A i \in 1..9 : s[i][1] \in DOMAIN DoProd => i = 5
    BY <1>1, <1>2, TagsDoProd DEF Dito
  <1>4. Diz(it, DoProd, s, {"vProd"})
    BY <1>1, <1>2, <1>3, DizElementos DEF Dito
  <1> QED
    BY <1>4 DEF s, a

LEMMA DizProd ==
  ASSUME NEW it, Natural(it, DoProd)
  PROVE  \E h : /\ Diz(it, DoProd, h, DOMAIN DoProd)
               /\ Prod(it) = <<Grupo("prod", h)>>
                    \o Se("declaracoes_importacao" \in it.tem, DeclaracaoImportacao(it))
                    \o Se("cProdANP" \in it.tem, Combustivel(it))
  <1> DEFINE a == <<T("cProd"), T("cEAN"), T("xProd"), T("NCM")>> \o O("cBenef", it, "cbenef")
             b == <<T("CFOP"), T("uCom"), T("qCom"), T("vUnCom"),
                    V("vProd", it, "valor_total_bruto"), T("cEANTrib"), T("uTrib"), T("qTrib"),
                    T("vUnTrib")>>
             c == a \o b \o VSe("vFrete", it, "total_frete")
             d == c \o VSe("vSeg", it, "total_seguro") \o VSe("vDesc", it, "desconto")
             e == d \o VSe("vOutro", it, "outras_despesas_acessorias")
             u == <<T("indTot")>>
             f == e \o u \o O("DI", it, "declaracoes_importacao")
             g == f \o O("xPed", it, "numero_pedido") \o O("nItemPed", it, "numero_item")
             h == g \o O("nFCI", it, "nfci") \o O("comb", it, "cProdANP")
  <1>1. Prod(it) = <<Grupo("prod", h)>>
                     \o Se("declaracoes_importacao" \in it.tem, DeclaracaoImportacao(it))
                     \o Se("cProdANP" \in it.tem, Combustivel(it))
    BY DEF Prod
  <1>2. \A tag \in {"cBenef", "indTot", "DI", "xPed", "nItemPed", "nFCI", "comb"} :
           tag \notin DOMAIN DoProd
    BY TagsDoProd
  <1>3. Diz(it, DoProd, a, {})
    <2>1. Diz(it, DoProd, O("cBenef", it, "cbenef"), {})
      BY <1>2, DizSeUm
    <2> QED
      BY <2>1, DizProdInicio, DizJunto
  <1>4. Diz(it, DoProd, b, {"vProd"})
    BY DizProdMeio
  <1>5. /\ Diz(it, DoProd, VSe("vFrete", it, "total_frete"), {"vFrete"})
        /\ Diz(it, DoProd, VSe("vSeg", it, "total_seguro"), {"vSeg"})
        /\ Diz(it, DoProd, VSe("vDesc", it, "desconto"), {"vDesc"})
        /\ Diz(it, DoProd, VSe("vOutro", it, "outras_despesas_acessorias"), {"vOutro"})
    BY TagsDoProd, DizVSe
  <1>6. /\ Diz(it, DoProd, O("DI", it, "declaracoes_importacao"), {})
        /\ Diz(it, DoProd, O("xPed", it, "numero_pedido"), {})
        /\ Diz(it, DoProd, O("nItemPed", it, "numero_item"), {})
        /\ Diz(it, DoProd, O("nFCI", it, "nfci"), {})
        /\ Diz(it, DoProd, O("comb", it, "cProdANP"), {})
    BY <1>2, DizSeUm
  <1>7. Diz(it, DoProd, u, {})
    <2>1. T("indTot")[1] \notin DOMAIN DoProd
      BY <1>2 DEF T
    <2> QED
      BY <2>1, DizUm
  <1> HIDE DEF a, b, u
  <1>8. Diz(it, DoProd, c, {"vProd", "vFrete"})
    <2>1. Diz(it, DoProd, a \o b, {"vProd"})
      BY <1>3, <1>4, DizJunto
    <2> QED
      BY <1>5, <2>1, DizJunto
  <1> HIDE DEF c
  <1>9. Diz(it, DoProd, d, {"vProd", "vFrete", "vSeg", "vDesc"})
    <2>1. Diz(it, DoProd, c \o VSe("vSeg", it, "total_seguro"), {"vProd", "vFrete", "vSeg"})
      BY <1>5, <1>8, DizJunto
    <2> QED
      BY <1>5, <2>1, DizJunto
  <1> HIDE DEF d
  <1>10. Diz(it, DoProd, e, DOMAIN DoProd)
    <2>1. Diz(it, DoProd, e, {"vProd", "vFrete", "vSeg", "vDesc", "vOutro"})
      BY <1>5, <1>9, DizJunto
    <2>2. DOMAIN DoProd = {"vProd", "vFrete", "vSeg", "vDesc", "vOutro"}
      BY TagsDoProd
    <2> QED
      BY <2>1, <2>2
  <1> HIDE DEF e
  <1>11. Diz(it, DoProd, f, DOMAIN DoProd)
    <2>1. Diz(it, DoProd, e \o u, DOMAIN DoProd)
      BY <1>7, <1>10, DizMais
    <2> QED
      BY <1>6, <2>1, DizMais
  <1> HIDE DEF f
  <1>12. Diz(it, DoProd, g, DOMAIN DoProd)
    <2>1. Diz(it, DoProd, f \o O("xPed", it, "numero_pedido"), DOMAIN DoProd)
      BY <1>6, <1>11, DizMais
    <2> QED
      BY <1>6, <2>1, DizMais
  <1> HIDE DEF g
  <1>13. Diz(it, DoProd, h, DOMAIN DoProd)
    <2>1. Diz(it, DoProd, g \o O("nFCI", it, "nfci"), DOMAIN DoProd)
      BY <1>6, <1>12, DizMais
    <2> QED
      BY <1>6, <2>1, DizMais
  <1> HIDE DEF h
  <1> QED
    BY <1>1, <1>13

-----------------------------------------------------------------------------
(* The amounts of the other taxes of an item.                                *)
DoTributo ==
    [vII |-> "imposto_importacao_valor", vIPI |-> "ipi_valor_ipi",
     vIPIDevol |-> "ipi_valor_ipi_dev", vPIS |-> "pis_valor", vCOFINS |-> "cofins_valor",
     vIBSUF |-> "ibscbs_v_ibs_uf", vIBSMun |-> "ibscbs_v_ibs_mun", vCBS |-> "ibscbs_v_cbs"]

LEMMA TagsDoTributo ==
  /\ DOMAIN DoTributo = {"vII", "vIPI", "vIPIDevol", "vPIS", "vCOFINS", "vIBSUF", "vIBSMun",
                         "vCBS"}
  /\ DoTributo["vII"] = "imposto_importacao_valor"
  /\ DoTributo["vIPI"] = "ipi_valor_ipi"
  /\ DoTributo["vIPIDevol"] = "ipi_valor_ipi_dev"
  /\ DoTributo["vPIS"] = "pis_valor"
  /\ DoTributo["vCOFINS"] = "cofins_valor"
  /\ DoTributo["vIBSUF"] = "ibscbs_v_ibs_uf"
  /\ DoTributo["vIBSMun"] = "ibscbs_v_ibs_mun"
  /\ DoTributo["vCBS"] = "ibscbs_v_cbs"
  BY DEF DoTributo

DoIbsCbs ==
    [vBC |-> "ibscbs_vbc", vIBS |-> "ibscbs_v_ibs"]

LEMMA TagsDoIbsCbs ==
  /\ DOMAIN DoIbsCbs = {"vBC", "vIBS"}
  /\ DoIbsCbs["vBC"] = "ibscbs_vbc"
  /\ DoIbsCbs["vIBS"] = "ibscbs_v_ibs"
  BY DEF DoIbsCbs

LEMMA DizII ==
  ASSUME NEW it, Natural(it, DoTributo)
  PROVE  Diz(it, DoTributo, <<V("vBC", it, "imposto_importacao_valor_base_calculo"),
                               V("vDespAdu", it, "imposto_importacao_valor_despesas_aduaneiras"),
                               V("vII", it, "imposto_importacao_valor"),
                               V("vIOF", it, "imposto_importacao_valor_iof")>>,
                             {"vII"})
  <1> DEFINE a == V("vII", it, "imposto_importacao_valor")
             s == <<V("vBC", it, "imposto_importacao_valor_base_calculo"),
                    V("vDespAdu", it, "imposto_importacao_valor_despesas_aduaneiras"), a,
                    V("vIOF", it, "imposto_importacao_valor_iof")>>
  <1>1. Dito(it, DoTributo, a, "vII")
    BY TagsDoTributo, DitoV
  <1> HIDE DEF a
  <1>2. /\ Sequencia(s) /\ Len(s) = 4 /\ s[1][1] = "vBC" /\ s[2][1] = "vDespAdu"
        /\ s[3] = a /\ s[4][1] = "vIOF"
    BY DEF Sequencia, V
  <1> HIDE DEF s
  <1>3. Diz(it, DoTributo, s, {"vII"})
    BY <1>1, <1>2, TagsDoTributo, DizElementos DEF Dito
  <1> QED
    BY <1>3 DEF s, a

LEMMA DizIPITrib ==
  ASSUME NEW it, Natural(it, DoTributo)
  PROVE  Diz(it, DoTributo, <<T("CST"), V("vBC", it, "ipi_valor_base_calculo"),
                               T("pIPI"), V("vIPI", it, "ipi_valor_ipi")>>,
                             {"vIPI"})
  <1> DEFINE a == V("vIPI", it, "ipi_valor_ipi")
             s == <<T("CST"), V("vBC", it, "ipi_valor_base_calculo"), T("pIPI"), a>>
  <1>1. Dito(it, DoTributo, a, "vIPI")
    BY TagsDoTributo, DitoV
  <1> HIDE DEF a
  <1>2. /\ Sequencia(s) /\ Len(s) = 4 /\ s[1][1] = "CST" /\ s[2][1] = "vBC"
        /\ s[3][1] = "pIPI" /\ s[4] = a
    BY DEF Sequencia, T, V
  <1> HIDE DEF s
  <1>3. Diz(it, DoTributo, s, {"vIPI"})
    BY <1>1, <1>2, TagsDoTributo, DizElementos DEF Dito
  <1> QED
    BY <1>3 DEF s, a

LEMMA DizIBSCBS ==
  ASSUME NEW it, Natural(it, DoIbsCbs)
  PROVE  Diz(it, DoIbsCbs, <<V("vBC", it, "ibscbs_vbc"), T("gIBSUF"), T("gIBSMun"),
                              V("vIBS", it, "ibscbs_v_ibs"), T("gCBS")>>,
                            {"vBC", "vIBS"})
  <1> DEFINE a == V("vBC", it, "ibscbs_vbc")
             b == V("vIBS", it, "ibscbs_v_ibs")
             s == <<a, T("gIBSUF"), T("gIBSMun"), b, T("gCBS")>>
  <1>1. /\ Dito(it, DoIbsCbs, a, "vBC")
        /\ Dito(it, DoIbsCbs, b, "vIBS")
    BY TagsDoIbsCbs, DitoV
  <1> HIDE DEF a, b
  <1>2. /\ Sequencia(s) /\ Len(s) = 5 /\ s[1] = a /\ s[2][1] = "gIBSUF"
        /\ s[3][1] = "gIBSMun" /\ s[4] = b /\ s[5][1] = "gCBS"
    BY DEF Sequencia, T
  <1> HIDE DEF s
  <1>3. Diz(it, DoIbsCbs, s, {"vBC", "vIBS"})
    BY <1>1, <1>2, TagsDoIbsCbs, DizElementos DEF Dito
  <1> QED
    BY <1>3 DEF s, a, b

LEMMA DizIBSUF ==
  ASSUME NEW it, Natural(it, DoTributo)
  PROVE  Diz(it, DoTributo, <<T("pIBSUF"), V("vIBSUF", it, "ibscbs_v_ibs_uf")>>, {"vIBSUF"})
  <1> DEFINE a == V("vIBSUF", it, "ibscbs_v_ibs_uf")
             s == <<T("pIBSUF"), a>>
  <1>1. Dito(it, DoTributo, a, "vIBSUF")
    BY TagsDoTributo, DitoV
  <1> HIDE DEF a
  <1>2. /\ Sequencia(s) /\ Len(s) = 2 /\ s[1][1] = "pIBSUF" /\ s[2] = a
    BY DEF Sequencia, T
  <1> HIDE DEF s
  <1>3. Diz(it, DoTributo, s, {"vIBSUF"})
    BY <1>1, <1>2, TagsDoTributo, DizElementos DEF Dito
  <1> QED
    BY <1>3 DEF s, a

LEMMA DizIBSMun ==
  ASSUME NEW it, Natural(it, DoTributo)
  PROVE  Diz(it, DoTributo, <<T("pIBSMun"), V("vIBSMun", it, "ibscbs_v_ibs_mun")>>, {"vIBSMun"})
  <1> DEFINE a == V("vIBSMun", it, "ibscbs_v_ibs_mun")
             s == <<T("pIBSMun"), a>>
  <1>1. Dito(it, DoTributo, a, "vIBSMun")
    BY TagsDoTributo, DitoV
  <1> HIDE DEF a
  <1>2. /\ Sequencia(s) /\ Len(s) = 2 /\ s[1][1] = "pIBSMun" /\ s[2] = a
    BY DEF Sequencia, T
  <1> HIDE DEF s
  <1>3. Diz(it, DoTributo, s, {"vIBSMun"})
    BY <1>1, <1>2, TagsDoTributo, DizElementos DEF Dito
  <1> QED
    BY <1>3 DEF s, a

LEMMA DizCBS ==
  ASSUME NEW it, Natural(it, DoTributo)
  PROVE  Diz(it, DoTributo, <<T("pCBS"), V("vCBS", it, "ibscbs_v_cbs")>>, {"vCBS"})
  <1> DEFINE a == V("vCBS", it, "ibscbs_v_cbs")
             s == <<T("pCBS"), a>>
  <1>1. Dito(it, DoTributo, a, "vCBS")
    BY TagsDoTributo, DitoV
  <1> HIDE DEF a
  <1>2. /\ Sequencia(s) /\ Len(s) = 2 /\ s[1][1] = "pCBS" /\ s[2] = a
    BY DEF Sequencia, T
  <1> HIDE DEF s
  <1>3. Diz(it, DoTributo, s, {"vCBS"})
    BY <1>1, <1>2, TagsDoTributo, DizElementos DEF Dito
  <1> QED
    BY <1>3 DEF s, a

LEMMA DizDevolvido ==
  ASSUME NEW it, Natural(it, DoTributo)
  PROVE  Diz(it, DoTributo, <<V("vIPIDevol", it, "ipi_valor_ipi_dev")>>, {"vIPIDevol"})
  <1> DEFINE a == V("vIPIDevol", it, "ipi_valor_ipi_dev")
             s == <<a>>
  <1>1. Dito(it, DoTributo, a, "vIPIDevol")
    BY TagsDoTributo, DitoV
  <1> HIDE DEF a
  <1>2. /\ Sequencia(s) /\ Len(s) = 1 /\ s[1] = a
    BY DEF Sequencia
  <1> HIDE DEF s
  <1>3. Diz(it, DoTributo, s, {"vIPIDevol"})
    BY <1>1, <1>2, TagsDoTributo, DizElementos DEF Dito
  <1> QED
    BY <1>3 DEF s, a

(* PIS and COFINS: the amount comes last, after the base by percentage or by  *)
(* quantity.                                                                 *)
LEMMA DizContribuicao ==
  ASSUME NEW it, Natural(it, DoTributo), NEW tag \in {"vPIS", "vCOFINS"}, NEW campo,
         campo = DoTributo[tag], NEW base, NEW p \in {"pPIS", "pCOFINS"}
  PROVE  LET valor == V(tag, it, campo)
             pct == <<V("vBC", it, base), T(p)>>
             qtde == <<T("qBCProd"), T("vAliqProd")>>
         IN  /\ Diz(it, DoTributo, <<T("CST")>>, {})
             /\ Diz(it, DoTributo, <<T("CST")>> \o Append(pct, valor), {tag})
             /\ Diz(it, DoTributo, <<T("CST")>> \o Append(qtde, valor), {tag})
             /\ Diz(it, DoTributo, <<T("CST")>> \o pct \o <<valor>>, {tag})
             /\ Diz(it, DoTributo, <<T("CST")>> \o qtde \o <<valor>>, {tag})
  <1> DEFINE valor == V(tag, it, campo)
             a == V("vBC", it, base)
             b == T(p)
             c == T("qBCProd")
             d == T("vAliqProd")
             cst == T("CST")
  <1>1. a[1] = "vBC" /\ b[1] = p /\ c[1] = "qBCProd" /\ d[1] = "vAliqProd" /\ cst[1] = "CST"
    BY DEF V, T
  <1>2. Dito(it, DoTributo, valor, tag)
    BY TagsDoTributo, DitoV
  <1> HIDE DEF a, b, c, d, cst, valor
  <1> DEFINE um == <<cst>>
             pct == <<a, b>>
             qtde == <<c, d>>
             v == <<valor>>
  <1>3. Diz(it, DoTributo, um, {}) /\ Diz(it, DoTributo, v, {tag})
    BY <1>1, <1>2, TagsDoTributo, DizUm
  <1>4. ASSUME NEW e, NEW f, e[1] \notin DOMAIN DoTributo, f[1] \notin DOMAIN DoTributo
        PROVE  Diz(it, DoTributo, <<e, f>>, {}) /\ Append(<<e, f>>, valor) = <<e, f>> \o <<valor>>
    <2> DEFINE s == <<e, f>>
    <2>1. Sequencia(s) /\ Len(s) = 2 /\ s[1] = e /\ s[2] = f
      BY DEF Sequencia
    <2>2. Append(s, valor) = s \o <<valor>>
      OBVIOUS
    <2> HIDE DEF s
    <2>3. Diz(it, DoTributo, s, {})
      BY <1>4, <2>1, DizElementos
    <2> QED
      BY <2>2, <2>3 DEF s
  <1>5. /\ Diz(it, DoTributo, pct, {}) /\ Append(pct, valor) = pct \o v
        /\ Diz(it, DoTributo, qtde, {}) /\ Append(qtde, valor) = qtde \o v
    <2>1. /\ a[1] \notin DOMAIN DoTributo /\ b[1] \notin DOMAIN DoTributo
          /\ c[1] \notin DOMAIN DoTributo /\ d[1] \notin DOMAIN DoTributo
      BY <1>1, TagsDoTributo
    <2> QED
      BY <1>4, <2>1
  <1> DEFINE ap == Append(pct, valor)
             aq == Append(qtde, valor)
  <1> HIDE DEF um, pct, qtde, v
  <1>6. Diz(it, DoTributo, ap, {tag}) /\ Diz(it, DoTributo, aq, {tag})
    BY <1>3, <1>5, DizMais
  <1> HIDE DEF ap, aq
  <1>7. Diz(it, DoTributo, um \o ap, {tag}) /\ Diz(it, DoTributo, um \o aq, {tag})
    BY <1>3, <1>6, DizMais
  <1>8. Diz(it, DoTributo, um \o pct, {}) /\ Diz(it, DoTributo, um \o qtde, {})
    BY <1>3, <1>5, DizMais
  <1>9. Diz(it, DoTributo, um \o pct \o v, {tag}) /\ Diz(it, DoTributo, um \o qtde \o v, {tag})
    BY <1>3, <1>8, DizMais
  <1> QED
    BY <1>3, <1>7, <1>9 DEF um, pct, qtde, v, ap, aq, a, b, c, d, cst, valor

LEMMA DizPIS ==
  ASSUME NEW it, Natural(it, DoTributo)
  PROVE  Diz(it, DoTributo, PIS(it).filhos, IF it.pis \in SemTributo THEN {} ELSE {"vPIS"})
  <1> DEFINE valor == V("vPIS", it, "pis_valor")
             pct == <<V("vBC", it, "pis_valor_base_calculo"), T("pPIS")>>
             qtde == <<T("qBCProd"), T("vAliqProd")>>
  <1>1. /\ Diz(it, DoTributo, <<T("CST")>>, {})
        /\ Diz(it, DoTributo, <<T("CST")>> \o Append(pct, valor), {"vPIS"})
        /\ Diz(it, DoTributo, <<T("CST")>> \o Append(qtde, valor), {"vPIS"})
        /\ Diz(it, DoTributo, <<T("CST")>> \o pct \o <<valor>>, {"vPIS"})
        /\ Diz(it, DoTributo, <<T("CST")>> \o qtde \o <<valor>>, {"vPIS"})
    BY TagsDoTributo, DizContribuicao
  <1>2. PIS(it).filhos = IF it.pis \in SemTributo THEN <<T("CST")>>
                         ELSE IF it.pis \in {"01", "02"} THEN <<T("CST")>> \o Append(pct, valor)
                         ELSE IF it.pis = "03" THEN <<T("CST")>> \o Append(qtde, valor)
                         ELSE <<T("CST")>> \o (IF Ha(it, "pis_aliquota_reais") THEN qtde ELSE pct)
                                \o <<valor>>
    BY DEF PIS, Grupo, SemTributo
  <1> HIDE DEF valor, pct, qtde
  <1> QED
    BY <1>1, <1>2

LEMMA DizCOFINS ==
  ASSUME NEW it, Natural(it, DoTributo)
  PROVE  Diz(it, DoTributo, COFINS(it).filhos,
             IF it.cofins \in SemTributo THEN {} ELSE {"vCOFINS"})
  <1> DEFINE valor == V("vCOFINS", it, "cofins_valor")
             pct == <<V("vBC", it, "cofins_valor_base_calculo"), T("pCOFINS")>>
             qtde == <<T("qBCProd"), T("vAliqProd")>>
  <1>1. /\ Diz(it, DoTributo, <<T("CST")>>, {})
        /\ Diz(it, DoTributo, <<T("CST")>> \o Append(pct, valor), {"vCOFINS"})
        /\ Diz(it, DoTributo, <<T("CST")>> \o Append(qtde, valor), {"vCOFINS"})
        /\ Diz(it, DoTributo, <<T("CST")>> \o pct \o <<valor>>, {"vCOFINS"})
        /\ Diz(it, DoTributo, <<T("CST")>> \o qtde \o <<valor>>, {"vCOFINS"})
    BY TagsDoTributo, DizContribuicao
  <1>2. COFINS(it).filhos
          = IF it.cofins \in SemTributo THEN <<T("CST")>>
            ELSE IF it.cofins \in {"01", "02"} THEN <<T("CST")>> \o Append(pct, valor)
            ELSE IF it.cofins = "03" THEN <<T("CST")>> \o Append(qtde, valor)
            ELSE <<T("CST")>> \o (IF Ha(it, "cofins_aliquota_reais") THEN qtde ELSE pct)
                   \o <<valor>>
    BY DEF COFINS, Grupo, SemTributo
  <1> HIDE DEF valor, pct, qtde
  <1> QED
    BY <1>1, <1>2

-----------------------------------------------------------------------------
(* The totals of the note.                                                   *)
DoTotal ==
    [vBC |-> "totais_icms_base_calculo", vICMS |-> "totais_icms_total",
     vICMSDeson |-> "totais_icms_desonerado", vFCP |-> "totais_fcp",
     vBCST |-> "totais_icms_st_base_calculo", vST |-> "totais_icms_st_total",
     vFCPST |-> "totais_fcp_st", vFCPSTRet |-> "totais_fcp_st_ret",
     vICMSMono |-> "totais_icms_v_icms_mono",
     vICMSMonoReten |-> "totais_icms_v_icms_mono_reten",
     vICMSMonoRet |-> "totais_icms_v_icms_mono_ret",
     vProd |-> "totais_icms_total_produtos_e_servicos", vFrete |-> "totais_icms_total_frete",
     vSeg |-> "totais_icms_total_seguro", vDesc |-> "totais_icms_total_desconto",
     vII |-> "totais_icms_total_ii", vIPI |-> "totais_icms_total_ipi",
     vIPIDevol |-> "totais_icms_total_ipi_dev", vPIS |-> "totais_icms_pis",
     vCOFINS |-> "totais_icms_cofins", vOutro |-> "totais_icms_outras_despesas_acessorias"]

LEMMA TagsDoTotal ==
  /\ DOMAIN DoTotal = {"vBC", "vICMS", "vICMSDeson", "vFCP", "vBCST", "vST", "vFCPST",
                       "vFCPSTRet", "vICMSMono", "vICMSMonoReten", "vICMSMonoRet", "vProd",
                       "vFrete", "vSeg", "vDesc", "vII", "vIPI", "vIPIDevol", "vPIS", "vCOFINS",
                       "vOutro"}
  /\ DoTotal["vBC"] = "totais_icms_base_calculo"
  /\ DoTotal["vICMS"] = "totais_icms_total"
  /\ DoTotal["vICMSDeson"] = "totais_icms_desonerado"
  /\ DoTotal["vFCP"] = "totais_fcp"
  /\ DoTotal["vBCST"] = "totais_icms_st_base_calculo"
  /\ DoTotal["vST"] = "totais_icms_st_total"
  /\ DoTotal["vFCPST"] = "totais_fcp_st"
  /\ DoTotal["vFCPSTRet"] = "totais_fcp_st_ret"
  /\ DoTotal["vICMSMono"] = "totais_icms_v_icms_mono"
  /\ DoTotal["vICMSMonoReten"] = "totais_icms_v_icms_mono_reten"
  /\ DoTotal["vICMSMonoRet"] = "totais_icms_v_icms_mono_ret"
  /\ DoTotal["vProd"] = "totais_icms_total_produtos_e_servicos"
  /\ DoTotal["vFrete"] = "totais_icms_total_frete"
  /\ DoTotal["vSeg"] = "totais_icms_total_seguro"
  /\ DoTotal["vDesc"] = "totais_icms_total_desconto"
  /\ DoTotal["vII"] = "totais_icms_total_ii"
  /\ DoTotal["vIPI"] = "totais_icms_total_ipi"
  /\ DoTotal["vIPIDevol"] = "totais_icms_total_ipi_dev"
  /\ DoTotal["vPIS"] = "totais_icms_pis"
  /\ DoTotal["vCOFINS"] = "totais_icms_cofins"
  /\ DoTotal["vOutro"] = "totais_icms_outras_despesas_acessorias"
  BY DEF DoTotal

DoTotalIbs ==
    [vBCIBSCBS |-> "totais_vbc_ibscbs", vIBS |-> "totais_ibs", vIBSUF |-> "totais_ibs_uf",
     vIBSMun |-> "totais_ibs_mun", vCBS |-> "totais_cbs"]

LEMMA TagsDoTotalIbs ==
  /\ DOMAIN DoTotalIbs = {"vBCIBSCBS", "vIBS", "vIBSUF", "vIBSMun", "vCBS"}
  /\ DoTotalIbs["vBCIBSCBS"] = "totais_vbc_ibscbs"
  /\ DoTotalIbs["vIBS"] = "totais_ibs"
  /\ DoTotalIbs["vIBSUF"] = "totais_ibs_uf"
  /\ DoTotalIbs["vIBSMun"] = "totais_ibs_mun"
  /\ DoTotalIbs["vCBS"] = "totais_cbs"
  BY DEF DoTotalIbs

LEMMA DizTotProprio ==
  ASSUME NEW n, Natural(n, DoTotal)
  PROVE  Diz(n, DoTotal, <<V("vBC", n, "totais_icms_base_calculo"),
                            V("vICMS", n, "totais_icms_total"),
                            V("vICMSDeson", n, "totais_icms_desonerado")>>,
                          {"vBC", "vICMS", "vICMSDeson"})
  <1> DEFINE a == V("vBC", n, "totais_icms_base_calculo")
             b == V("vICMS", n, "totais_icms_total")
             c == V("vICMSDeson", n, "totais_icms_desonerado")
             s == <<a, b, c>>
  <1>1. /\ Dito(n, DoTotal, a, "vBC")
        /\ Dito(n, DoTotal, b, "vICMS")
        /\ Dito(n, DoTotal, c, "vICMSDeson")
    BY TagsDoTotal, DitoV
  <1> HIDE DEF a, b, c
  <1>2. /\ Sequencia(s) /\ Len(s) = 3 /\ s[1] = a /\ s[2] = b /\ s[3] = c
    BY DEF Sequencia
  <1> HIDE DEF s
  <1>3. Diz(n, DoTotal, s, {"vBC", "vICMS", "vICMSDeson"})
    BY <1>1, <1>2, TagsDoTotal, DizElementos DEF Dito
  <1> QED
    BY <1>3 DEF s, a, b, c

LEMMA DizTotSt ==
  ASSUME NEW n, Natural(n, DoTotal)
  PROVE  Diz(n, DoTotal, <<V("vFCP", n, "totais_fcp"),
                            V("vBCST", n, "totais_icms_st_base_calculo"),
                            V("vST", n, "totais_icms_st_total"),
                            V("vFCPST", n, "totais_fcp_st"),
                            V("vFCPSTRet", n, "totais_fcp_st_ret")>>,
                          {"vFCP", "vBCST", "vST", "vFCPST", "vFCPSTRet"})
  <1> DEFINE a == V("vFCP", n, "totais_fcp")
             b == V("vBCST", n, "totais_icms_st_base_calculo")
             c == V("vST", n, "totais_icms_st_total")
             d == V("vFCPST", n, "totais_fcp_st")
             e == V("vFCPSTRet", n, "totais_fcp_st_ret")
             s == <<a, b, c, d, e>>
  <1>1. /\ Dito(n, DoTotal, a, "vFCP")
        /\ Dito(n, DoTotal, b, "vBCST")
        /\ Dito(n, DoTotal, c, "vST")
        /\ Dito(n, DoTotal, d, "vFCPST")
        /\ Dito(n, DoTotal, e, "vFCPSTRet")
    BY TagsDoTotal, DitoV
  <1> HIDE DEF a, b, c, d, e
  <1>2. /\ Sequencia(s) /\ Len(s) = 5 /\ s[1] = a /\ s[2] = b /\ s[3] = c /\ s[4] = d
        /\ s[5] = e
    BY DEF Sequencia
  <1> HIDE DEF s
  <1>3. Diz(n, DoTotal, s, {"vFCP", "vBCST", "vST", "vFCPST", "vFCPSTRet"})
    BY <1>1, <1>2, TagsDoTotal, DizElementos DEF Dito
  <1> QED
    BY <1>3 DEF s, a, b, c, d, e

LEMMA DizTotProdutos ==
  ASSUME NEW n, Natural(n, DoTotal)
  PROVE  Diz(n, DoTotal, <<V("vProd", n, "totais_icms_total_produtos_e_servicos"),
                            V("vFrete", n, "totais_icms_total_frete"),
                            V("vSeg", n, "totais_icms_total_seguro"),
                            V("vDesc", n, "totais_icms_total_desconto"),
                            V("vII", n, "totais_icms_total_ii"),
                            V("vIPI", n, "totais_icms_total_ipi"),
                            V("vIPIDevol", n, "totais_icms_total_ipi_dev"),
                            V("vPIS", n, "totais_icms_pis"),
                            V("vCOFINS", n, "totais_icms_cofins"),
                            V("vOutro", n, "totais_icms_outras_despesas_acessorias"),
                            V("vNF", n, "totais_icms_total_nota")>>,
                          {"vProd", "vFrete", "vSeg", "vDesc", "vII", "vIPI", "vIPIDevol", "vPIS",
                           "vCOFINS", "vOutro"})
  <1> DEFINE a == V("vProd", n, "totais_icms_total_produtos_e_servicos")
             b == V("vFrete", n, "totais_icms_total_frete")
             c == V("vSeg", n, "totais_icms_total_seguro")
             d == V("vDesc", n, "totais_icms_total_desconto")
             e == V("vII", n, "totais_icms_total_ii")
             f == V("vIPI", n, "totais_icms_total_ipi")
             g == V("vIPIDevol", n, "totais_icms_total_ipi_dev")
             h == V("vPIS", n, "totais_icms_pis")
             i == V("vCOFINS", n, "totais_icms_cofins")
             j == V("vOutro", n, "totais_icms_outras_despesas_acessorias")
             s == <<a, b, c, d, e, f, g, h, i, j, V("vNF", n, "totais_icms_total_nota")>>
             C == {"vProd", "vFrete", "vSeg", "vDesc", "vII", "vIPI", "vIPIDevol", "vPIS",
                   "vCOFINS", "vOutro"}
  <1>1. /\ Dito(n, DoTotal, a, "vProd")
        /\ Dito(n, DoTotal, b, "vFrete")
        /\ Dito(n, DoTotal, c, "vSeg")
        /\ Dito(n, DoTotal, d, "vDesc")
        /\ Dito(n, DoTotal, e, "vII")
        /\ Dito(n, DoTotal, f, "vIPI")
        /\ Dito(n, DoTotal, g, "vIPIDevol")
        /\ Dito(n, DoTotal, h, "vPIS")
        /\ Dito(n, DoTotal, i, "vCOFINS")
        /\ Dito(n, DoTotal, j, "vOutro")
    BY TagsDoTotal, DitoV
  <1> HIDE DEF a, b, c, d, e, f, g, h, i, j
  <1>2. /\ Sequencia(s) /\ Len(s) = 11 /\ s[1] = a /\ s[2] = b /\ s[3] = c /\ s[4] = d
        /\ s[5] = e /\ s[6] = f /\ s[7] = g /\ s[8] = h /\ s[9] = i /\ s[10] = j
        /\ s[11][1] = "vNF"
    BY DEF Sequencia, V
  <1> HIDE DEF s
  <1>3. /\ s[1][1] = "vProd" /\ s[2][1] = "vFrete" /\ s[3][1] = "vSeg" /\ s[4][1] = "vDesc"
        /\ s[5][1] = "vII" /\ s[6][1] = "vIPI" /\ s[7][1] = "vIPIDevol" /\ s[8][1] = "vPIS"
        /\ s[9][1] = "vCOFINS" /\ s[10][1] = "vOutro" /\ s[11][1] = "vNF"
    BY <1>1, <1>2 DEF Dito
  <1>4. \A k, l \in 1..11 : s[k][1] = s[l][1] => k = l
    <2>1. \A k \in 1..11 : k \in 1..5 \/ k \in 6..11
      OBVIOUS
    <2>2. \A k, l \in 1..5 : s[k][1] = s[l][1] => k = l
      BY <1>3
    <2>3. \A k, l \in 6..11 : s[k][1] = s[l][1] => k = l
      BY <1>3
    <2>4. \A k \in 1..5 : \A l \in 6..11 : s[k][1] # s[l][1]
      BY <1>3
    <2> QED
      BY <2>1, <2>2, <2>3, <2>4
  <1>5. \A k \in 1..10 : \E tag \in C : Dito(n, DoTotal, s[k], tag)
    <2>1. \A tag \in {"vProd", "vFrete", "vSeg", "vDesc", "vII", "vIPI", "vIPIDevol", "vPIS",
                      "vCOFINS", "vOutro"} : tag \in C
      OBVIOUS
    <2> HIDE DEF C
    <2>2. \A k \in 1..5 : \E tag \in C : Dito(n, DoTotal, s[k], tag)
      BY <1>1, <1>2, <2>1
    <2>3. \A k \in 6..10 : \E tag \in C : Dito(n, DoTotal, s[k], tag)
      BY <1>1, <1>2, <2>1
    <2> QED
      BY <2>2, <2>3
  <1>6. s[11][1] \notin DOMAIN DoTotal
    BY <1>2, TagsDoTotal
  <1>7. \A tag \in C : \E k \in 1..11 : s[k][1] = tag
    <2> DEFINE R == {s[k][1] : k \in 1..11}
    <2>1. /\ "vProd" \in R /\ "vFrete" \in R /\ "vSeg" \in R /\ "vDesc" \in R /\ "vII" \in R
          /\ "vIPI" \in R /\ "vIPIDevol" \in R /\ "vPIS" \in R /\ "vCOFINS" \in R
          /\ "vOutro" \in R
      BY <1>3
    <2>2. \A tag \in R : \E k \in 1..11 : s[k][1] = tag
      OBVIOUS
    <2> HIDE DEF R
    <2> QED
      BY <2>1, <2>2
  <1> HIDE DEF C
  <1>8. Diz(n, DoTotal, s, C)
    <2>1. Sequencia(s) /\ Len(s) = 11 /\ \A k \in 1..11 : k # 11 => k \in 1..10
      BY <1>2
    <2>2. \A k \in 1..11 : s[k][1] \in DOMAIN DoTotal =>
                /\ s[k][1] \in C /\ Certo(s[k][2], Valor(n, DoTotal[s[k][1]]))
                /\ \A l \in 1..11 : s[l][1] = s[k][1] => l = k
      BY <1>4, <1>5, <1>6, <2>1 DEF Dito
    <2> QED
      BY <1>7, <2>1, <2>2, DizElementos
  <1> QED
    BY <1>8 DEF s, C, a, b, c, d, e, f, g, h, i, j

LEMMA DizICMSTot ==
  ASSUME NEW n, Natural(n, DoTotal)
  PROVE  Diz(n, DoTotal, ICMSTot(n).filhos, DOMAIN DoTotal)
  <1> DEFINE a == <<V("vBC", n, "totais_icms_base_calculo"), V("vICMS", n, "totais_icms_total"),
                    V("vICMSDeson", n, "totais_icms_desonerado")>>
             b == <<V("vFCP", n, "totais_fcp"), V("vBCST", n, "totais_icms_st_base_calculo"),
                    V("vST", n, "totais_icms_st_total"), V("vFCPST", n, "totais_fcp_st"),
                    V("vFCPSTRet", n, "totais_fcp_st_ret")>>
             c == <<V("vProd", n, "totais_icms_total_produtos_e_servicos"),
                    V("vFrete", n, "totais_icms_total_frete"),
                    V("vSeg", n, "totais_icms_total_seguro"),
                    V("vDesc", n, "totais_icms_total_desconto"),
                    V("vII", n, "totais_icms_total_ii"), V("vIPI", n, "totais_icms_total_ipi"),
                    V("vIPIDevol", n, "totais_icms_total_ipi_dev"),
                    V("vPIS", n, "totais_icms_pis"), V("vCOFINS", n, "totais_icms_cofins"),
                    V("vOutro", n, "totais_icms_outras_despesas_acessorias"),
                    V("vNF", n, "totais_icms_total_nota")>>
             A == {"vBC", "vICMS", "vICMSDeson"}
             B == {"vFCP", "vBCST", "vST", "vFCPST", "vFCPSTRet"}
             C == {"vProd", "vFrete", "vSeg", "vDesc", "vII", "vIPI", "vIPIDevol", "vPIS",
                   "vCOFINS", "vOutro"}
             d == a \o VSe("vFCPUFDest", n, "totais_fcp_destino")
                    \o VSe("vICMSUFDest", n, "totais_icms_inter_destino")
             e == d \o b \o VSe("qBCMono", n, "totais_icms_q_bc_mono")
             f == e \o VSe("vICMSMono", n, "totais_icms_v_icms_mono")
                    \o VSe("qBCMonoReten", n, "totais_icms_q_bc_mono_reten")
             g == f \o VSe("vICMSMonoReten", n, "totais_icms_v_icms_mono_reten")
                    \o VSe("qBCMonoRet", n, "totais_icms_q_bc_mono_ret")
             h == g \o VSe("vICMSMonoRet", n, "totais_icms_v_icms_mono_ret")
             u == h \o c \o VSe("vTotTrib", n, "totais_tributos_aproximado")
  <1>1. ICMSTot(n).filhos = u
    BY DEF ICMSTot, Grupo
  <1>2. Diz(n, DoTotal, a, A) /\ Diz(n, DoTotal, b, B) /\ Diz(n, DoTotal, c, C)
    BY DizTotProprio, DizTotSt, DizTotProdutos
  <1>3. \A tag \in {"vFCPUFDest", "vICMSUFDest", "qBCMono", "qBCMonoReten", "qBCMonoRet",
                    "vTotTrib"} : tag \notin DOMAIN DoTotal
    BY TagsDoTotal
  <1>4. /\ Diz(n, DoTotal, VSe("vFCPUFDest", n, "totais_fcp_destino"), {})
        /\ Diz(n, DoTotal, VSe("vICMSUFDest", n, "totais_icms_inter_destino"), {})
        /\ Diz(n, DoTotal, VSe("qBCMono", n, "totais_icms_q_bc_mono"), {})
        /\ Diz(n, DoTotal, VSe("qBCMonoReten", n, "totais_icms_q_bc_mono_reten"), {})
        /\ Diz(n, DoTotal, VSe("qBCMonoRet", n, "totais_icms_q_bc_mono_ret"), {})
        /\ Diz(n, DoTotal, VSe("vTotTrib", n, "totais_tributos_aproximado"), {})
    BY <1>3, DizSeUm
  <1>5. /\ Diz(n, DoTotal, VSe("vICMSMono", n, "totais_icms_v_icms_mono"), {"vICMSMono"})
        /\ Diz(n, DoTotal, VSe("vICMSMonoReten", n, "totais_icms_v_icms_mono_reten"),
               {"vICMSMonoReten"})
        /\ Diz(n, DoTotal, VSe("vICMSMonoRet", n, "totais_icms_v_icms_mono_ret"),
               {"vICMSMonoRet"})
    BY TagsDoTotal, DizVSe
  <1> HIDE DEF a, b, c
  <1>6. Diz(n, DoTotal, d, A)
    <2>1. Diz(n, DoTotal, a \o VSe("vFCPUFDest", n, "totais_fcp_destino"), A)
      BY <1>2, <1>4, DizMais
    <2> QED
      BY <1>4, <2>1, DizMais
  <1> HIDE DEF d
  <1>7. Diz(n, DoTotal, e, A \union B)
    <2>1. A \cap B = {}
      OBVIOUS
    <2>2. Diz(n, DoTotal, d \o b, A \union B)
      BY <1>2, <1>6, <2>1, DizColada
    <2> QED
      BY <1>4, <2>2, DizMais
  <1> DEFINE D == A \union B \union {"vICMSMono"}
             E == D \union {"vICMSMonoReten"}
             F == E \union {"vICMSMonoRet"}
  <1>8. /\ (A \union B) \cap {"vICMSMono"} = {} /\ D \cap {"vICMSMonoReten"} = {}
        /\ E \cap {"vICMSMonoRet"} = {} /\ F \cap C = {}
    OBVIOUS
  <1>9. F \union C = DOMAIN DoTotal
    BY TagsDoTotal
  <1> HIDE DEF e, A, B, C
  <1>10. Diz(n, DoTotal, f, D)
    <2>1. Diz(n, DoTotal, e \o VSe("vICMSMono", n, "totais_icms_v_icms_mono"), D)
      BY <1>5, <1>7, <1>8, DizColada
    <2> QED
      BY <1>4, <2>1, DizMais
  <1> HIDE DEF f, D
  <1>11. Diz(n, DoTotal, g, E)
    <2>1. Diz(n, DoTotal, f \o VSe("vICMSMonoReten", n, "totais_icms_v_icms_mono_reten"), E)
      BY <1>5, <1>8, <1>10, DizColada
    <2> QED
      BY <1>4, <2>1, DizMais
  <1> HIDE DEF g, E
  <1>12. Diz(n, DoTotal, h, F)
    BY <1>5, <1>8, <1>11, DizColada
  <1> HIDE DEF h, F
  <1>13. Diz(n, DoTotal, u, F \union C)
    <2>1. Diz(n, DoTotal, h \o c, F \union C)
      BY <1>2, <1>8, <1>12, DizColada
    <2> QED
      BY <1>4, <2>1, DizMais
  <1> QED
    BY <1>1, <1>9, <1>13

LEMMA DizGIBSTot ==
  ASSUME NEW n, Natural(n, DoTotalIbs)
  PROVE  Diz(n, DoTotalIbs, <<T("gIBSUF"), T("gIBSMun"), V("vIBS", n, "totais_ibs"),
                               T("vCredPres"), T("vCredPresCondSus")>>,
                             {"vIBS"})
  <1> DEFINE a == V("vIBS", n, "totais_ibs")
             s == <<T("gIBSUF"), T("gIBSMun"), a, T("vCredPres"), T("vCredPresCondSus")>>
  <1>1. Dito(n, DoTotalIbs, a, "vIBS")
    BY TagsDoTotalIbs, DitoV
  <1> HIDE DEF a
  <1>2. /\ Sequencia(s) /\ Len(s) = 5 /\ s[1][1] = "gIBSUF" /\ s[2][1] = "gIBSMun"
        /\ s[3] = a /\ s[4][1] = "vCredPres" /\ s[5][1] = "vCredPresCondSus"
    BY DEF Sequencia, T
  <1> HIDE DEF s
  <1>3. Diz(n, DoTotalIbs, s, {"vIBS"})
    BY <1>1, <1>2, TagsDoTotalIbs, DizElementos DEF Dito
  <1> QED
    BY <1>3 DEF s, a

LEMMA DizGIBSUFTot ==
  ASSUME NEW n, Natural(n, DoTotalIbs)
  PROVE  Diz(n, DoTotalIbs, <<T("vDif"), T("vDevTrib"), V("vIBSUF", n, "totais_ibs_uf")>>,
                             {"vIBSUF"})
  <1> DEFINE a == V("vIBSUF", n, "totais_ibs_uf")
             s == <<T("vDif"), T("vDevTrib"), a>>
  <1>1. Dito(n, DoTotalIbs, a, "vIBSUF")
    BY TagsDoTotalIbs, DitoV
  <1> HIDE DEF a
  <1>2. /\ Sequencia(s) /\ Len(s) = 3 /\ s[1][1] = "vDif" /\ s[2][1] = "vDevTrib"
        /\ s[3] = a
    BY DEF Sequencia, T
  <1> HIDE DEF s
  <1>3. Diz(n, DoTotalIbs, s, {"vIBSUF"})
    BY <1>1, <1>2, TagsDoTotalIbs, DizElementos DEF Dito
  <1> QED
    BY <1>3 DEF s, a

LEMMA DizGIBSMunTot ==
  ASSUME NEW n, Natural(n, DoTotalIbs)
  PROVE  Diz(n, DoTotalIbs, <<T("vDif"), T("vDevTrib"),
                               V("vIBSMun", n, "totais_ibs_mun")>>,
                             {"vIBSMun"})
  <1> DEFINE a == V("vIBSMun", n, "totais_ibs_mun")
             s == <<T("vDif"), T("vDevTrib"), a>>
  <1>1. Dito(n, DoTotalIbs, a, "vIBSMun")
    BY TagsDoTotalIbs, DitoV
  <1> HIDE DEF a
  <1>2. /\ Sequencia(s) /\ Len(s) = 3 /\ s[1][1] = "vDif" /\ s[2][1] = "vDevTrib"
        /\ s[3] = a
    BY DEF Sequencia, T
  <1> HIDE DEF s
  <1>3. Diz(n, DoTotalIbs, s, {"vIBSMun"})
    BY <1>1, <1>2, TagsDoTotalIbs, DizElementos DEF Dito
  <1> QED
    BY <1>3 DEF s, a

LEMMA DizGCBSTot ==
  ASSUME NEW n, Natural(n, DoTotalIbs)
  PROVE  Diz(n, DoTotalIbs, <<T("vDif"), T("vDevTrib"), V("vCBS", n, "totais_cbs"),
                               T("vCredPres"), T("vCredPresCondSus")>>,
                             {"vCBS"})
  <1> DEFINE a == V("vCBS", n, "totais_cbs")
             s == <<T("vDif"), T("vDevTrib"), a, T("vCredPres"), T("vCredPresCondSus")>>
  <1>1. Dito(n, DoTotalIbs, a, "vCBS")
    BY TagsDoTotalIbs, DitoV
  <1> HIDE DEF a
  <1>2. /\ Sequencia(s) /\ Len(s) = 5 /\ s[1][1] = "vDif" /\ s[2][1] = "vDevTrib"
        /\ s[3] = a /\ s[4][1] = "vCredPres" /\ s[5][1] = "vCredPresCondSus"
    BY DEF Sequencia, T
  <1> HIDE DEF s
  <1>3. Diz(n, DoTotalIbs, s, {"vCBS"})
    BY <1>1, <1>2, TagsDoTotalIbs, DizElementos DEF Dito
  <1> QED
    BY <1>3 DEF s, a

LEMMA DizBase ==
  ASSUME NEW n, Natural(n, DoTotalIbs)
  PROVE  Diz(n, DoTotalIbs,
             <<V("vBCIBSCBS", n, "totais_vbc_ibscbs")>> \o Se(HaIBS(n), <<T("gIBS")>>)
               \o Se(Ha(n, "totais_cbs"), <<T("gCBS")>>),
             {"vBCIBSCBS"})
  <1> DEFINE a == <<V("vBCIBSCBS", n, "totais_vbc_ibscbs")>>
             b == Se(HaIBS(n), <<T("gIBS")>>)
             c == Se(Ha(n, "totais_cbs"), <<T("gCBS")>>)
  <1>1. Diz(n, DoTotalIbs, a, {"vBCIBSCBS"})
    BY TagsDoTotalIbs, DitoV, DizUm
  <1>2. Diz(n, DoTotalIbs, b, {}) /\ Diz(n, DoTotalIbs, c, {})
    <2>1. "gIBS" \notin DOMAIN DoTotalIbs /\ "gCBS" \notin DOMAIN DoTotalIbs
      BY TagsDoTotalIbs
    <2>2. HaIBS(n) \in BOOLEAN /\ Ha(n, "totais_cbs") \in BOOLEAN
      BY DEF HaIBS, Ha
    <2> QED
      BY <2>1, <2>2, DizSeUm
  <1> HIDE DEF a, b, c
  <1>3. Diz(n, DoTotalIbs, a \o b, {"vBCIBSCBS"})
    BY <1>1, <1>2, DizMais
  <1>4. Diz(n, DoTotalIbs, a \o b \o c, {"vBCIBSCBS"})
    BY <1>2, <1>3, DizMais
  <1> QED
    BY <1>4 DEF a, b, c

-----------------------------------------------------------------------------
(* One part of a sequence has the groups, the others have none.              *)
LEMMA UnicoSo ==
  ASSUME NEW gs, NEW g, g.grupo \in gs
  PROVE  /\ Unico(gs, <<g>>, g)
         /\ \A h : h.grupo \notin gs => Unico(gs, <<h, g>>, g)
  <1>1. Unico(gs, <<g>>, g)
    <2> DEFINE s == <<g>>
    <2>1. Len(s) = 1 /\ s = [i \in 1..Len(s) |-> s[i]] /\ s[1] = g /\ 1 \in 1..1
      OBVIOUS
    <2> HIDE DEF s
    <2> QED
      BY <2>1 DEF Unico
  <1>2. ASSUME NEW h, h.grupo \notin gs PROVE Unico(gs, <<h, g>>, g)
    <2> DEFINE s == <<h, g>>
    <2>1. Len(s) = 2 /\ s = [i \in 1..Len(s) |-> s[i]] /\ s[1] = h /\ s[2] = g /\ 2 \in 1..2
      OBVIOUS
    <2> HIDE DEF s
    <2> QED
      BY <1>2, <2>1 DEF Unico
  <1> QED
    BY <1>1, <1>2

LEMMA ValeGrupo ==
  ASSUME NEW it, NEW m, NEW g, NEW K, Diz(it, m, g.filhos, K), NEW gs, NEW s, Unico(gs, s, g),
         NEW tag \in DOMAIN m
  PROVE  \E x : /\ Vale(s, gs, tag, x)
                /\ tag \in K => Certo(x, Valor(it, m[tag]))
                /\ tag \notin K => x = 0
  <1> DEFINE x == SomaDosElementos(g.filhos, tag)
  <1>1. /\ tag \in K => Certo(x, Valor(it, m[tag]))
        /\ tag \notin K => x = 0
    BY DEF Diz
  <1>2. x \in Nat
    BY <1>1 DEF Certo
  <1>3. Vale(s, gs, tag, x)
    BY <1>2, ValeUnico
  <1> HIDE DEF x
  <1> QED
    BY <1>1, <1>3

LEMMA ValeNoMeio ==
  ASSUME NEW s, NEW t, NEW gs, NEW tag, NEW x, Vale(s, gs, tag, x), Fora(gs, t)
  PROVE  Vale(s \o t, gs, tag, x) /\ Vale(t \o s, gs, tag, x)
  <1>1. Vale(t, gs, tag, 0) /\ x \in Nat
    BY ValeFora, ValeNatural
  <1>2. Vale(s \o t, gs, tag, x + 0) /\ Vale(t \o s, gs, tag, 0 + x)
    BY <1>1, ValeColada
  <1> QED
    BY <1>1, <1>2

(* The parts of an item, each with the groups of one of its taxes.           *)
Peca(k, it, modelo, f) ==
    CASE k = 1 -> Prod(it)
      [] k = 2 -> <<Grupo("imposto", f), ICMS(it)>>
      [] k = 3 -> Se(HaIPI(it), IPI(it))
      [] k = 4 -> Se(HaII(it), <<II(it)>>)
      [] k = 5 -> Se(HaPIS(it, modelo), <<PIS(it)>>)
      [] k = 6 -> Se(HaCOFINS(it, modelo), <<COFINS(it)>>)
      [] k = 7 -> Se(HaIBSCBS(it), IBSCBS(it))
      [] k = 8 -> Devolvido(it)

(* The groups gs are of the part k alone.                                    *)
SoNa(k, gs) ==
    /\ "prod" \in gs => k = 1
    /\ gs \cap GIcms # {} => k = 2
    /\ "IPITrib" \in gs => k = 3
    /\ "II" \in gs => k = 4
    /\ gs \cap GPis # {} => k = 5
    /\ gs \cap GCofins # {} => k = 6
    /\ gs \cap GIbs # {} => k = 7
    /\ "IPIDevol" \in gs => k = 8

LEMMA DoDet ==
  ASSUME NEW it, NEW modelo, it.icms \in ModalidadesIcms, NEW gs \in SUBSET Conferidas,
         NEW tag, NEW k \in 1..8, SoNa(k, gs), NEW x,
         \A f : Vale(Peca(k, it, modelo, f), gs, tag, x)
  PROVE  Vale(Det(it, modelo), gs, tag, x)
  <1> DEFINE f == Se(Ha(it, "valor_tributos_aprox"),
                     <<VStr("vTotTrib", it, "valor_tributos_aprox")>>)
                    \o <<T("ICMS")>>
                    \o Se(HaIPI(it), <<T("IPI")>>)
                    \o Se(HaII(it), <<T("II")>>)
                    \o Se(HaPIS(it, modelo), <<T("PIS")>>)
                    \o Se(HaCOFINS(it, modelo), <<T("COFINS")>>)
                    \o Se(HaIBSCBS(it), <<T("IBSCBS")>>)
             h == <<T("prod"), T("imposto")>>
                    \o Se(Ha(it, "ipi_valor_ipi_dev"), <<T("impostoDevol")>>)
                    \o O("infAdProd", it, "informacoes_adicionais")
             p0 == <<Grupo("det", h)>>
             p(j) == Peca(j, it, modelo, f)
  <1>1. Det(it, modelo)
          = p0 \o p(1) \o (p(2) \o p(3) \o p(4) \o p(5) \o p(6) \o p(7)) \o p(8)
    <2>1. Imposto(it, modelo) = p(2) \o p(3) \o p(4) \o p(5) \o p(6) \o p(7)
      BY DEF Imposto, Peca
    <2>2. p(1) = Prod(it) /\ p(8) = Devolvido(it)
      BY DEF Peca
    <2> HIDE DEF p
    <2> QED
      BY <2>1, <2>2 DEF Det, Devolvido
  <1>2. Fora(gs, p0)
    BY ForaDemais DEF Demais
  <1> HIDE DEF f, h
  <1>3. \A j \in 1..8 : j # k => Fora(gs, p(j))
    <2>0. /\ p(1) = Prod(it) /\ p(2) = <<Grupo("imposto", f), ICMS(it)>>
          /\ p(3) = Se(HaIPI(it), IPI(it)) /\ p(4) = Se(HaII(it), <<II(it)>>)
          /\ p(5) = Se(HaPIS(it, modelo), <<PIS(it)>>)
          /\ p(6) = Se(HaCOFINS(it, modelo), <<COFINS(it)>>)
          /\ p(7) = Se(HaIBSCBS(it), IBSCBS(it)) /\ p(8) = Devolvido(it)
      BY DEF Peca
    <2> HIDE DEF p
    <2>1. k # 1 => Fora(gs, p(1))
      <3>1. k # 1 => "prod" \notin gs
        BY DEF SoNa
      <3> QED
        BY <2>0, <3>1, ForaProd
    <2>2. k # 2 => Fora(gs, p(2))
      <3>1. k # 2 => gs \cap GIcms = {}
        BY DEF SoNa
      <3> QED
        BY <2>0, <3>1, ForaTributos
    <2>3. k # 3 => Fora(gs, p(3))
      <3>1. k # 3 => "IPITrib" \notin gs
        BY DEF SoNa
      <3> QED
        BY <2>0, <3>1, ForaTributos, ForaSe
    <2>4. k # 4 => Fora(gs, p(4))
      <3>1. k # 4 => "II" \notin gs
        BY DEF SoNa
      <3> QED
        BY <2>0, <3>1, ForaTributos, ForaSe
    <2>5. k # 5 => Fora(gs, p(5))
      <3>1. k # 5 => gs \cap GPis = {}
        BY DEF SoNa
      <3> QED
        BY <2>0, <3>1, ForaTributos, ForaSe
    <2>6. k # 6 => Fora(gs, p(6))
      <3>1. k # 6 => gs \cap GCofins = {}
        BY DEF SoNa
      <3> QED
        BY <2>0, <3>1, ForaTributos, ForaSe
    <2>7. k # 7 => Fora(gs, p(7))
      <3>1. k # 7 => gs \cap GIbs = {}
        BY DEF SoNa
      <3> QED
        BY <2>0, <3>1, ForaTributos, ForaSe
    <2>8. k # 8 => Fora(gs, p(8))
      <3>1. k # 8 => "IPIDevol" \notin gs
        BY DEF SoNa
      <3> QED
        BY <2>0, <3>1, ForaDevolvido
    <2> QED
      BY <2>1, <2>2, <2>3, <2>4, <2>5, <2>6, <2>7, <2>8
  <1>4. Vale(p(k), gs, tag, x)
    OBVIOUS
  <1> DEFINE y(j) == IF j = k THEN x ELSE 0
  <1>5. x \in Nat /\ \A j \in 1..8 : Vale(p(j), gs, tag, y(j))
    <2>1. x \in Nat
      BY <1>4, ValeNatural
    <2> HIDE DEF p
    <2> QED
      BY <1>3, <1>4, <2>1, ValeFora
  <1> HIDE DEF p, p0
  <1>6. Vale(p0 \o p(1), gs, tag, y(1))
    BY <1>2, <1>5, ValeNoMeio
  <1> DEFINE i3 == p(2) \o p(3)
             i4 == i3 \o p(4)
             i5 == i4 \o p(5)
             i6 == i5 \o p(6)
             i7 == i6 \o p(7)
             a == p0 \o p(1)
             b == a \o i7
  <1>7. /\ Vale(p(1), gs, tag, y(1)) /\ Vale(p(2), gs, tag, y(2)) /\ Vale(p(3), gs, tag, y(3))
        /\ Vale(p(4), gs, tag, y(4)) /\ Vale(p(5), gs, tag, y(5)) /\ Vale(p(6), gs, tag, y(6))
        /\ Vale(p(7), gs, tag, y(7)) /\ Vale(p(8), gs, tag, y(8))
    BY <1>5
  <1>8. /\ y(1) + (y(2) + y(3) + y(4) + y(5) + y(6) + y(7)) + y(8) = x
    BY <1>5
  <1> HIDE DEF y
  <1>9. Vale(i3, gs, tag, y(2) + y(3))
    BY <1>7, ValeColada
  <1> HIDE DEF i3
  <1>10. Vale(i4, gs, tag, y(2) + y(3) + y(4))
    BY <1>7, <1>9, ValeColada
  <1> HIDE DEF i4
  <1>11. Vale(i5, gs, tag, y(2) + y(3) + y(4) + y(5))
    BY <1>7, <1>10, ValeColada
  <1> HIDE DEF i5
  <1>12. Vale(i6, gs, tag, y(2) + y(3) + y(4) + y(5) + y(6))
    BY <1>7, <1>11, ValeColada
  <1> HIDE DEF i6
  <1>13. Vale(i7, gs, tag, y(2) + y(3) + y(4) + y(5) + y(6) + y(7))
    BY <1>7, <1>12, ValeColada
  <1> HIDE DEF i7, a
  <1>14. Vale(b, gs, tag, y(1) + (y(2) + y(3) + y(4) + y(5) + y(6) + y(7)))
    BY <1>6, <1>13, ValeColada DEF a
  <1> HIDE DEF b
  <1>15. Vale(b \o p(8), gs, tag, y(1) + (y(2) + y(3) + y(4) + y(5) + y(6) + y(7)) + y(8))
    BY <1>7, <1>14, ValeColada
  <1>16. Vale(b \o p(8), gs, tag, x)
    BY <1>8, <1>15
  <1> QED
    BY <1>1, <1>16 DEF a, b, i3, i4, i5, i6, i7

(* What the item states of an amount, where Declara says it states it.       *)
Acerta(x, it, campo, d) == IF d THEN Certo(x, Valor(it, campo)) ELSE x = 0

Traz(s, gs, tag, it, campo, d) == \E x : Vale(s, gs, tag, x) /\ Acerta(x, it, campo, d)

LEMMA TrazSe ==
  ASSUME NEW it, NEW campo, NEW d, NEW c \in BOOLEAN, NEW s, NEW gs, NEW tag,
         c => Traz(s, gs, tag, it, campo, d),
         ~c /\ d => Valor(it, campo) = 0
  PROVE  Traz(Se(c, s), gs, tag, it, campo, d)
  <1>1. CASE c
    BY <1>1 DEF Se
  <1>2. CASE ~c
    <2>1. Vale(<<>>, gs, tag, 0)
      BY ForaVazia, ValeFora
    <2>2. Acerta(0, it, campo, d)
      BY <1>2 DEF Acerta, Certo
    <2>3. Se(c, s) = <<>>
      BY <1>2 DEF Se
    <2> QED
      BY <2>1, <2>2, <2>3 DEF Traz
  <1> QED
    BY <1>1, <1>2

LEMMA TrazDet ==
  ASSUME NEW it, NEW modelo, it.icms \in ModalidadesIcms, NEW gs \in SUBSET Conferidas,
         NEW tag, NEW campo, NEW d, NEW k \in 1..8, SoNa(k, gs),
         NEW s, \A f : Peca(k, it, modelo, f) = s,
         Traz(s, gs, tag, it, campo, d)
  PROVE  Traz(Det(it, modelo), gs, tag, it, campo, d)
  <1>1. PICK x : Vale(s, gs, tag, x) /\ Acerta(x, it, campo, d)
    BY DEF Traz
  <1>2. \A f : Vale(Peca(k, it, modelo, f), gs, tag, x)
    BY <1>1
  <1>3. Vale(Det(it, modelo), gs, tag, x)
    BY <1>2, DoDet
  <1> QED
    BY <1>1, <1>3 DEF Traz

LEMMA ItemProd ==
  ASSUME NEW it, NEW modelo, it.icms \in ModalidadesIcms, Natural(it, DoProd),
         NEW tag \in DOMAIN DoProd
  PROVE  Traz(Det(it, modelo), {"prod"}, tag, it, DoProd[tag], TRUE)
  <1> DEFINE gs == {"prod"}
             a == Se("declaracoes_importacao" \in it.tem, DeclaracaoImportacao(it))
             b == Se("cProdANP" \in it.tem, Combustivel(it))
  <1>1. gs \in SUBSET Conferidas /\ SoNa(1, gs) /\ 1 \in 1..8
    BY DEF Conferidas, DosItens, SoNa, GIcms, GPis, GCofins, GIbs
  <1>2. PICK h : Diz(it, DoProd, h, DOMAIN DoProd) /\ Prod(it) = <<Grupo("prod", h)>> \o a \o b
    BY DizProd
  <1> DEFINE g == Grupo("prod", h)
             s == <<g>>
  <1>3. g.filhos = h /\ g.grupo \in gs
    BY DEF Grupo
  <1>4. Fora(gs, a) /\ Fora(gs, b)
    BY <1>1, ForaProd, ForaSe
  <1> HIDE DEF g, gs, a, b
  <1>5. Unico(gs, s, g)
    BY <1>3, UnicoSo
  <1> HIDE DEF s
  <1>6. PICK x : Vale(s, gs, tag, x) /\ Certo(x, Valor(it, DoProd[tag]))
    BY <1>2, <1>3, <1>5, ValeGrupo
  <1>7. Vale(s \o a, gs, tag, x)
    BY <1>4, <1>6, ValeNoMeio
  <1>8. Vale(s \o a \o b, gs, tag, x)
    BY <1>4, <1>7, ValeNoMeio
  <1>9. \A f : Peca(1, it, modelo, f) = s \o a \o b
    BY <1>2 DEF Peca, s, g
  <1>10. Vale(Det(it, modelo), gs, tag, x)
    <2>1. \A f : Vale(Peca(1, it, modelo, f), gs, tag, x)
      BY <1>8, <1>9
    <2> QED
      BY <1>1, <2>1, DoDet
  <1> QED
    BY <1>6, <1>10 DEF Traz, Acerta, gs

LEMMA ItemIcms ==
  ASSUME NEW it, NEW modelo, it.icms \in ModalidadesIcms, Natural(it, DoIcms),
         NEW tag \in DOMAIN DoIcms
  PROVE  Traz(Det(it, modelo), GIcms, tag, it, DoIcms[tag],
              Declara(it, NoTotal(tag)))
  <1> DEFINE gs == GIcms
             g == ICMS(it)
             s == <<g>>
  <1>1. gs \in SUBSET Conferidas /\ SoNa(2, gs) /\ 2 \in 1..8
    <2>1. /\ "prod" \notin gs /\ "IPITrib" \notin gs /\ "II" \notin gs /\ "IPIDevol" \notin gs
          /\ gs \cap GPis = {} /\ gs \cap GCofins = {} /\ gs \cap GIbs = {}
      BY DEF GIcms, GPis, GCofins, GIbs
    <2>2. gs \in SUBSET Conferidas
      BY DEF Conferidas, DosItens
    <2> QED
      BY <2>1, <2>2 DEF SoNa
  <1>2. g.grupo \in gs /\ Diz(it, DoIcms, g.filhos, Declarados(it, DoIcms))
    BY NomesDosTributos, DizICMS
  <1>3. \A f : Fora(gs, <<Grupo("imposto", f)>>)
    BY <1>1, ForaDemais DEF Demais
  <1> HIDE DEF g, gs
  <1>4. Unico(gs, s, g)
    BY <1>2, UnicoSo
  <1> HIDE DEF s
  <1>5. PICK x : /\ Vale(s, gs, tag, x)
                 /\ tag \in Declarados(it, DoIcms) => Certo(x, Valor(it, DoIcms[tag]))
                 /\ tag \notin Declarados(it, DoIcms) => x = 0
    BY <1>2, <1>4, ValeGrupo
  <1>6. ASSUME NEW f PROVE Vale(Peca(2, it, modelo, f), gs, tag, x)
    <2> DEFINE h == Grupo("imposto", f)
               t == <<h>>
    <2>1. Peca(2, it, modelo, f) = <<h, g>>
      BY DEF Peca, g
    <2>2. Fora(gs, t)
      BY <1>3
    <2> HIDE DEF h
    <2>3. <<h, g>> = t \o s
      BY DEF s
    <2> HIDE DEF t
    <2> QED
      BY <1>5, <2>1, <2>2, <2>3, ValeNoMeio
  <1>7. Vale(Det(it, modelo), gs, tag, x)
    BY <1>1, <1>6, DoDet
  <1> QED
    BY <1>5, <1>7 DEF Traz, Acerta, Declarados, gs

LEMMA ItemII ==
  ASSUME NEW it, NEW modelo, it.icms \in ModalidadesIcms, Natural(it, DoTributo)
  PROVE  Traz(Det(it, modelo), {"II"}, "vII", it, "imposto_importacao_valor",
              TRUE)
  <1> DEFINE gs == {"II"}
             g == II(it)
             s == <<g>>
             campo == "imposto_importacao_valor"
  <1>1. gs \in SUBSET Conferidas /\ SoNa(4, gs) /\ 4 \in 1..8
    BY DEF Conferidas, DosItens, SoNa, GIcms, GPis, GCofins, GIbs
  <1>2. g.grupo \in gs /\ Diz(it, DoTributo, g.filhos, {"vII"})
    BY DizII DEF II, Grupo
  <1>3. ~HaII(it) => Valor(it, campo) = 0
    <2>1. ~HaII(it) => ~Ha(it, campo)
      BY DEF HaII
    <2>2. Valor(it, campo) \in Nat
      BY TagsDoTributo DEF Natural
    <2> QED
      BY <2>1, <2>2 DEF Ha
  <1>4. \A f : Peca(4, it, modelo, f) = Se(HaII(it), s)
    BY DEF Peca
  <1> HIDE DEF gs, g
  <1>5. \E x : Vale(s, gs, "vII", x) /\ Certo(x, Valor(it, campo))
    BY <1>2, TagsDoTributo, UnicoSo, ValeGrupo
  <1> HIDE DEF s, campo
  <1>6. Traz(Se(HaII(it), s), gs, "vII", it, campo, TRUE)
    <2>1. HaII(it) \in BOOLEAN
      BY DEF HaII
    <2>2. Traz(s, gs, "vII", it, campo, TRUE)
      BY <1>5 DEF Traz, Acerta
    <2> QED
      BY <1>3, <2>1, <2>2, TrazSe
  <1>7. Traz(Det(it, modelo), gs, "vII", it, campo, TRUE)
    BY <1>1, <1>4, <1>6, TrazDet
  <1> QED
    BY <1>7 DEF gs, campo

LEMMA ItemIPI ==
  ASSUME NEW it, NEW modelo, it.icms \in ModalidadesIcms, Natural(it, DoTributo)
  PROVE  Traz(Det(it, modelo), {"IPITrib"}, "vIPI", it, "ipi_valor_ipi",
              Declara(it, "vIPI"))
  <1> DEFINE gs == {"IPITrib"}
             s == IPI(it)
             campo == "ipi_valor_ipi"
             d == Declara(it, "vIPI")
  <1>1. gs \in SUBSET Conferidas /\ SoNa(3, gs) /\ 3 \in 1..8
    BY DEF Conferidas, DosItens, SoNa, GIcms, GPis, GCofins, GIbs
  <1>2. d <=> HaIPI(it) /\ it.ipi \notin IpiNaoTributado
    BY DEF Declara
  <1>3. \A f : Peca(3, it, modelo, f) = Se(HaIPI(it), s)
    BY DEF Peca
  <1>4. HaIPI(it) \in BOOLEAN
    BY DEF HaIPI
  <1>6. HaIPI(it) => Traz(s, gs, "vIPI", it, campo, d)
    <2>1. CASE it.ipi \in IpiNaoTributado
      <3>1. Fora(gs, s)
        BY <2>1, ForaDois DEF IPI, Grupo
      <3>2. Vale(s, gs, "vIPI", 0)
        BY <3>1, ValeFora
      <3> QED
        BY <1>2, <2>1, <3>2 DEF Traz, Acerta
    <2>2. CASE it.ipi \notin IpiNaoTributado /\ HaIPI(it)
      <3> DEFINE fs == <<T("CST"), V("vBC", it, "ipi_valor_base_calculo"), T("pIPI"),
                         V("vIPI", it, "ipi_valor_ipi")>>
                 g == Grupo("IPITrib", fs)
                 h == Grupo("IPI", Enquadramento(it) \o <<T("IPITrib")>>)
      <3>1. s = <<h, g>>
        BY <2>2 DEF IPI
      <3>2. Diz(it, DoTributo, fs, {"vIPI"})
        BY DizIPITrib
      <3> HIDE DEF fs
      <3>3. g.grupo \in gs /\ h.grupo \notin gs /\ g.filhos = fs
        BY DEF Grupo
      <3> HIDE DEF g, h, s, gs
      <3>4. \E x : Vale(s, gs, "vIPI", x) /\ Certo(x, Valor(it, campo))
        BY <3>1, <3>2, <3>3, TagsDoTributo, UnicoSo, ValeGrupo
      <3> QED
        BY <1>2, <2>2, <3>4 DEF Traz, Acerta
    <2> QED
      BY <2>1, <2>2
  <1> HIDE DEF gs, s, campo, d
  <1>7. Traz(Se(HaIPI(it), s), gs, "vIPI", it, campo, d)
    BY <1>2, <1>4, <1>6, TrazSe
  <1>8. Traz(Det(it, modelo), gs, "vIPI", it, campo, d)
    BY <1>1, <1>3, <1>7, TrazDet
  <1> QED
    BY <1>8 DEF gs, campo, d

LEMMA ItemPIS ==
  ASSUME NEW it, NEW modelo, it.icms \in ModalidadesIcms, Natural(it, DoTributo)
  PROVE  Traz(Det(it, modelo), GPis, "vPIS", it, "pis_valor",
              Declara(it, "vPIS"))
  <1> DEFINE gs == GPis
             g == PIS(it)
             s == <<g>>
             campo == "pis_valor"
             d == Declara(it, "vPIS")
             c == HaPIS(it, modelo)
  <1>1. gs \in SUBSET Conferidas /\ SoNa(5, gs) /\ 5 \in 1..8
    <2>1. /\ "prod" \notin gs /\ "IPITrib" \notin gs /\ "II" \notin gs /\ "IPIDevol" \notin gs
          /\ gs \cap GIcms = {} /\ gs \cap GCofins = {} /\ gs \cap GIbs = {}
      BY DEF GIcms, GPis, GCofins, GIbs
    <2>2. gs \in SUBSET Conferidas
      BY DEF Conferidas, DosItens
    <2> QED
      BY <2>1, <2>2 DEF SoNa
  <1>2. d <=> it.pis \notin SemTributo
    BY DEF Declara
  <1>3. g.grupo \in gs /\ Diz(it, DoTributo, g.filhos, IF d THEN {"vPIS"} ELSE {})
    BY <1>2, NomesDosTributos, DizPIS
  <1>4. ~c => Valor(it, campo) = 0
    BY DEF HaPIS, Dispensado
  <1>5. c \in BOOLEAN
    BY DEF HaPIS, Dispensado
  <1>6. \A f : Peca(5, it, modelo, f) = Se(c, s)
    BY DEF Peca
  <1>7. DoTributo["vPIS"] = campo /\ "vPIS" \in DOMAIN DoTributo
    BY TagsDoTributo
  <1> HIDE DEF gs, g, c, d, campo
  <1>8. Traz(s, gs, "vPIS", it, campo, d)
    <2>1. Unico(gs, s, g)
      BY <1>3, UnicoSo
    <2> HIDE DEF s
    <2>2. PICK x : /\ Vale(s, gs, "vPIS", x)
                   /\ d => Certo(x, Valor(it, campo))
                   /\ ~d => x = 0
      BY <1>3, <1>7, <2>1, ValeGrupo
    <2> QED
      BY <1>5, <2>2 DEF Traz, Acerta
  <1> HIDE DEF s
  <1>9. Traz(Se(c, s), gs, "vPIS", it, campo, d)
    BY <1>4, <1>5, <1>8, TrazSe
  <1>10. Traz(Det(it, modelo), gs, "vPIS", it, campo, d)
    BY <1>1, <1>6, <1>9, TrazDet
  <1> QED
    BY <1>10 DEF gs, campo, d

LEMMA ItemCOFINS ==
  ASSUME NEW it, NEW modelo, it.icms \in ModalidadesIcms, Natural(it, DoTributo)
  PROVE  Traz(Det(it, modelo), GCofins, "vCOFINS", it, "cofins_valor",
              Declara(it, "vCOFINS"))
  <1> DEFINE gs == GCofins
             g == COFINS(it)
             s == <<g>>
             campo == "cofins_valor"
             d == Declara(it, "vCOFINS")
             c == HaCOFINS(it, modelo)
  <1>1. gs \in SUBSET Conferidas /\ SoNa(6, gs) /\ 6 \in 1..8
    <2>1. /\ "prod" \notin gs /\ "IPITrib" \notin gs /\ "II" \notin gs /\ "IPIDevol" \notin gs
          /\ gs \cap GIcms = {} /\ gs \cap GPis = {} /\ gs \cap GIbs = {}
      BY DEF GIcms, GPis, GCofins, GIbs
    <2>2. gs \in SUBSET Conferidas
      BY DEF Conferidas, DosItens
    <2> QED
      BY <2>1, <2>2 DEF SoNa
  <1>2. d <=> it.cofins \notin SemTributo
    BY DEF Declara
  <1>3. g.grupo \in gs /\ Diz(it, DoTributo, g.filhos, IF d THEN {"vCOFINS"} ELSE {})
    BY <1>2, NomesDosTributos, DizCOFINS
  <1>4. ~c => Valor(it, campo) = 0
    BY DEF HaCOFINS, Dispensado
  <1>5. c \in BOOLEAN
    BY DEF HaCOFINS, Dispensado
  <1>6. \A f : Peca(6, it, modelo, f) = Se(c, s)
    BY DEF Peca
  <1>7. DoTributo["vCOFINS"] = campo /\ "vCOFINS" \in DOMAIN DoTributo
    BY TagsDoTributo
  <1> HIDE DEF gs, g, c, d, campo
  <1>8. Traz(s, gs, "vCOFINS", it, campo, d)
    <2>1. Unico(gs, s, g)
      BY <1>3, UnicoSo
    <2> HIDE DEF s
    <2>2. PICK x : /\ Vale(s, gs, "vCOFINS", x)
                   /\ d => Certo(x, Valor(it, campo))
                   /\ ~d => x = 0
      BY <1>3, <1>7, <2>1, ValeGrupo
    <2> QED
      BY <1>5, <2>2 DEF Traz, Acerta
  <1> HIDE DEF s
  <1>9. Traz(Se(c, s), gs, "vCOFINS", it, campo, d)
    BY <1>4, <1>5, <1>8, TrazSe
  <1>10. Traz(Det(it, modelo), gs, "vCOFINS", it, campo, d)
    BY <1>1, <1>6, <1>9, TrazDet
  <1> QED
    BY <1>10 DEF gs, campo, d

(* The groups of IBS and CBS, when they are due.                             *)
GruposIbs(it) ==
    <<Grupo("gIBSCBS", <<V("vBC", it, "ibscbs_vbc"), T("gIBSUF"), T("gIBSMun"),
                         V("vIBS", it, "ibscbs_v_ibs"), T("gCBS")>>),
      Grupo("gIBSUF", <<T("pIBSUF"), V("vIBSUF", it, "ibscbs_v_ibs_uf")>>),
      Grupo("gIBSMun", <<T("pIBSMun"), V("vIBSMun", it, "ibscbs_v_ibs_mun")>>),
      Grupo("gCBS", <<T("pCBS"), V("vCBS", it, "ibscbs_v_cbs")>>)>>

LEMMA UnicoIbs ==
  ASSUME NEW it, NEW i \in 1..4
  PROVE  /\ GruposIbs(it)[i].grupo \in GIbs
         /\ Unico({GruposIbs(it)[i].grupo}, GruposIbs(it), GruposIbs(it)[i])
  <1> DEFINE s == GruposIbs(it)
  <1>1. /\ Len(s) = 4 /\ s = [k \in 1..Len(s) |-> s[k]]
        /\ s[1].grupo = "gIBSCBS" /\ s[2].grupo = "gIBSUF" /\ s[3].grupo = "gIBSMun"
        /\ s[4].grupo = "gCBS"
    BY DEF GruposIbs, Grupo
  <1> HIDE DEF s
  <1>2. \A j, k \in 1..4 : s[j].grupo = s[k].grupo => j = k
    BY <1>1
  <1>3. Unico({s[i].grupo}, s, s[i])
    BY <1>1, <1>2 DEF Unico
  <1>4. s[i].grupo \in GIbs
    BY <1>1 DEF GIbs
  <1> QED
    BY <1>3, <1>4 DEF s

LEMMA TrazIbs ==
  ASSUME NEW it, NEW modelo, it.icms \in ModalidadesIcms, NEW m, NEW tag \in DOMAIN m,
         NEW i \in 1..4, NEW K, Diz(it, m, GruposIbs(it)[i].filhos, K), tag \in K
  PROVE  Traz(Det(it, modelo), {GruposIbs(it)[i].grupo}, tag, it, m[tag],
              it.ibscbs \in IbsCbsTributados)
  <1> DEFINE nome == GruposIbs(it)[i].grupo
             gs == {nome}
             f == <<T("CST")>> \o Se("cClassTrib" \in it.tem, <<T("cClassTrib")>>)
                    \o Se(it.ibscbs \in IbsCbsTributados, <<T("gIBSCBS")>>)
             a == <<Grupo("IBSCBS", f)>>
             d == it.ibscbs \in IbsCbsTributados
             s == Se(d, GruposIbs(it))
             g == GruposIbs(it)[i]
             campo == m[tag]
  <1>1. nome \in GIbs /\ Unico(gs, GruposIbs(it), g)
    BY UnicoIbs
  <1>2. gs \in SUBSET Conferidas /\ SoNa(7, gs) /\ 7 \in 1..8
    <2>1. GIbs \subseteq Conferidas /\ \A x \in GIbs : SoNa(7, {x})
      BY DEF Conferidas, DosItens, SoNa, GIcms, GPis, GCofins, GIbs
    <2> HIDE DEF nome
    <2> QED
      BY <1>1, <2>1
  <1>3. IBSCBS(it) = a \o s
    BY DEF IBSCBS, GruposIbs
  <1>4. d => HaIBSCBS(it)
    BY DEF IbsCbsTributados, HaIBSCBS
  <1>5. \A h : Peca(7, it, modelo, h) = Se(HaIBSCBS(it), a \o s)
    BY <1>3 DEF Peca
  <1>6. HaIBSCBS(it) \in BOOLEAN /\ d \in BOOLEAN
    BY DEF HaIBSCBS
  <1> HIDE DEF f
  <1>7. Fora(gs, a)
    BY <1>2, ForaDemais DEF Demais
  <1> HIDE DEF gs, nome, a
  <1>8. \E x : Vale(GruposIbs(it), gs, tag, x) /\ Certo(x, Valor(it, campo))
    BY <1>1, ValeGrupo
  <1> HIDE DEF d, g, campo
  <1>9. Traz(s, gs, tag, it, campo, d)
    <2>1. CASE d
      BY <1>8, <2>1 DEF Traz, Acerta, Se
    <2>2. CASE ~d
      <3>1. s = <<>> /\ Vale(<<>>, gs, tag, 0)
        BY <2>2, ForaVazia, ValeFora DEF Se
      <3> QED
        BY <2>2, <3>1 DEF Traz, Acerta
    <2> QED
      BY <1>6, <2>1, <2>2
  <1> HIDE DEF s
  <1>10. Traz(a \o s, gs, tag, it, campo, d)
    BY <1>7, <1>9, ValeNoMeio DEF Traz
  <1>11. Traz(Se(HaIBSCBS(it), a \o s), gs, tag, it, campo, d)
    BY <1>4, <1>6, <1>10, TrazSe
  <1>12. Traz(Det(it, modelo), gs, tag, it, campo, d)
    BY <1>2, <1>5, <1>11, TrazDet
  <1> QED
    BY <1>12 DEF gs, nome, campo, d

LEMMA ItemIBSCBS ==
  ASSUME NEW it, NEW modelo, it.icms \in ModalidadesIcms, Natural(it, DoTributo),
         Natural(it, DoIbsCbs)
  PROVE  LET d == it.ibscbs \in IbsCbsTributados
             det == Det(it, modelo)
         IN  /\ Traz(det, {"gIBSCBS"}, "vBC", it, "ibscbs_vbc", d)
             /\ Traz(det, {"gIBSCBS"}, "vIBS", it, "ibscbs_v_ibs", d)
             /\ Traz(det, {"gIBSUF"}, "vIBSUF", it, "ibscbs_v_ibs_uf", d)
             /\ Traz(det, {"gIBSMun"}, "vIBSMun", it, "ibscbs_v_ibs_mun", d)
             /\ Traz(det, {"gCBS"}, "vCBS", it, "ibscbs_v_cbs", d)
  <1> DEFINE s == GruposIbs(it)
  <1>1. /\ s[1].grupo = "gIBSCBS" /\ s[2].grupo = "gIBSUF" /\ s[3].grupo = "gIBSMun"
        /\ s[4].grupo = "gCBS"
    BY DEF GruposIbs, Grupo
  <1>2. /\ Diz(it, DoIbsCbs, s[1].filhos, {"vBC", "vIBS"})
        /\ Diz(it, DoTributo, s[2].filhos, {"vIBSUF"})
        /\ Diz(it, DoTributo, s[3].filhos, {"vIBSMun"})
        /\ Diz(it, DoTributo, s[4].filhos, {"vCBS"})
    BY DizIBSCBS, DizIBSUF, DizIBSMun, DizCBS DEF GruposIbs, Grupo
  <1> DEFINE d == it.ibscbs \in IbsCbsTributados
  <1>3. ASSUME NEW i \in 1..4, NEW m, NEW K, Diz(it, m, s[i].filhos, K), NEW tag \in DOMAIN m,
               tag \in K
        PROVE  Traz(Det(it, modelo), {s[i].grupo}, tag, it, m[tag], d)
    BY <1>3, TrazIbs
  <1> HIDE DEF s, d
  <1> DEFINE K1 == {"vBC", "vIBS"}
             K2 == {"vIBSUF"}
             K3 == {"vIBSMun"}
             K4 == {"vCBS"}
  <1>4. /\ "vBC" \in K1 /\ "vIBS" \in K1 /\ "vIBSUF" \in K2 /\ "vIBSMun" \in K3 /\ "vCBS" \in K4
        /\ 1 \in 1..4 /\ 2 \in 1..4 /\ 3 \in 1..4 /\ 4 \in 1..4
    OBVIOUS
  <1>5. /\ "vBC" \in DOMAIN DoIbsCbs /\ "vIBS" \in DOMAIN DoIbsCbs
        /\ "vIBSUF" \in DOMAIN DoTributo /\ "vIBSMun" \in DOMAIN DoTributo
        /\ "vCBS" \in DOMAIN DoTributo
    BY TagsDoIbsCbs, TagsDoTributo
  <1> HIDE DEF K1, K2, K3, K4
  <1>6. /\ Traz(Det(it, modelo), {s[1].grupo}, "vBC", it, DoIbsCbs["vBC"], d)
        /\ Traz(Det(it, modelo), {s[1].grupo}, "vIBS", it, DoIbsCbs["vIBS"], d)
    <2>1. Diz(it, DoIbsCbs, s[1].filhos, K1)
      BY <1>2 DEF K1
    <2> QED
      BY <1>3, <1>4, <1>5, <2>1
  <1>7. Traz(Det(it, modelo), {s[2].grupo}, "vIBSUF", it, DoTributo["vIBSUF"], d)
    <2>1. Diz(it, DoTributo, s[2].filhos, K2)
      BY <1>2 DEF K2
    <2> QED
      BY <1>3, <1>4, <1>5, <2>1
  <1>8. Traz(Det(it, modelo), {s[3].grupo}, "vIBSMun", it, DoTributo["vIBSMun"], d)
    <2>1. Diz(it, DoTributo, s[3].filhos, K3)
      BY <1>2 DEF K3
    <2> QED
      BY <1>3, <1>4, <1>5, <2>1
  <1>9. Traz(Det(it, modelo), {s[4].grupo}, "vCBS", it, DoTributo["vCBS"], d)
    <2>1. Diz(it, DoTributo, s[4].filhos, K4)
      BY <1>2 DEF K4
    <2> QED
      BY <1>3, <1>4, <1>5, <2>1
  <1> QED
    BY <1>1, <1>6, <1>7, <1>8, <1>9, TagsDoIbsCbs, TagsDoTributo DEF d

LEMMA ItemDevolvido ==
  ASSUME NEW it, NEW modelo, it.icms \in ModalidadesIcms, Natural(it, DoTributo)
  PROVE  Traz(Det(it, modelo), {"IPIDevol"}, "vIPIDevol", it, "ipi_valor_ipi_dev", TRUE)
  <1> DEFINE gs == {"IPIDevol"}
             campo == "ipi_valor_ipi_dev"
             fs == <<V("vIPIDevol", it, campo)>>
             g == Grupo("IPIDevol", fs)
             h == Grupo("impostoDevol", <<T("pDevol"), T("IPI")>>)
             s == <<h, g>>
             c == Ha(it, campo)
  <1>1. gs \in SUBSET Conferidas /\ SoNa(8, gs) /\ 8 \in 1..8
    BY DEF Conferidas, DosItens, SoNa, GIcms, GPis, GCofins, GIbs
  <1>2. \A f : Peca(8, it, modelo, f) = Se(c, s)
    BY DEF Peca, Devolvido
  <1>3. c \in BOOLEAN /\ (~c => Valor(it, campo) = 0)
    <2>1. Valor(it, campo) \in Nat
      BY TagsDoTributo DEF Natural
    <2> QED
      BY <2>1 DEF Ha
  <1>4. Diz(it, DoTributo, fs, {"vIPIDevol"})
    BY DizDevolvido
  <1> HIDE DEF fs, c
  <1>5. g.grupo \in gs /\ h.grupo \notin gs /\ g.filhos = fs
    BY DEF Grupo
  <1>6. DoTributo["vIPIDevol"] = campo /\ "vIPIDevol" \in DOMAIN DoTributo
    BY TagsDoTributo
  <1> HIDE DEF g, h, gs, campo
  <1>7. Unico(gs, s, g)
    BY <1>5, UnicoSo
  <1> HIDE DEF s
  <1>8. \E x : Vale(s, gs, "vIPIDevol", x) /\ Certo(x, Valor(it, campo))
    BY <1>4, <1>5, <1>6, <1>7, ValeGrupo
  <1>9. Traz(s, gs, "vIPIDevol", it, campo, TRUE)
    BY <1>8 DEF Traz, Acerta
  <1>10. Traz(Se(c, s), gs, "vIPIDevol", it, campo, TRUE)
    BY <1>3, <1>9, TrazSe
  <1>11. Traz(Det(it, modelo), gs, "vIPIDevol", it, campo, TRUE)
    BY <1>1, <1>2, <1>10, TrazDet
  <1> QED
    BY <1>11 DEF gs, campo

-----------------------------------------------------------------------------
(* An item against each of the totals.                                       *)
LEMMA DasSomas ==
  /\ Somas["totais_icms_base_calculo"] = "icms_valor_base_calculo"
  /\ Somas["totais_icms_total"] = "icms_valor"
  /\ Somas["totais_icms_desonerado"] = "icms_desonerado"
  /\ Somas["totais_fcp"] = "fcp_valor"
  /\ Somas["totais_icms_st_base_calculo"] = "icms_st_valor_base_calculo"
  /\ Somas["totais_fcp_st"] = "fcp_st_valor"
  /\ Somas["totais_fcp_st_ret"] = "fcp_st_ret_valor"
  /\ Somas["totais_icms_v_icms_mono"] = "icms_v_icms_mono"
  /\ Somas["totais_icms_v_icms_mono_reten"] = "icms_v_icms_mono_reten"
  /\ Somas["totais_icms_v_icms_mono_ret"] = "icms_v_icms_mono_ret"
  /\ Somas["totais_icms_total_produtos_e_servicos"] = "valor_total_bruto"
  /\ Somas["totais_icms_total_frete"] = "total_frete"
  /\ Somas["totais_icms_total_seguro"] = "total_seguro"
  /\ Somas["totais_icms_total_desconto"] = "desconto"
  /\ Somas["totais_icms_outras_despesas_acessorias"] = "outras_despesas_acessorias"
  /\ Somas["totais_icms_st_total"] = "icms_st_valor"
  /\ Somas["totais_icms_total_ii"] = "imposto_importacao_valor"
  /\ Somas["totais_icms_total_ipi"] = "ipi_valor_ipi"
  /\ Somas["totais_icms_total_ipi_dev"] = "ipi_valor_ipi_dev"
  /\ Somas["totais_icms_pis"] = "pis_valor"
  /\ Somas["totais_icms_cofins"] = "cofins_valor"
  /\ Somas["totais_vbc_ibscbs"] = "ibscbs_vbc"
  /\ Somas["totais_ibs"] = "ibscbs_v_ibs"
  /\ Somas["totais_ibs_uf"] = "ibscbs_v_ibs_uf"
  /\ Somas["totais_ibs_mun"] = "ibscbs_v_ibs_mun"
  /\ Somas["totais_cbs"] = "ibscbs_v_cbs"
  BY DEF Somas

LEMMA DeclaraOutros ==
  ASSUME NEW it
  PROVE  /\ \A tag \in {"vProd", "vFrete", "vSeg", "vDesc", "vOutro", "vII", "vIPIDevol"} :
               Declara(it, tag)
         /\ \A tag \in {"vBCIBSCBS", "vIBS", "vIBSUF", "vIBSMun", "vCBS"} :
               Declara(it, tag) <=> it.ibscbs \in IbsCbsTributados
  <1>1. Declara(it, "vProd")
    BY DEF Declara
  <1>2. Declara(it, "vFrete")
    BY DEF Declara
  <1>3. Declara(it, "vSeg")
    BY DEF Declara
  <1>4. Declara(it, "vDesc")
    BY DEF Declara
  <1>5. Declara(it, "vOutro")
    BY DEF Declara
  <1>6. Declara(it, "vII")
    BY DEF Declara
  <1>7. Declara(it, "vIPIDevol")
    BY DEF Declara
  <1>8. Declara(it, "vBCIBSCBS") <=> it.ibscbs \in IbsCbsTributados
    BY DEF Declara
  <1>9. Declara(it, "vIBS") <=> it.ibscbs \in IbsCbsTributados
    BY DEF Declara
  <1>10. Declara(it, "vIBSUF") <=> it.ibscbs \in IbsCbsTributados
    BY DEF Declara
  <1>11. Declara(it, "vIBSMun") <=> it.ibscbs \in IbsCbsTributados
    BY DEF Declara
  <1>12. Declara(it, "vCBS") <=> it.ibscbs \in IbsCbsTributados
    BY DEF Declara
  <1> QED
    BY <1>1, <1>2, <1>3, <1>4, <1>5, <1>6, <1>7, <1>8, <1>9, <1>10, <1>11, <1>12

Confere(x, it, c) ==
    LET d == x + NaoEscrito(it, c) - Valor(it, Somas[c[1]]) IN -5 <= d /\ d <= 5

(* The groups of c in s have what the item adds to its total.                *)
TrazDe(s, c, it) ==
    \E x : /\ Vale(s, c[4], c[5], x)
           /\ Declara(it, c[3]) => Certo(x, Valor(it, Somas[c[1]]))
           /\ ~Declara(it, c[3]) => x = 0

LEMMA ConfereTraz ==
  ASSUME NEW it, NEW s, NEW c, Valor(it, Somas[c[1]]) \in Nat, TrazDe(s, c, it)
  PROVE  \E x : Vale(s, c[4], c[5], x) /\ Confere(x, it, c)
  <1>1. PICK x : /\ Vale(s, c[4], c[5], x)
                 /\ Declara(it, c[3]) => Certo(x, Valor(it, Somas[c[1]]))
                 /\ ~Declara(it, c[3]) => x = 0
    BY DEF TrazDe
  <1>2. x \in Nat
    BY <1>1, ValeNatural
  <1>3. CASE Declara(it, c[3])
    <2>1. NaoEscrito(it, c) = 0
      BY <1>3 DEF NaoEscrito
    <2> QED
      BY <1>1, <1>2, <1>3, <2>1 DEF Confere, Certo
  <1>4. CASE ~Declara(it, c[3])
    <2>1. NaoEscrito(it, c) = Valor(it, Somas[c[1]])
      BY <1>4 DEF NaoEscrito
    <2> QED
      BY <1>1, <1>2, <1>4, <2>1 DEF Confere
  <1> QED
    BY <1>3, <1>4

(* Where the amount of each total is in an item.                             *)
LEMMA OndeEsta ==
  ASSUME NEW c \in Conferidos
  PROVE  \/ /\ c[4] = GIcms /\ c[5] \in DOMAIN DoIcms
            /\ c[3] = NoTotal(c[5]) /\ Somas[c[1]] = DoIcms[c[5]]
         \/ /\ c[4] = {"prod"} /\ c[5] \in DOMAIN DoProd
            /\ c[3] = c[5] /\ Somas[c[1]] = DoProd[c[5]]
         \/ /\ c[4] = {"II"} /\ c[5] = "vII"
            /\ c[3] = c[5] /\ Somas[c[1]] = "imposto_importacao_valor"
         \/ /\ c[4] = {"IPITrib"} /\ c[5] = "vIPI"
            /\ c[3] = c[5] /\ Somas[c[1]] = "ipi_valor_ipi"
         \/ /\ c[4] = {"IPIDevol"} /\ c[5] = "vIPIDevol"
            /\ c[3] = c[5] /\ Somas[c[1]] = "ipi_valor_ipi_dev"
         \/ c[4] = GPis /\ c[5] = "vPIS" /\ c[3] = c[5] /\ Somas[c[1]] = "pis_valor"
         \/ c[4] = GCofins /\ c[5] = "vCOFINS" /\ c[3] = c[5] /\ Somas[c[1]] = "cofins_valor"
         \/ c[4] = {"gIBSCBS"} /\ c[5] = "vBC" /\ c[3] = "vBCIBSCBS" /\ Somas[c[1]] = "ibscbs_vbc"
         \/ c[4] = {"gIBSCBS"} /\ c[5] = "vIBS" /\ c[3] = c[5] /\ Somas[c[1]] = "ibscbs_v_ibs"
         \/ c[4] = {"gIBSUF"} /\ c[5] = "vIBSUF" /\ c[3] = c[5] /\ Somas[c[1]] = "ibscbs_v_ibs_uf"
         \/ /\ c[4] = {"gIBSMun"} /\ c[5] = "vIBSMun"
            /\ c[3] = c[5] /\ Somas[c[1]] = "ibscbs_v_ibs_mun"
         \/ c[4] = {"gCBS"} /\ c[5] = "vCBS" /\ c[3] = c[5] /\ Somas[c[1]] = "ibscbs_v_cbs"
  <1> DEFINE A == {<<"totais_icms_base_calculo", "vBC">>, <<"totais_icms_total", "vICMS">>,
                   <<"totais_icms_desonerado", "vICMSDeson">>, <<"totais_fcp", "vFCP">>,
                   <<"totais_icms_st_base_calculo", "vBCST">>, <<"totais_fcp_st", "vFCPST">>,
                   <<"totais_fcp_st_ret", "vFCPSTRet">>,
                   <<"totais_icms_v_icms_mono", "vICMSMono">>,
                   <<"totais_icms_v_icms_mono_reten", "vICMSMonoReten">>,
                   <<"totais_icms_v_icms_mono_ret", "vICMSMonoRet">>}
             B == {<<"totais_icms_total_produtos_e_servicos", "vProd">>,
                   <<"totais_icms_total_frete", "vFrete">>,
                   <<"totais_icms_total_seguro", "vSeg">>,
                   <<"totais_icms_total_desconto", "vDesc">>,
                   <<"totais_icms_outras_despesas_acessorias", "vOutro">>}
  <1>1. \A p \in A : p[2] \in DOMAIN DoIcms /\ NoTotal(p[2]) = p[2] /\ Somas[p[1]] = DoIcms[p[2]]
    BY DasSomas, TagsDoIcms DEF NoTotal
  <1>2. \A p \in B : p[2] \in DOMAIN DoProd /\ Somas[p[1]] = DoProd[p[2]]
    BY DasSomas, TagsDoProd
  <1>3. \/ \E p \in A : c = <<p[1], "ICMSTot", p[2], GIcms, p[2]>>
        \/ \E p \in B : c = <<p[1], "ICMSTot", p[2], {"prod"}, p[2]>>
        \/ c \in {<<"totais_icms_st_total", "ICMSTot", "vST", GIcms, "vICMSST">>,
                  <<"totais_icms_total_ii", "ICMSTot", "vII", {"II"}, "vII">>,
                  <<"totais_icms_total_ipi", "ICMSTot", "vIPI", {"IPITrib"}, "vIPI">>,
                  <<"totais_icms_total_ipi_dev", "ICMSTot", "vIPIDevol", {"IPIDevol"},
                    "vIPIDevol">>,
                  <<"totais_icms_pis", "ICMSTot", "vPIS", GPis, "vPIS">>,
                  <<"totais_icms_cofins", "ICMSTot", "vCOFINS", GCofins, "vCOFINS">>,
                  <<"totais_vbc_ibscbs", "IBSCBSTot", "vBCIBSCBS", {"gIBSCBS"}, "vBC">>,
                  <<"totais_ibs", "gIBSTot", "vIBS", {"gIBSCBS"}, "vIBS">>,
                  <<"totais_ibs_uf", "gIBSUFTot", "vIBSUF", {"gIBSUF"}, "vIBSUF">>,
                  <<"totais_ibs_mun", "gIBSMunTot", "vIBSMun", {"gIBSMun"}, "vIBSMun">>,
                  <<"totais_cbs", "gCBSTot", "vCBS", {"gCBS"}, "vCBS">>}
    BY DEF Conferidos
  <1> HIDE DEF A, B
  <1>4. CASE \E p \in A : c = <<p[1], "ICMSTot", p[2], GIcms, p[2]>>
    BY <1>1, <1>4
  <1>5. CASE \E p \in B : c = <<p[1], "ICMSTot", p[2], {"prod"}, p[2]>>
    BY <1>2, <1>5
  <1>6. CASE c = <<"totais_icms_st_total", "ICMSTot", "vST", GIcms, "vICMSST">>
    BY <1>6, DasSomas, TagsDoIcms DEF NoTotal
  <1>7. CASE c \in {<<"totais_icms_total_ii", "ICMSTot", "vII", {"II"}, "vII">>,
                    <<"totais_icms_total_ipi", "ICMSTot", "vIPI", {"IPITrib"}, "vIPI">>,
                    <<"totais_icms_total_ipi_dev", "ICMSTot", "vIPIDevol", {"IPIDevol"},
                      "vIPIDevol">>,
                    <<"totais_icms_pis", "ICMSTot", "vPIS", GPis, "vPIS">>,
                    <<"totais_icms_cofins", "ICMSTot", "vCOFINS", GCofins, "vCOFINS">>}
    BY <1>7, DasSomas
  <1>8. CASE c \in {<<"totais_vbc_ibscbs", "IBSCBSTot", "vBCIBSCBS", {"gIBSCBS"}, "vBC">>,
                    <<"totais_ibs", "gIBSTot", "vIBS", {"gIBSCBS"}, "vIBS">>,
                    <<"totais_ibs_uf", "gIBSUFTot", "vIBSUF", {"gIBSUF"}, "vIBSUF">>,
                    <<"totais_ibs_mun", "gIBSMunTot", "vIBSMun", {"gIBSMun"}, "vIBSMun">>,
                    <<"totais_cbs", "gCBSTot", "vCBS", {"gCBS"}, "vCBS">>}
    BY <1>8, DasSomas
  <1> QED
    BY <1>3, <1>4, <1>5, <1>6, <1>7, <1>8

NaturalEm(it) == \A campo : Valor(it, campo) \in Nat

LEMMA ItemConfere ==
  ASSUME NEW it, NEW modelo, it.icms \in ModalidadesIcms, NaturalEm(it), NEW c \in Conferidos
  PROVE  \E x : Vale(Det(it, modelo), c[4], c[5], x) /\ Confere(x, it, c)
  <1> DEFINE s == Det(it, modelo)
             campo == Somas[c[1]]
             d == Declara(it, c[3])
  <1>1. /\ Natural(it, DoIcms) /\ Natural(it, DoProd) /\ Natural(it, DoTributo)
        /\ Natural(it, DoIbsCbs) /\ Valor(it, campo) \in Nat
    BY DEF NaturalEm, Natural
  <1> SUFFICES TrazDe(s, c, it)
    BY <1>1, ConfereTraz
  <1>2. CASE /\ c[4] = GIcms /\ c[5] \in DOMAIN DoIcms
             /\ c[3] = NoTotal(c[5]) /\ campo = DoIcms[c[5]]
    BY <1>1, <1>2, ItemIcms DEF Traz, Acerta, TrazDe
  <1>3. CASE /\ c[4] = {"prod"} /\ c[5] \in DOMAIN DoProd
             /\ c[3] = c[5] /\ campo = DoProd[c[5]]
    <2>1. d <=> TRUE
      BY <1>3, TagsDoProd, DeclaraOutros
    <2> HIDE DEF d, s, campo
    <2>2. Traz(s, c[4], c[5], it, campo, TRUE)
      BY <1>1, <1>3, ItemProd DEF s, campo
    <2> QED
      BY <2>1, <2>2 DEF Traz, Acerta, TrazDe, campo, d
  <1>4. CASE c[4] = {"II"} /\ c[5] = "vII" /\ c[3] = c[5] /\ campo = "imposto_importacao_valor"
    <2>1. d <=> TRUE
      BY <1>4, DeclaraOutros
    <2> HIDE DEF d, s, campo
    <2>2. Traz(s, c[4], c[5], it, campo, TRUE)
      BY <1>1, <1>4, ItemII DEF s, campo
    <2> QED
      BY <2>1, <2>2 DEF Traz, Acerta, TrazDe, campo, d
  <1>5. CASE c[4] = {"IPITrib"} /\ c[5] = "vIPI" /\ c[3] = c[5] /\ campo = "ipi_valor_ipi"
    BY <1>1, <1>5, ItemIPI DEF Traz, Acerta, TrazDe
  <1>6. CASE /\ c[4] = {"IPIDevol"} /\ c[5] = "vIPIDevol"
             /\ c[3] = c[5] /\ campo = "ipi_valor_ipi_dev"
    <2>1. d <=> TRUE
      BY <1>6, DeclaraOutros
    <2> HIDE DEF d, s, campo
    <2>2. Traz(s, c[4], c[5], it, campo, TRUE)
      BY <1>1, <1>6, ItemDevolvido DEF s, campo
    <2> QED
      BY <2>1, <2>2 DEF Traz, Acerta, TrazDe, campo, d
  <1>7. CASE c[4] = GPis /\ c[5] = "vPIS" /\ c[3] = c[5] /\ campo = "pis_valor"
    BY <1>1, <1>7, ItemPIS DEF Traz, Acerta, TrazDe
  <1>8. CASE c[4] = GCofins /\ c[5] = "vCOFINS" /\ c[3] = c[5] /\ campo = "cofins_valor"
    BY <1>1, <1>8, ItemCOFINS DEF Traz, Acerta, TrazDe
  <1> DEFINE t == it.ibscbs \in IbsCbsTributados
  <1>9. /\ Traz(s, {"gIBSCBS"}, "vBC", it, "ibscbs_vbc", t)
        /\ Traz(s, {"gIBSCBS"}, "vIBS", it, "ibscbs_v_ibs", t)
        /\ Traz(s, {"gIBSUF"}, "vIBSUF", it, "ibscbs_v_ibs_uf", t)
        /\ Traz(s, {"gIBSMun"}, "vIBSMun", it, "ibscbs_v_ibs_mun", t)
        /\ Traz(s, {"gCBS"}, "vCBS", it, "ibscbs_v_cbs", t)
    BY <1>1, ItemIBSCBS
  <1>10. ASSUME c[3] \in {"vBCIBSCBS", "vIBS", "vIBSUF", "vIBSMun", "vCBS"}
         PROVE  t <=> d
    BY <1>10, DeclaraOutros
  <1> HIDE DEF s, t, d, campo
  <1>11. CASE \/ /\ c[4] = {"gIBSCBS"} /\ c[5] = "vBC"
                 /\ c[3] = "vBCIBSCBS" /\ campo = "ibscbs_vbc"
              \/ c[4] = {"gIBSCBS"} /\ c[5] = "vIBS" /\ c[3] = c[5] /\ campo = "ibscbs_v_ibs"
    BY <1>9, <1>10, <1>11 DEF Traz, Acerta, TrazDe, campo, d
  <1>12. CASE \/ c[4] = {"gIBSUF"} /\ c[5] = "vIBSUF" /\ c[3] = c[5] /\ campo = "ibscbs_v_ibs_uf"
              \/ /\ c[4] = {"gIBSMun"} /\ c[5] = "vIBSMun"
                 /\ c[3] = c[5] /\ campo = "ibscbs_v_ibs_mun"
              \/ c[4] = {"gCBS"} /\ c[5] = "vCBS" /\ c[3] = c[5] /\ campo = "ibscbs_v_cbs"
    BY <1>9, <1>10, <1>12 DEF Traz, Acerta, TrazDe, campo, d
  <1> QED
    BY <1>2, <1>3, <1>4, <1>5, <1>6, <1>7, <1>8, <1>11, <1>12, OndeEsta DEF campo


-----------------------------------------------------------------------------
(* The total of a group: there is no such group, or it states the total.     *)
AusenteOuCerto(s, nome, tag, n, campo) ==
    \/ Fora({nome}, s)
    \/ \E y : Vale(s, {nome}, tag, y) /\ Certo(y, Valor(n, campo))

LEMMA AusenteNoMeio ==
  ASSUME NEW s, NEW t, NEW nome, NEW tag, NEW n, NEW campo,
         AusenteOuCerto(s, nome, tag, n, campo), Fora({nome}, t)
  PROVE  /\ AusenteOuCerto(s \o t, nome, tag, n, campo)
         /\ AusenteOuCerto(t \o s, nome, tag, n, campo)
  <1>1. CASE Fora({nome}, s)
    BY <1>1, ForaColada DEF AusenteOuCerto
  <1>2. CASE \E y : Vale(s, {nome}, tag, y) /\ Certo(y, Valor(n, campo))
    BY <1>2, ValeNoMeio DEF AusenteOuCerto
  <1> QED
    BY <1>1, <1>2 DEF AusenteOuCerto

LEMMA AusenteSe ==
  ASSUME NEW c, NEW s, NEW nome, NEW tag, NEW n, NEW campo,
         AusenteOuCerto(s, nome, tag, n, campo)
  PROVE  AusenteOuCerto(Se(c, s), nome, tag, n, campo)
  <1>1. CASE c
    BY <1>1 DEF Se
  <1>2. CASE ~c
    BY <1>2, ForaVazia DEF Se, AusenteOuCerto
  <1> QED
    BY <1>1, <1>2

LEMMA AusenteUnico ==
  ASSUME NEW n, NEW m, NEW g, NEW K, Diz(n, m, g.filhos, K), NEW nome, NEW s,
         Unico({nome}, s, g), NEW tag \in DOMAIN m, tag \in K
  PROVE  AusenteOuCerto(s, nome, tag, n, m[tag])
  BY ValeGrupo DEF AusenteOuCerto

(* The groups of the totals of IBS and CBS.                                  *)
LEMMA TotaisDaReforma ==
  ASSUME NEW n, Natural(n, DoTotalIbs)
  PROVE  LET s == IBSCBSTot(n) IN
         /\ AusenteOuCerto(s, "IBSCBSTot", "vBCIBSCBS", n, "totais_vbc_ibscbs")
         /\ AusenteOuCerto(s, "gIBSTot", "vIBS", n, "totais_ibs")
         /\ AusenteOuCerto(s, "gIBSUFTot", "vIBSUF", n, "totais_ibs_uf")
         /\ AusenteOuCerto(s, "gIBSMunTot", "vIBSMun", n, "totais_ibs_mun")
         /\ AusenteOuCerto(s, "gCBSTot", "vCBS", n, "totais_cbs")
  <1> DEFINE g0 == Grupo("IBSCBSTot", <<V("vBCIBSCBS", n, "totais_vbc_ibscbs")>>
                           \o Se(HaIBS(n), <<T("gIBS")>>)
                           \o Se(Ha(n, "totais_cbs"), <<T("gCBS")>>))
             g1 == Grupo("gIBSTot", <<T("gIBSUF"), T("gIBSMun"), V("vIBS", n, "totais_ibs"),
                                      T("vCredPres"), T("vCredPresCondSus")>>)
             g2 == Grupo("gIBSUFTot", <<T("vDif"), T("vDevTrib"),
                                        V("vIBSUF", n, "totais_ibs_uf")>>)
             g3 == Grupo("gIBSMunTot", <<T("vDif"), T("vDevTrib"),
                                         V("vIBSMun", n, "totais_ibs_mun")>>)
             g4 == Grupo("gCBSTot", <<T("vDif"), T("vDevTrib"), V("vCBS", n, "totais_cbs"),
                                      T("vCredPres"), T("vCredPresCondSus")>>)
             p == <<g0>>
             q == <<g1, g2, g3>>
             r == <<g4>>
             qs == Se(HaIBS(n), q)
             rs == Se(Ha(n, "totais_cbs"), r)
  <1>1. IBSCBSTot(n) = p \o qs \o rs
    BY DEF IBSCBSTot
  <1>2. /\ Diz(n, DoTotalIbs, g0.filhos, {"vBCIBSCBS"})
        /\ Diz(n, DoTotalIbs, g1.filhos, {"vIBS"})
        /\ Diz(n, DoTotalIbs, g2.filhos, {"vIBSUF"})
        /\ Diz(n, DoTotalIbs, g3.filhos, {"vIBSMun"})
        /\ Diz(n, DoTotalIbs, g4.filhos, {"vCBS"})
    BY DizBase, DizGIBSTot, DizGIBSUFTot, DizGIBSMunTot, DizGCBSTot DEF Grupo
  <1>3. /\ g0.grupo = "IBSCBSTot" /\ g1.grupo = "gIBSTot" /\ g2.grupo = "gIBSUFTot"
        /\ g3.grupo = "gIBSMunTot" /\ g4.grupo = "gCBSTot"
    BY DEF Grupo
  <1> HIDE DEF g0, g1, g2, g3, g4
  <1>4. Unico({"IBSCBSTot"}, p, g0) /\ Unico({"gCBSTot"}, r, g4)
    BY <1>3, UnicoSo
  <1>5. /\ Unico({"gIBSTot"}, q, g1) /\ Unico({"gIBSUFTot"}, q, g2)
        /\ Unico({"gIBSMunTot"}, q, g3)
    <2>1. /\ Len(q) = 3 /\ q = [i \in 1..Len(q) |-> q[i]]
          /\ q[1] = g1 /\ q[2] = g2 /\ q[3] = g3 /\ {1, 2, 3} \subseteq 1..3
      OBVIOUS
    <2> HIDE DEF q
    <2> QED
      BY <1>3, <2>1 DEF Unico
  <1>6. ASSUME NEW nome
        PROVE  /\ nome # "IBSCBSTot" => Fora({nome}, p)
               /\ nome # "gCBSTot" => Fora({nome}, rs)
               /\ nome \notin {"gIBSTot", "gIBSUFTot", "gIBSMunTot"} => Fora({nome}, qs)
    <2>1. nome # "IBSCBSTot" => Fora({nome}, p)
      BY <1>3 DEF Fora
    <2>2. nome # "gCBSTot" => Fora({nome}, r)
      BY <1>3 DEF Fora
    <2>3. nome \notin {"gIBSTot", "gIBSUFTot", "gIBSMunTot"} => Fora({nome}, q)
      BY <1>3 DEF Fora
    <2> QED
      BY <2>1, <2>2, <2>3, ForaSe
  <1>7. /\ AusenteOuCerto(p, "IBSCBSTot", "vBCIBSCBS", n, "totais_vbc_ibscbs")
        /\ AusenteOuCerto(r, "gCBSTot", "vCBS", n, "totais_cbs")
        /\ AusenteOuCerto(q, "gIBSTot", "vIBS", n, "totais_ibs")
        /\ AusenteOuCerto(q, "gIBSUFTot", "vIBSUF", n, "totais_ibs_uf")
        /\ AusenteOuCerto(q, "gIBSMunTot", "vIBSMun", n, "totais_ibs_mun")
    BY <1>2, <1>4, <1>5, TagsDoTotalIbs, AusenteUnico
  <1> HIDE DEF p, q, r
  <1>8. /\ AusenteOuCerto(rs, "gCBSTot", "vCBS", n, "totais_cbs")
        /\ AusenteOuCerto(qs, "gIBSTot", "vIBS", n, "totais_ibs")
        /\ AusenteOuCerto(qs, "gIBSUFTot", "vIBSUF", n, "totais_ibs_uf")
        /\ AusenteOuCerto(qs, "gIBSMunTot", "vIBSMun", n, "totais_ibs_mun")
    BY <1>7, AusenteSe
  <1> HIDE DEF qs, rs
  <1> DEFINE pq == p \o qs
  <1>9. /\ AusenteOuCerto(pq, "IBSCBSTot", "vBCIBSCBS", n, "totais_vbc_ibscbs")
        /\ AusenteOuCerto(pq, "gIBSTot", "vIBS", n, "totais_ibs")
        /\ AusenteOuCerto(pq, "gIBSUFTot", "vIBSUF", n, "totais_ibs_uf")
        /\ AusenteOuCerto(pq, "gIBSMunTot", "vIBSMun", n, "totais_ibs_mun")
        /\ Fora({"gCBSTot"}, pq)
    BY <1>6, <1>7, <1>8, AusenteNoMeio, ForaColada
  <1> HIDE DEF pq
  <1>10. /\ AusenteOuCerto(pq \o rs, "IBSCBSTot", "vBCIBSCBS", n, "totais_vbc_ibscbs")
         /\ AusenteOuCerto(pq \o rs, "gIBSTot", "vIBS", n, "totais_ibs")
         /\ AusenteOuCerto(pq \o rs, "gIBSUFTot", "vIBSUF", n, "totais_ibs_uf")
         /\ AusenteOuCerto(pq \o rs, "gIBSMunTot", "vIBSMun", n, "totais_ibs_mun")
         /\ AusenteOuCerto(pq \o rs, "gCBSTot", "vCBS", n, "totais_cbs")
    BY <1>6, <1>8, <1>9, AusenteNoMeio
  <1> QED
    BY <1>1, <1>10 DEF pq

(* The groups and the total each row of Conferidos compares.                 *)
LEMMA QualTotal ==
  ASSUME NEW c \in Conferidos
  PROVE  /\ c[1] \in DOMAIN Somas
         /\ c[4] \in SUBSET DosItens /\ c[2] \in DosTotais
         /\ \/ c[2] = "ICMSTot" /\ c[3] \in DOMAIN DoTotal /\ c[1] = DoTotal[c[3]]
            \/ c[2] = "IBSCBSTot" /\ c[3] = "vBCIBSCBS" /\ c[1] = "totais_vbc_ibscbs"
            \/ c[2] = "gIBSTot" /\ c[3] = "vIBS" /\ c[1] = "totais_ibs"
            \/ c[2] = "gIBSUFTot" /\ c[3] = "vIBSUF" /\ c[1] = "totais_ibs_uf"
            \/ c[2] = "gIBSMunTot" /\ c[3] = "vIBSMun" /\ c[1] = "totais_ibs_mun"
            \/ c[2] = "gCBSTot" /\ c[3] = "vCBS" /\ c[1] = "totais_cbs"
  <1> DEFINE A == {<<"totais_icms_base_calculo", "vBC">>, <<"totais_icms_total", "vICMS">>,
                   <<"totais_icms_desonerado", "vICMSDeson">>, <<"totais_fcp", "vFCP">>,
                   <<"totais_icms_st_base_calculo", "vBCST">>, <<"totais_fcp_st", "vFCPST">>,
                   <<"totais_fcp_st_ret", "vFCPSTRet">>,
                   <<"totais_icms_v_icms_mono", "vICMSMono">>,
                   <<"totais_icms_v_icms_mono_reten", "vICMSMonoReten">>,
                   <<"totais_icms_v_icms_mono_ret", "vICMSMonoRet">>}
             B == {<<"totais_icms_total_produtos_e_servicos", "vProd">>,
                   <<"totais_icms_total_frete", "vFrete">>,
                   <<"totais_icms_total_seguro", "vSeg">>,
                   <<"totais_icms_total_desconto", "vDesc">>,
                   <<"totais_icms_outras_despesas_acessorias", "vOutro">>}
             C == {<<"totais_icms_st_total", "ICMSTot", "vST", GIcms, "vICMSST">>,
                   <<"totais_icms_total_ii", "ICMSTot", "vII", {"II"}, "vII">>,
                   <<"totais_icms_total_ipi", "ICMSTot", "vIPI", {"IPITrib"}, "vIPI">>,
                   <<"totais_icms_total_ipi_dev", "ICMSTot", "vIPIDevol", {"IPIDevol"},
                     "vIPIDevol">>,
                   <<"totais_icms_pis", "ICMSTot", "vPIS", GPis, "vPIS">>,
                   <<"totais_icms_cofins", "ICMSTot", "vCOFINS", GCofins, "vCOFINS">>}
             D == {<<"totais_vbc_ibscbs", "IBSCBSTot", "vBCIBSCBS", {"gIBSCBS"}, "vBC">>,
                   <<"totais_ibs", "gIBSTot", "vIBS", {"gIBSCBS"}, "vIBS">>,
                   <<"totais_ibs_uf", "gIBSUFTot", "vIBSUF", {"gIBSUF"}, "vIBSUF">>,
                   <<"totais_ibs_mun", "gIBSMunTot", "vIBSMun", {"gIBSMun"}, "vIBSMun">>,
                   <<"totais_cbs", "gCBSTot", "vCBS", {"gCBS"}, "vCBS">>}
  <1>1. \A p \in A \union B : p[1] \in DOMAIN Somas /\ p[2] \in DOMAIN DoTotal
                              /\ p[1] = DoTotal[p[2]]
    <2>1. \A p \in A \union B : p[1] \in DOMAIN Somas
      BY DEF Somas
    <2>2. \A p \in A \union B : p[2] \in DOMAIN DoTotal /\ p[1] = DoTotal[p[2]]
      BY TagsDoTotal
    <2> QED
      BY <2>1, <2>2
  <1>2. \A d \in C : d[1] \in DOMAIN Somas /\ d[2] = "ICMSTot" /\ d[3] \in DOMAIN DoTotal
                     /\ d[1] = DoTotal[d[3]]
    <2>1. \A d \in C : d[1] \in DOMAIN Somas
      BY DEF Somas
    <2>2. \A d \in C : d[2] = "ICMSTot" /\ d[3] \in DOMAIN DoTotal /\ d[1] = DoTotal[d[3]]
      BY TagsDoTotal
    <2> QED
      BY <2>1, <2>2
  <1>3. \A d \in D : d[1] \in DOMAIN Somas
    BY DEF Somas
  <1>4. /\ {GIcms, GPis, GCofins} \subseteq SUBSET DosItens
        /\ {{"prod"}, {"II"}, {"IPITrib"}, {"IPIDevol"}} \subseteq SUBSET DosItens
        /\ {{"gIBSCBS"}, {"gIBSUF"}, {"gIBSMun"}, {"gCBS"}} \subseteq SUBSET DosItens
        /\ {"ICMSTot", "IBSCBSTot", "gIBSTot", "gIBSUFTot", "gIBSMunTot", "gCBSTot"}
             \subseteq DosTotais
    <2>1. {GIcms, GPis, GCofins} \subseteq SUBSET DosItens
      BY DEF DosItens
    <2>2. {{"prod"}, {"II"}, {"IPITrib"}, {"IPIDevol"}} \subseteq SUBSET DosItens
      BY DEF DosItens
    <2>3. {{"gIBSCBS"}, {"gIBSUF"}, {"gIBSMun"}, {"gCBS"}} \subseteq SUBSET DosItens
      BY DEF DosItens, GIbs
    <2> QED
      BY <2>1, <2>2, <2>3 DEF DosTotais
  <1>5. \/ \E p \in A : c = <<p[1], "ICMSTot", p[2], GIcms, p[2]>>
        \/ \E p \in B : c = <<p[1], "ICMSTot", p[2], {"prod"}, p[2]>>
        \/ c \in C
        \/ c \in D
    <2>1. c \in {<<p[1], "ICMSTot", p[2], GIcms, p[2]>> : p \in A}
                  \union {<<p[1], "ICMSTot", p[2], {"prod"}, p[2]>> : p \in B}
                  \union C \union D
      BY DEF Conferidos
    <2> HIDE DEF A, B, C, D
    <2> QED
      BY <2>1
  <1> HIDE DEF A, B
  <1>6. CASE \E p \in A : c = <<p[1], "ICMSTot", p[2], GIcms, p[2]>>
    BY <1>1, <1>4, <1>6
  <1>7. CASE \E p \in B : c = <<p[1], "ICMSTot", p[2], {"prod"}, p[2]>>
    BY <1>1, <1>4, <1>7
  <1>8. CASE c \in C
    <2>1. c[4] \in {GIcms, GPis, GCofins, {"II"}, {"IPITrib"}, {"IPIDevol"}}
      BY <1>8
    <2> HIDE DEF C
    <2> QED
      BY <1>2, <1>4, <1>8, <2>1
  <1>9. CASE c \in D
    <2>1. c[1] \in DOMAIN Somas
      BY <1>3, <1>9
    <2> QED
      BY <1>4, <1>9, <2>1
  <1> HIDE DEF C, D
  <1> QED
    BY <1>5, <1>6, <1>7, <1>8, <1>9

-----------------------------------------------------------------------------
(* The document of a note: its totals, and what its items add up to.         *)
LEMMA ForaTotal ==
  ASSUME NEW gs \in SUBSET DosItens, NEW n
  PROVE  Fora(gs, Total(n))
  <1>1. /\ gs \in SUBSET Conferidas
        /\ \A nome \in DosTotais : nome \notin gs
    <2>1. DosItens \cap DosTotais = {}
      BY DEF DosItens, DosTotais, GIcms, GPis, GCofins, GIbs
    <2> QED
      BY <2>1 DEF Conferidas
  <1>2. "total" \notin gs
    BY <1>1, DosDemais DEF Demais
  <1>3. /\ "ICMSTot" \notin gs /\ "IBSCBSTot" \notin gs /\ "gIBSTot" \notin gs
        /\ "gIBSUFTot" \notin gs /\ "gIBSMunTot" \notin gs /\ "gCBSTot" \notin gs
    BY <1>1 DEF DosTotais
  <1>4. ASSUME NEW f PROVE Fora(gs, <<Grupo("total", f), ICMSTot(n)>>)
    <2>1. Grupo("total", f).grupo = "total" /\ ICMSTot(n).grupo = "ICMSTot"
      BY DEF ICMSTot, Grupo
    <2> QED
      BY <1>2, <1>3, <2>1, ForaDois
  <1>5. ASSUME NEW a, NEW b, NEW c
        PROVE  Fora(gs, <<Grupo("gIBSTot", a), Grupo("gIBSUFTot", b), Grupo("gIBSMunTot", c)>>)
    BY <1>3 DEF Fora, Grupo
  <1>6. Fora(gs, IBSCBSTot(n))
    BY <1>3, <1>5, ForaGrupo, ForaSe, ForaColada DEF IBSCBSTot
  <1> QED
    BY <1>4, <1>6, ForaSe, ForaColada DEF Total

LEMMA TotalCerto ==
  ASSUME NEW n, Natural(n, DoTotal), Natural(n, DoTotalIbs), NEW c \in Conferidos
  PROVE  AusenteOuCerto(Total(n), c[2], c[3], n, c[1])
  <1>1. CASE c[2] = "ICMSTot" /\ c[3] \in DOMAIN DoTotal /\ c[1] = DoTotal[c[3]]
    BY <1>1, UnicoTotal, DizICMSTot, AusenteUnico
  <1>2. CASE AusenteOuCerto(IBSCBSTot(n), c[2], c[3], n, c[1]) /\ c[2] \notin {"total", "ICMSTot"}
    <2>1. ASSUME NEW f PROVE Fora({c[2]}, <<Grupo("total", f), ICMSTot(n)>>)
      <3>1. Grupo("total", f).grupo = "total" /\ ICMSTot(n).grupo = "ICMSTot"
        BY DEF ICMSTot, Grupo
      <3> QED
        BY <1>2, <3>1, ForaDois
    <2> QED
      BY <1>2, <2>1, AusenteSe, AusenteNoMeio DEF Total
  <1>3. CASE c[2] = "IBSCBSTot" /\ c[3] = "vBCIBSCBS" /\ c[1] = "totais_vbc_ibscbs"
    BY <1>2, <1>3, TotaisDaReforma
  <1>4. CASE c[2] = "gIBSTot" /\ c[3] = "vIBS" /\ c[1] = "totais_ibs"
    BY <1>2, <1>4, TotaisDaReforma
  <1>5. CASE c[2] = "gIBSUFTot" /\ c[3] = "vIBSUF" /\ c[1] = "totais_ibs_uf"
    BY <1>2, <1>5, TotaisDaReforma
  <1>6. CASE c[2] = "gIBSMunTot" /\ c[3] = "vIBSMun" /\ c[1] = "totais_ibs_mun"
    BY <1>2, <1>6, TotaisDaReforma
  <1>7. CASE c[2] = "gCBSTot" /\ c[3] = "vCBS" /\ c[1] = "totais_cbs"
    BY <1>2, <1>7, TotaisDaReforma
  <1> QED
    BY <1>1, <1>3, <1>4, <1>5, <1>6, <1>7, QualTotal

LEMMA NotaTotal ==
  ASSUME NEW n, NEW contingencia, NEW soCpf, Legivel(n), Natural(n, DoTotal),
         Natural(n, DoTotalIbs), NEW c \in Conferidos
  PROVE  AusenteOuCerto(NotaFiscal(n, contingencia, soCpf), c[2], c[3], n, c[1])
  <1> DEFINE gs == {c[2]}
             Bom(s) == AusenteOuCerto(s, c[2], c[3], n, c[1])
             h == Sequencias!FlattenSeq(Dets(n))
             s == Total(n)
             y == NotaFiscal(n, contingencia, soCpf)
             w == Antes(n, contingencia, soCpf)
             p == Transporte(n)
             q == Cobranca(n)
             r == Pagamento(n)
             t == InfAdic(n)
             u == InfRespTec(n)
  <1>1. gs \in SUBSET DosTotais /\ gs \in SUBSET Conferidas
    BY QualTotal DEF Conferidas
  <1>2. /\ y = w \o h \o s \o p \o q \o r \o t \o u
        /\ Fora(gs, w) /\ Fora(gs, p) /\ Fora(gs, q) /\ Fora(gs, r) /\ Fora(gs, t)
        /\ Fora(gs, u)
    BY <1>1, DaNota
  <1>3. Fora(gs, h)
    BY <1>1, ForaDets
  <1>4. Bom(s)
    BY TotalCerto
  <1>5. ASSUME NEW a, NEW b, Bom(a), Fora(gs, b)
        PROVE  Bom(a \o b) /\ Bom(b \o a)
    BY <1>5, AusenteNoMeio
  <1> HIDE DEF gs, Bom, h, s, y, w, p, q, r, t, u
  <1> DEFINE wh == w \o h
             z == wh \o s
  <1>6. Fora(gs, wh)
    BY <1>2, <1>3, ForaColada
  <1> HIDE DEF wh
  <1>7. Bom(z)
    BY <1>4, <1>5, <1>6
  <1> HIDE DEF z
  <1>8. Bom(z \o p \o q \o r \o t \o u)
    BY <1>2, <1>5, <1>7
  <1>9. y = z \o p \o q \o r \o t \o u
    BY <1>2 DEF z, wh
  <1>10. Bom(y)
    BY <1>8, <1>9
  <1> QED
    BY <1>10 DEF Bom, y

LEMMA NotaItens ==
  ASSUME NEW n, NEW contingencia, NEW soCpf, Legivel(n),
         \A i \in 1..Len(n.itens) : NaturalEm(n.itens[i]), NEW c \in Conferidos
  PROVE  \E p : /\ Naturais(p, Len(n.itens))
                /\ SomaDe(NotaFiscal(n, contingencia, soCpf), c[4], c[5]) = Somatorio(p)
                /\ \A i \in 1..Len(n.itens) : Confere(p[i], n.itens[i], c)
  <1> DEFINE k == Len(n.itens)
             ds == Dets(n)
             Bom(i, x) == Vale(ds[i], c[4], c[5], x) /\ Confere(x, n.itens[i], c)
             p == [i \in 1..k |-> CHOOSE x : Bom(i, x)]
  <1>1. k \in Nat /\ \A i \in 1..k : n.itens[i].icms \in ModalidadesIcms
    BY DEF Legivel
  <1>2. ds = [i \in 1..k |-> ds[i]] /\ \A i \in 1..k : ds[i] = Det(n.itens[i], n.modelo)
    BY DEF Dets
  <1>3. \A i \in 1..k : \E x : Bom(i, x)
    BY <1>1, <1>2, ItemConfere
  <1>4. p = [i \in 1..k |-> p[i]] /\ \A i \in 1..k : Bom(i, p[i])
    <2> HIDE DEF Bom
    <2>1. \A i \in 1..k : Bom(i, CHOOSE x : Bom(i, x))
      BY <1>3
    <2> QED
      BY <2>1
  <1> HIDE DEF p
  <1>5. \A i \in 1..k : Vale(ds[i], c[4], c[5], p[i]) /\ Confere(p[i], n.itens[i], c)
    BY <1>4
  <1> HIDE DEF ds, Bom
  <1> DEFINE gs == c[4]
             h == Sequencias!FlattenSeq(ds)
             x == Somatorio(p)
             s == Total(n)
             y == NotaFiscal(n, contingencia, soCpf)
             w == Antes(n, contingencia, soCpf)
             t1 == Transporte(n)
             t2 == Cobranca(n)
             t3 == Pagamento(n)
             t4 == InfAdic(n)
             t5 == InfRespTec(n)
  <1>6. Vale(h, gs, c[5], x) /\ Naturais(p, k)
    <2> HIDE DEF k
    <2> QED
      BY <1>1, <1>2, <1>4, <1>5, ValeJuntas
  <1>7. gs \in SUBSET DosItens /\ gs \in SUBSET Conferidas
    BY QualTotal DEF Conferidas
  <1>8. /\ y = w \o h \o s \o t1 \o t2 \o t3 \o t4 \o t5
        /\ Fora(gs, w) /\ Fora(gs, t1) /\ Fora(gs, t2) /\ Fora(gs, t3) /\ Fora(gs, t4)
        /\ Fora(gs, t5)
    BY <1>7, DaNota DEF ds
  <1>9. Fora(gs, s)
    BY <1>7, ForaTotal
  <1> HIDE DEF gs, h, x, s, y, w, t1, t2, t3, t4, t5, k
  <1> DEFINE wh == w \o h
             z == wh \o s
  <1>10. Vale(wh, gs, c[5], x)
    BY <1>6, <1>8, ValeNoMeio
  <1> HIDE DEF wh
  <1>11. Vale(z, gs, c[5], x)
    BY <1>9, <1>10, ValeNoMeio
  <1> HIDE DEF z
  <1>12. Vale(z \o t1 \o t2 \o t3 \o t4 \o t5, gs, c[5], x)
    BY <1>8, <1>11, ValeNoMeio
  <1>13. y = z \o t1 \o t2 \o t3 \o t4 \o t5
    BY <1>8 DEF z, wh
  <1>14. SomaDe(y, gs, c[5]) = x
    BY <1>12, <1>13 DEF Vale
  <1> QED
    BY <1>5, <1>6, <1>14 DEF gs, x, y, k

-----------------------------------------------------------------------------
(* The totals of a note are the sums of its items, and the document is that  *)
(* of such a note.                                                           *)
DosValores(itens, campo) == [i \in 1..Len(itens) |-> Valor(itens[i], campo)]

Acumulada(n) ==
    \A c \in DOMAIN Somas :
       c \in DOMAIN n.v /\ n.v[c] = Somatorio(DosValores(n.itens, Somas[c]))

DocumentoDaNota ==
    Existe(xml) =>
      /\ Legivel(xml.nota) /\ xml.nota.itens \in Seq(Itens) /\ Acumulada(xml.nota)
      /\ \E s \in Serializadores :
            xml.grupos = NotaFiscal(xml.nota, s.contingencia, s.soCpf)

TotaisIInv == ValorIInv /\ (Existe(nota) => Acumulada(nota)) /\ DocumentoDaNota

LEMMA TotaisInicio == TransInit => TotaisIInv
  BY ValorInicio DEF TransInit, DocInit, TotaisIInv, DocumentoDaNota, Existe, Nenhum

LEMMA TotaisCriar ==
  ASSUME TotaisIInv, NEW op \in Opcoes, Criar(op)
  PROVE  TotaisIInv'
  <1>1. ValorIInv' /\ xml' = xml
    BY ValorCriar DEF TotaisIInv, Criar
  <1>2. nota'.itens = <<>> /\ nota'.v = Vazia.v
    <2>1. DOMAIN Vazia = {"existe", "itens", "v"} /\ Vazia.itens = <<>>
      BY DEF Vazia
    <2> QED
      BY <2>1 DEF Criar
  <1>3. \A c \in DOMAIN Somas : c \in DOMAIN Vazia.v /\ Vazia.v[c] = 0
    BY DEF Vazia
  <1>4. ASSUME NEW campo PROVE Somatorio(DosValores(<<>>, campo)) = 0
    <2> DEFINE q == DosValores(<<>>, campo)
    <2>1. q = [i \in 1..0 |-> q[i]]
      BY DEF DosValores
    <2>2. \A i \in 1..0 : q[i] = 0
      OBVIOUS
    <2> HIDE DEF q
    <2>3. 0 \in Nat
      OBVIOUS
    <2>4. Somatorio(q) = 0
      BY <2>1, <2>2, <2>3, SomatorioNulo
    <2> QED
      BY <2>4 DEF q
  <1>5. Acumulada(nota')
    BY <1>2, <1>3, <1>4 DEF Acumulada
  <1> QED
    BY <1>1, <1>5 DEF TotaisIInv, DocumentoDaNota

(* One more item adds its amount to the sum.                                 *)
LEMMA MaisUm ==
  ASSUME NEW itens \in Seq(Itens), NEW it \in Itens, NEW campo
  PROVE  /\ Naturais(DosValores(itens, campo), Len(itens))
         /\ Somatorio(DosValores(Append(itens, it), campo))
              = Somatorio(DosValores(itens, campo)) + Valor(it, campo)
  <1> DEFINE n == Len(itens)
             mais == Append(itens, it)
             p == DosValores(itens, campo)
             q == <<Valor(it, campo)>>
             r == DosValores(mais, campo)
  <1>1. /\ n \in Nat /\ \A i \in 1..n : itens[i] \in Itens
        /\ Len(mais) = n + 1 /\ mais[n + 1] = it /\ \A i \in 1..n : mais[i] = itens[i]
    BY AppendProperties
  <1> HIDE DEF mais
  <1>2. Naturais(p, n)
    <2>1. \A i \in 1..n : Valor(itens[i], campo) \in Nat
      BY <1>1, DeValor
    <2> QED
      BY <2>1 DEF DosValores, Naturais
  <1>3. 1 \in Nat /\ Naturais(q, 1) /\ Somatorio(q) = Valor(it, campo)
    <2>1. /\ q = [i \in 1..1 |-> q[i]] /\ q[1] = Valor(it, campo)
          /\ \A i \in 1..1 : i = 1
      OBVIOUS
    <2>2. Valor(it, campo) \in Nat /\ 1 \in Nat /\ 1 \in 1..1
      BY DeValor
    <2> HIDE DEF q
    <2>3. \A i \in 1..1 : i # 1 => q[i] = 0
      BY <2>1
    <2>4. Somatorio(q) = q[1]
      BY <2>1, <2>2, <2>3, SomatorioUnico
    <2> QED
      BY <2>1, <2>2, <2>4 DEF Naturais
  <1>4. Seguidas(p, n, q, 1, r)
    <2>1. r = [i \in 1..(n + 1) |-> r[i]]
      BY <1>1 DEF DosValores
    <2>2. \A i \in 1..n : r[i] = p[i]
      BY <1>1 DEF DosValores
    <2>3. \A i \in 1..1 : r[n + i] = q[i]
      BY <1>1 DEF DosValores
    <2> HIDE DEF p, q, r, n
    <2> QED
      BY <2>1, <2>2, <2>3 DEF Seguidas
  <1> HIDE DEF p, q, r, n
  <1>5. Somatorio(r) = Somatorio(p) + Somatorio(q)
    BY <1>1, <1>2, <1>3, <1>4, SomatorioColada
  <1> QED
    BY <1>2, <1>3, <1>5 DEF p, r, n, mais

LEMMA TotaisAdicionar ==
  ASSUME TotaisIInv, NEW it \in Itens, AdicionarItem(it)
  PROVE  TotaisIInv'
  <1>1. ValorIInv' /\ xml' = xml
    BY ValorAdicionar DEF TotaisIInv, AdicionarItem
  <1>2. /\ {"itens", "v"} \subseteq DOMAIN nota
        /\ nota.itens \in Seq(Itens) /\ Acumulada(nota)
    BY DEF TotaisIInv, ValorIInv, NotaComTotais, AdicionarItem, Existe, Nenhum
  <1>3. /\ nota'.itens = Append(nota.itens, it)
        /\ nota'.v = [c \in DOMAIN nota.v |->
                        nota.v[c] + IF c = "totais_icms_total_nota" THEN TotalDaNota(it)
                                    ELSE Valor(it, Somas[c])]
    BY <1>2 DEF AdicionarItem
  <1>4. "totais_icms_total_nota" \notin DOMAIN Somas
    BY DEF Somas
  <1>5. \A c \in DOMAIN Somas :
           c \in DOMAIN nota'.v /\ nota'.v[c] = nota.v[c] + Valor(it, Somas[c])
    BY <1>2, <1>3, <1>4 DEF Acumulada
  <1>6. Acumulada(nota')
    <2>1. \A c \in DOMAIN Somas :
             Somatorio(DosValores(nota'.itens, Somas[c]))
               = Somatorio(DosValores(nota.itens, Somas[c])) + Valor(it, Somas[c])
      <3>1. ASSUME NEW campo
            PROVE  Somatorio(DosValores(Append(nota.itens, it), campo))
                     = Somatorio(DosValores(nota.itens, campo)) + Valor(it, campo)
        BY <1>2, MaisUm
      <3> QED
        BY <1>3, <3>1
    <2>2. \A c \in DOMAIN Somas : nota.v[c] = Somatorio(DosValores(nota.itens, Somas[c]))
      BY <1>2 DEF Acumulada
    <2> QED
      BY <1>5, <2>1, <2>2 DEF Acumulada
  <1> QED
    BY <1>1, <1>6 DEF TotaisIInv, DocumentoDaNota

LEMMA TotaisExportar ==
  ASSUME TotaisIInv, NEW s \in Serializadores, Exportar(s)
  PROVE  TotaisIInv'
  <1>1. ValorIInv'
    BY ValorExportar DEF TotaisIInv
  <1>2. /\ {"existe", "itens", "v", "codigo", "forma"} \subseteq DOMAIN nota
        /\ OpcaoComListas(nota) /\ nota.itens \in Seq(Itens) /\ Acumulada(nota)
    BY DEF TotaisIInv, ValorIInv, NotaComTotais, Exportar, Existe, Nenhum
  <1>3. PICK codigo \in CodigosDa(nota) :
           \/ FalhaNoInicio(nota) /\ nota' = [nota EXCEPT !.codigo = codigo] /\ xml' = xml
           \/ /\ ~FalhaNoInicio(nota)
              /\ nota' = Preparada(nota, codigo, s)
              /\ xml' = IF FalhaNoMeio(nota) THEN xml ELSE Escrito(nota, codigo, s)
    BY DEF Exportar
  <1>4. nota'.itens = nota.itens /\ nota'.v = nota.v
    BY <1>2, <1>3 DEF Preparada
  <1>5. Acumulada(nota')
    BY <1>2, <1>4 DEF Acumulada
  <1>6. CASE xml' = xml
    BY <1>1, <1>5, <1>6 DEF TotaisIInv, DocumentoDaNota
  <1>7. CASE ~FalhaNoMeio(nota) /\ xml' = Escrito(nota, codigo, s)
    <2>1. Legivel(nota)
      <3>1. Len(nota.itens) \in Nat /\ DOMAIN nota.itens = 1..Len(nota.itens)
        BY <1>2
      <3>2. \A i \in DOMAIN nota.itens : nota.itens[i].icms \in ModalidadesIcms
        BY <1>7 DEF FalhaNoMeio
      <3> QED
        BY <1>2, <3>1, <3>2 DEF Legivel, OpcaoComListas
    <2>2. xml'.nota = nota /\ xml'.grupos = NotaFiscal(nota, s.contingencia, s.soCpf)
      BY <1>7 DEF Escrito
    <2> QED
      BY <1>1, <1>2, <1>5, <2>1, <2>2 DEF TotaisIInv, DocumentoDaNota
  <1> QED
    BY <1>3, <1>6, <1>7

LEMMA TotaisPasso ==
  ASSUME TotaisIInv, [TransNext]_<<docVars, endVars>>
  PROVE  TotaisIInv'
  <1>1. CASE UNCHANGED docVars
    BY <1>1 DEF docVars, TotaisIInv, DocumentoDaNota, ValorIInv, NotaComTotais,
                DocumentoComTotais
  <1>2. CASE DocNext
    BY <1>2, TotaisCriar, TotaisAdicionar, TotaisExportar DEF DocNext
  <1> QED
    BY <1>1, <1>2 DEF TransNext

LEMMA TotaisInv == TransSpec => []TotaisIInv
  BY TotaisInicio, TotaisPasso, PTL DEF TransSpec

(* A row of Conferidos in the document of a note with the sums of its items: *)
(* what the items state, what they do not, and the total.                    *)
LEMMA LinhaConfere ==
  ASSUME NEW n, NEW contingencia, NEW soCpf, Legivel(n), n.itens \in Seq(Itens), Acumulada(n),
         NEW c \in Conferidos, NEW g, g = NotaFiscal(n, contingencia, soCpf),
         \E i \in DOMAIN g : g[i].grupo = c[2]
  PROVE  LET itens == n.itens
             falta == Somatorio([i \in 1..Len(itens) |-> NaoEscrito(itens[i], c)])
             dif == SomaDe(g, c[4], c[5]) + falta - SomaDe(g, {c[2]}, c[3])
         IN  dif \in -(5 * (Len(itens) + 1))..(5 * (Len(itens) + 1))
  <1> DEFINE k == Len(n.itens)
             campo == Somas[c[1]]
             q == [i \in 1..k |-> NaoEscrito(n.itens[i], c)]
             r == DosValores(n.itens, campo)
             a == SomaDe(g, c[4], c[5])
             b == SomaDe(g, {c[2]}, c[3])
             f == Somatorio(q)
             v == Somatorio(r)
  <1>1. k \in Nat /\ \A i \in 1..k : n.itens[i] \in Itens
    OBVIOUS
  <1>2. \A i \in 1..k : NaturalEm(n.itens[i])
    BY <1>1, DeValor DEF NaturalEm
  <1>3. PICK p : /\ Naturais(p, k) /\ a = Somatorio(p)
                 /\ \A i \in 1..k : Confere(p[i], n.itens[i], c)
    BY <1>2, NotaItens
  <1>4. Naturais(q, k)
    <2>1. \A i \in 1..k : NaoEscrito(n.itens[i], c) \in Nat
      BY <1>2 DEF NaturalEm, NaoEscrito
    <2> QED
      BY <2>1 DEF Naturais
  <1>5. Naturais(r, k)
    <2>1. \A i \in 1..k : Valor(n.itens[i], campo) \in Nat
      BY <1>2 DEF NaturalEm
    <2> QED
      BY <2>1 DEF Naturais, DosValores
  <1>6. \A i \in 1..k : -5 <= p[i] + q[i] - r[i] /\ p[i] + q[i] - r[i] <= 5
    <2>1. \A i \in 1..k : q[i] = NaoEscrito(n.itens[i], c) /\ r[i] = Valor(n.itens[i], campo)
      BY DEF DosValores
    <2> HIDE DEF q, r
    <2> QED
      BY <1>3, <2>1 DEF Confere
  <1>7. c[1] \in DOMAIN Somas /\ c[2] \in DosTotais
    BY QualTotal
  <1>8. \A d \in DOMAIN Somas : Valor(n, d) \in Nat
    <2> TAKE d \in DOMAIN Somas
    <2>1. d \in DOMAIN n.v /\ n.v[d] = Somatorio(DosValores(n.itens, Somas[d]))
      BY DEF Acumulada
    <2>2. Naturais(DosValores(n.itens, Somas[d]), k)
      <3>1. \A i \in 1..k : Valor(n.itens[i], Somas[d]) \in Nat
        BY <1>2 DEF NaturalEm
      <3> QED
        BY <3>1 DEF Naturais, DosValores
    <2>3. Somatorio(DosValores(n.itens, Somas[d])) \in Nat
      BY <1>1, <2>2, SomatorioNatural
    <2> QED
      BY <2>1, <2>3 DEF Valor
  <1>9. Natural(n, DoTotal) /\ Natural(n, DoTotalIbs)
    <2>1. \A tag \in DOMAIN DoTotal : DoTotal[tag] \in DOMAIN Somas
      BY DEF DoTotal, Somas
    <2>2. \A tag \in DOMAIN DoTotalIbs : DoTotalIbs[tag] \in DOMAIN Somas
      BY DEF DoTotalIbs, Somas
    <2> QED
      BY <1>8, <2>1, <2>2 DEF Natural
  <1>10. Valor(n, c[1]) = v
    BY <1>7 DEF Acumulada, Valor
  <1>11. Certo(b, v)
    <2>1. AusenteOuCerto(g, c[2], c[3], n, c[1])
      BY <1>9, NotaTotal
    <2>2. ~Fora({c[2]}, g)
      <3>1. PICK i \in DOMAIN g : g[i].grupo = c[2]
        OBVIOUS
      <3>2. ASSUME Fora({c[2]}, g) PROVE FALSE
        <4>1. DOMAIN g = 1..Len(g)
          BY <3>2 DEF Fora
        <4> QED
          BY <3>1, <3>2, <4>1 DEF Fora
      <3> QED
        BY <3>2
    <2> QED
      BY <1>10, <2>1, <2>2 DEF AusenteOuCerto, Vale
  <1> HIDE DEF q, r, a, b, k
  <1>12. a \in Nat /\ f \in Nat /\ v \in Nat
    BY <1>1, <1>3, <1>4, <1>5, SomatorioNatural
  <1>13. -(5 * k) <= a + f - v /\ a + f - v <= 5 * k
    BY <1>1, <1>3, <1>4, <1>5, <1>6, SomatorioProximo
  <1>14. b \in Nat /\ -5 <= b - v /\ b - v <= 5
    BY <1>11 DEF Certo
  <1> HIDE DEF f, v
  <1>15. a + f - b \in -(5 * (k + 1))..(5 * (k + 1))
    BY <1>1, <1>12, <1>13, <1>14
  <1> QED
    BY <1>15 DEF a, b, f, q, k

(* For every note and every item, each total of the document is the sum of   *)
(* what its items state of it, but for the rounding of each amount and for   *)
(* what NaoEscrito leaves out (notafiscal.py:443-504,                        *)
(* serializacao.py:276-1364, 1666-1780).                                     *)
THEOREM TotaisDosItensTeorema == TransSpec => []TotaisDosItens
  <1>1. TotaisIInv => TotaisDosItens
    <2> SUFFICES ASSUME TotaisIInv, Existe(xml), NEW c \in Conferidos,
                        \E i \in DOMAIN xml.grupos : xml.grupos[i].grupo = c[2]
                 PROVE  LET itens == xml.nota.itens
                            falta(d) == Somatorio([i \in 1..Len(itens) |->
                                                     NaoEscrito(itens[i], d)])
                            dif(d) == SomaDe(xml.grupos, d[4], d[5]) + falta(d)
                                        - SomaDe(xml.grupos, {d[2]}, d[3])
                        IN  dif(c) \in -(5 * (Len(itens) + 1))..(5 * (Len(itens) + 1))
      BY DEF TotaisDosItens
    <2>1. PICK s \in Serializadores :
             xml.grupos = NotaFiscal(xml.nota, s.contingencia, s.soCpf)
      BY DEF TotaisIInv, DocumentoDaNota
    <2>2. /\ Legivel(xml.nota) /\ xml.nota.itens \in Seq(Itens) /\ Acumulada(xml.nota)
      BY DEF TotaisIInv, DocumentoDaNota
    <2> DEFINE n == xml.nota
               g == xml.grupos
    <2>3. /\ Legivel(n) /\ n.itens \in Seq(Itens) /\ Acumulada(n)
          /\ g = NotaFiscal(n, s.contingencia, s.soCpf)
          /\ \E i \in DOMAIN g : g[i].grupo = c[2]
      BY <2>1, <2>2
    <2>4. LET itens == n.itens
              falta == Somatorio([i \in 1..Len(itens) |-> NaoEscrito(itens[i], c)])
              dif == SomaDe(g, c[4], c[5]) + falta - SomaDe(g, {c[2]}, c[3])
          IN  dif \in -(5 * (Len(itens) + 1))..(5 * (Len(itens) + 1))
      <3> HIDE DEF n, g
      <3> QED
        BY <2>3, LinhaConfere
    <2> QED
      BY <2>4 DEF n, g
  <1> QED
    BY <1>1, TotaisInv, PTL
=============================================================================
