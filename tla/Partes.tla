-------------------------------- MODULE Partes --------------------------------
(***************************************************************************)
(* The groups of an NF-e other than the taxes, as SerializacaoXML writes    *)
(* them (src/pynfe/processamento/serializacao.py).  An entity is the set of *)
(* its attributes that are filled in (`tem') and, where the code branches   *)
(* on a value, that value.                                                  *)
(***************************************************************************)
EXTENDS Imposto
Sequencias == INSTANCE SequencesExt

(* The element `tag' when the attribute `campo' of the entity is filled in.  *)
O(tag, e, campo) == Se(campo \in e.tem, <<T(tag)>>)

Documento11(e) == IF e.doc = "CPF" THEN <<T("CPF")>> ELSE <<T("CNPJ")>>

Endereco(e, antes, depois) ==
    <<T("xLgr"), T("nro")>> \o O("xCpl", e, "endereco_complemento")
      \o <<T("xBairro"), T("cMun"), T("xMun"), T("UF")>> \o antes
      \o <<T("cPais"), T("xPais")>> \o depois

Fone(e) == O("fone", e, "endereco_telefone")

Emitente(e) ==
    <<Grupo("emit",
            Documento11(e) \o <<T("xNome"), T("xFant"), T("enderEmit"), T("IE")>>
              \o O("IEST", e, "inscricao_estadual_subst_tributaria")
              \o Se("inscricao_municipal" \in e.tem,
                    <<T("IM")>> \o O("CNAE", e, "cnae_fiscal"))
              \o <<T("CRT")>>),
      Grupo("enderEmit", Endereco(e, <<T("CEP")>>, Fone(e)))>>

(* The inscription is left out for those who contribute nothing or are       *)
(* exempt.                                                                   *)
Cliente(e, soCpf) ==
    <<Grupo("dest",
            Documento11(e)
              \o Se(~soCpf, O("xNome", e, "razao_social") \o <<T("enderDest")>>)
              \o <<T("indIEDest")>>
              \o Se(e.indicador_ie \notin {2, 9} /\ "isento" \notin e.tem, <<T("IE")>>)
              \o O("ISUF", e, "inscricao_suframa")
              \o O("IM", e, "inscricao_municipal")
              \o O("email", e, "email"))>>
      \o Se(~soCpf,
            <<Grupo("enderDest", Endereco(e, O("CEP", e, "endereco_cep"), Fone(e)))>>)

EntregaRetirada(tag) ==
    Grupo(tag, <<T("CNPJ"), T("xLgr"), T("nro"), T("xCpl"), T("xBairro"), T("cMun"),
                 T("xMun"), T("UF")>>)

-----------------------------------------------------------------------------
(* NFref: `r' is the type of the reference; a key that does not have 44      *)
(* digits leaves the group empty.                                            *)
Referencia(r) ==
    CASE r = "Nota Fiscal" ->
            <<Grupo("NFref", <<T("refNF")>>),
              Grupo("refNF", <<T("cUF"), T("AAMM"), T("CNPJ"), T("mod"), T("serie"), T("nNF")>>)>>
      [] r = "Nota Fiscal produtor" ->
            <<Grupo("NFref", <<T("refNFP")>>),
              Grupo("refNFP", <<T("cUF"), T("AAMM"), T("CNPJ"), T("IE"), T("mod"), T("serie"),
                                T("nNF")>>)>>
      [] r = "Conhecimento de frete" -> <<Grupo("NFref", <<T("refCTe")>>)>>
      [] r = "Nota Fiscal eletronica" -> <<Grupo("NFref", <<T("refNFe")>>)>>
      [] r = "sem chave" -> <<Grupo("NFref", <<>>)>>

TiposDeReferencia ==
    {"Nota Fiscal", "Nota Fiscal produtor", "Conhecimento de frete", "Nota Fiscal eletronica",
     "sem chave"}

(* Only an NF-e refers to other notes.                                       *)
Referencias(n) == IF n.modelo = 55 THEN n.referencias ELSE <<>>

Repetido(tag, seq) == [i \in 1..Len(seq) |-> T(tag)]

Ide(n, contingencia) ==
    Grupo("ide",
          <<T("cUF"), T("cNF"), T("natOp"), T("mod"), T("serie"), T("nNF"), T("dhEmi")>>
            \o Se(n.modelo = 55, O("dhSaiEnt", n, "data_saida_entrada"))
            \o <<T("tpNF"), T("idDest"), T("cMunFG")>>
            \o O("cMunFGIBS", n, "municipio_fato_gerador_ibs")
            \o <<T("tpImp"), T("tpEmis"), T("cDV"), T("tpAmb"), T("finNFe"), T("indFinal"),
                 T("indPres")>>
            \o O("indIntermed", n, "indicador_presencial fora de 0, 1, 5")
            \o <<T("procEmi"), T("verProc")>>
            \o Repetido("NFref", Referencias(n))
            \o Se(contingencia, <<T("dhCont"), T("xJust")>>))

-----------------------------------------------------------------------------
(* _serializar_produto_servico and _serializar_declaracao_importacao, for an  *)
(* item with one declaration at most, which has an addition ("adicoes"), an   *)
(* empty list of them ("adicoes vazias") or what the entity starts with.     *)
DeclaracaoImportacao(it) ==
    <<Grupo("DI",
            <<T("nDI"), T("dDI"), T("xLocDesemb"), T("UFDesemb"), T("dDesemb"),
              T("tpViaTransp")>>
              \o O("vAFRMM", it, "valor_afrmm") \o <<T("tpIntermedio")>>
              \o O("CNPJ", it, "cnpj_adquirente") \o O("UFTerceiro", it, "uf_terceiro")
              \o <<T("cExportador")>> \o Se("adicoes" \in it.tem, <<T("adi")>>))>>
      \o Se("adicoes" \in it.tem,
            <<Grupo("adi", <<T("nAdicao"), T("nSeqAdic"), T("cFabricante")>>
                             \o O("vDescDI", it, "adicao_desconto")
                             \o O("nDraw", it, "numero_drawback"))>>)

(* A declaration starts with None for its additions, and an addition has no   *)
(* sequencia of its own: writing one that was not given raises.              *)
DeclaracaoIlegivel(it) ==
    /\ "declaracoes_importacao" \in it.tem
    /\ \/ it.tem \intersect {"adicoes", "adicoes vazias"} = {}
       \/ {"adicoes", "adicao sem sequencia"} \subseteq it.tem

Combustivel(it) ==
    <<Grupo("comb",
            <<T("cProdANP"), T("descANP")>> \o O("pGLP", it, "pGLP") \o O("pGNn", it, "pGNn")
              \o O("pGNi", it, "pGNi") \o O("vPart", it, "vPart")
              \o O("CODIF", it, "comb_codif") \o O("qTemp", it, "comb_q_temp")
              \o <<T("UFCons")>> \o O("encerrante", it, "comb_n_bico")
              \o O("pBio", it, "comb_p_bio"))>>
      \o Se("comb_n_bico" \in it.tem,
            <<Grupo("encerrante", <<T("nBico")>> \o O("nBomba", it, "comb_n_bomba")
                                    \o <<T("nTanque"), T("vEncIni"), T("vEncFin")>>)>>)

VSe(tag, it, campo) == Se(Ha(it, campo), <<V(tag, it, campo)>>)

Prod(it) ==
    <<Grupo("prod",
            <<T("cProd"), T("cEAN"), T("xProd"), T("NCM")>> \o O("cBenef", it, "cbenef")
              \o <<T("CFOP"), T("uCom"), T("qCom"), T("vUnCom"),
                   V("vProd", it, "valor_total_bruto"), T("cEANTrib"), T("uTrib"), T("qTrib"),
                   T("vUnTrib")>>
              \o VSe("vFrete", it, "total_frete") \o VSe("vSeg", it, "total_seguro")
              \o VSe("vDesc", it, "desconto")
              \o VSe("vOutro", it, "outras_despesas_acessorias")
              \o <<T("indTot")>> \o O("DI", it, "declaracoes_importacao")
              \o O("xPed", it, "numero_pedido") \o O("nItemPed", it, "numero_item")
              \o O("nFCI", it, "nfci") \o O("comb", it, "cProdANP"))>>
      \o Se("declaracoes_importacao" \in it.tem, DeclaracaoImportacao(it))
      \o Se("cProdANP" \in it.tem, Combustivel(it))

Det(it, modelo) ==
    <<Grupo("det", <<T("prod"), T("imposto")>>
                     \o Se(Ha(it, "ipi_valor_ipi_dev"), <<T("impostoDevol")>>)
                     \o O("infAdProd", it, "informacoes_adicionais"))>>
      \o Prod(it) \o Imposto(it, modelo)
      \o Se(Ha(it, "ipi_valor_ipi_dev"),
            <<Grupo("impostoDevol", <<T("pDevol"), T("IPI")>>),
              Grupo("IPIDevol", <<V("vIPIDevol", it, "ipi_valor_ipi_dev")>>)>>)

-----------------------------------------------------------------------------
(* Transport: the details only in an NF-e.  A volume has its quantity, its   *)
(* other attributes and the number of its seals.                             *)
Transportadora(e) ==
    Grupo("transporta",
          O("CNPJ", e, "numero_documento") \o O("xNome", e, "razao_social")
            \o O("IE", e, "inscricao_estadual") \o O("xEnder", e, "endereco_logradouro")
            \o O("xMun", e, "endereco_municipio") \o O("UF", e, "endereco_uf"))

Volume(v) ==
    <<Grupo("vol",
            Se("quantidade" \in v.tem,
               <<T("qVol"), T("esp")>> \o O("marca", v, "marca") \o O("nVol", v, "numeracao")
                 \o <<T("pesoL"), T("pesoB")>> \o Se(v.lacres > 0, <<T("lacres")>>)))>>
      \o Se("quantidade" \in v.tem /\ v.lacres > 0,
            <<Grupo("lacres", [i \in 1..v.lacres |-> T("nLacre")])>>)

AutXML(doc) == Grupo("autXML", Documento11([doc |-> doc]))

Transporte(n) ==
    LET nfe == n.modelo = 55
        placa(campo) == nfe /\ campo \in n.tem
        volumes == IF nfe THEN n.volumes ELSE <<>>
    IN  <<Grupo("transp",
                <<T("modFrete")>> \o Se(placa("transportadora"), <<T("transporta")>>)
                  \o Se(placa("veiculo"), <<T("veicTransp")>>)
                  \o Se(placa("reboque"), <<T("reboque")>>) \o Repetido("vol", volumes))>>
          \o Se(placa("transportadora"), <<Transportadora(n.transportadora)>>)
          \o Se(placa("veiculo"),
                <<Grupo("veicTransp", <<T("placa"), T("UF")>> \o O("RNTC", n, "veiculo_rntc"))>>)
          \o Se(placa("reboque"),
                <<Grupo("reboque", <<T("placa"), T("UF")>> \o O("RNTC", n, "reboque_rntc"))>>)
          \o Sequencias!FlattenSeq([i \in 1..Len(volumes) |-> Volume(volumes[i])])

-----------------------------------------------------------------------------
(* Billing and payment.  A payment is what it is for and its value.          *)
Cobranca(n) ==
    Se("fatura_numero" \in n.tem \/ n.duplicatas > 0,
       <<Grupo("cobr", O("fat", n, "fatura_numero")
                         \o [i \in 1..n.duplicatas |-> T("dup")])>>
         \o Se("fatura_numero" \in n.tem,
               <<Grupo("fat", <<T("nFat"), T("vOrig"), T("vDesc"), T("vLiq")>>)>>)
         \o [i \in 1..n.duplicatas |->
               Grupo("dup", <<T("nDup"), T("dVenc"), T("vDup")>>)])

SemPagamento == <<Grupo("pag", <<T("detPag")>>), Grupo("detPag", <<T("tPag"), T("vPag")>>)>>

(* tipo_pagamento, deprecated: 3 and 4 are cards.                            *)
PagamentoAntigo(n) ==
    IF n.finalidade \in {"3", "4"} THEN SemPagamento
    ELSE LET cartao == n.tipo_pagamento \in {3, 4} IN
         <<Grupo("pag", <<T("detPag")>>),
           Grupo("detPag", <<T("tPag"), V("vPag", n, "totais_icms_total_nota")>>
                             \o Se(cartao, <<T("card")>>))>>
           \o Se(cartao, <<Grupo("card", <<T("tpIntegra")>>)>>)

(* A finalidade that is a text ("4") is not in [3, 4].                       *)
PagamentosNovos(n) ==
    LET ps == n.pagamentos
        det(p) == <<T("indPag"), T("tPag")>> \o O("xPag", p, "x_pag") \o <<T("vPag")>>
        troco == O("vTroco", n, "valor_troco")
    IN  IF n.finalidade \in {"3", "4"} /\ "finalidade inteira" \in n.tem
        THEN <<Grupo("pag", <<T("detPag")>> \o troco), SemPagamento[2]>>
        ELSE <<Grupo("pag", Repetido("detPag", ps) \o troco)>>
               \o Sequencias!FlattenSeq([i \in 1..Len(ps) |->
                     IF "tp_integra" \in ps[i].tem
                     THEN <<Grupo("detPag", det(ps[i]) \o <<T("card")>>),
                            Grupo("card", <<T("tpIntegra")>> \o O("CNPJ", ps[i], "cnpj")
                                            \o <<T("tBand")>> \o O("cAut", ps[i], "c_aut"))>>
                     ELSE <<Grupo("detPag", det(ps[i]))>>])

Pagamento(n) == IF n.tipo_pagamento > 0 THEN PagamentoAntigo(n) ELSE PagamentosNovos(n)

InfAdic(n) ==
    LET textos == O("infAdFisco", n, "informacoes_fisco")
                    \o O("infCpl", n, "informacoes_complementares")
    IN  Se(textos # <<>>, <<Grupo("infAdic", textos)>>)

InfRespTec(n) ==
    Se("responsavel_tecnico" \in n.tem,
       <<Grupo("infRespTec", <<T("CNPJ"), T("xContato"), T("email"), T("fone")>>)>>)

-----------------------------------------------------------------------------
(* The totals of the note n; n.v has the accumulated amounts.                *)
ICMSTot(n) ==
    Grupo("ICMSTot",
          <<V("vBC", n, "totais_icms_base_calculo"), V("vICMS", n, "totais_icms_total"),
            V("vICMSDeson", n, "totais_icms_desonerado")>>
            \o VSe("vFCPUFDest", n, "totais_fcp_destino")
            \o VSe("vICMSUFDest", n, "totais_icms_inter_destino")
            \o <<V("vFCP", n, "totais_fcp"), V("vBCST", n, "totais_icms_st_base_calculo"),
                 V("vST", n, "totais_icms_st_total"), V("vFCPST", n, "totais_fcp_st"),
                 V("vFCPSTRet", n, "totais_fcp_st_ret")>>
            \o VSe("qBCMono", n, "totais_icms_q_bc_mono")
            \o VSe("vICMSMono", n, "totais_icms_v_icms_mono")
            \o VSe("qBCMonoReten", n, "totais_icms_q_bc_mono_reten")
            \o VSe("vICMSMonoReten", n, "totais_icms_v_icms_mono_reten")
            \o VSe("qBCMonoRet", n, "totais_icms_q_bc_mono_ret")
            \o VSe("vICMSMonoRet", n, "totais_icms_v_icms_mono_ret")
            \o <<V("vProd", n, "totais_icms_total_produtos_e_servicos"),
                 V("vFrete", n, "totais_icms_total_frete"),
                 V("vSeg", n, "totais_icms_total_seguro"),
                 V("vDesc", n, "totais_icms_total_desconto"),
                 V("vII", n, "totais_icms_total_ii"), V("vIPI", n, "totais_icms_total_ipi"),
                 V("vIPIDevol", n, "totais_icms_total_ipi_dev"),
                 V("vPIS", n, "totais_icms_pis"), V("vCOFINS", n, "totais_icms_cofins"),
                 V("vOutro", n, "totais_icms_outras_despesas_acessorias"),
                 V("vNF", n, "totais_icms_total_nota")>>
            \o VSe("vTotTrib", n, "totais_tributos_aproximado"))

HaReforma(n) ==
    \E c \in {"totais_vbc_ibscbs", "totais_ibs", "totais_cbs"} : Ha(n, c)

HaIBS(n) == \E c \in {"totais_ibs_uf", "totais_ibs_mun", "totais_ibs"} : Ha(n, c)

IBSCBSTot(n) ==
    <<Grupo("IBSCBSTot", <<V("vBCIBSCBS", n, "totais_vbc_ibscbs")>>
                           \o Se(HaIBS(n), <<T("gIBS")>>)
                           \o Se(Ha(n, "totais_cbs"), <<T("gCBS")>>))>>
      \o Se(HaIBS(n),
            <<Grupo("gIBSTot", <<T("gIBSUF"), T("gIBSMun"), V("vIBS", n, "totais_ibs"),
                                 T("vCredPres"), T("vCredPresCondSus")>>),
              Grupo("gIBSUFTot", <<T("vDif"), T("vDevTrib"),
                                   V("vIBSUF", n, "totais_ibs_uf")>>),
              Grupo("gIBSMunTot", <<T("vDif"), T("vDevTrib"),
                                    V("vIBSMun", n, "totais_ibs_mun")>>)>>)
      \o Se(Ha(n, "totais_cbs"),
            <<Grupo("gCBSTot", <<T("vDif"), T("vDevTrib"), V("vCBS", n, "totais_cbs"),
                                 T("vCredPres"), T("vCredPresCondSus")>>)>>)

Total(n) ==
    <<Grupo("total", <<T("ICMSTot")>> \o Se(HaReforma(n), <<T("IBSCBSTot")>>)), ICMSTot(n)>>
      \o Se(HaReforma(n), IBSCBSTot(n))

-----------------------------------------------------------------------------
(* _serializar_nota_fiscal: the groups of the note with their contents, in   *)
(* the order they are written.  The recipient is left out of an NFC-e when   *)
(* reading it raises AttributeError.                                         *)
ClienteLegivel(n) == "cliente" \in n.tem /\ "inscricao nula" \notin n.cliente.tem

InfNFe(n) ==
    Grupo("infNFe",
          <<T("ide"), T("emit")>> \o Se(ClienteLegivel(n), <<T("dest")>>)
            \o O("retirada", n, "retirada") \o O("entrega", n, "entrega")
            \o Repetido("autXML", n.autorizados) \o Repetido("det", n.itens)
            \o <<T("total"), T("transp")>> \o Se(Cobranca(n) # <<>>, <<T("cobr")>>)
            \o <<T("pag")>> \o Se(InfAdic(n) # <<>>, <<T("infAdic")>>)
            \o Se(InfRespTec(n) # <<>>, <<T("infRespTec")>>))

NotaFiscal(n, contingencia, soCpf) ==
    LET local(campo) == Se(campo \in n.tem, <<EntregaRetirada(campo)>>)
    IN  <<InfNFe(n), Ide(n, contingencia)>>
          \o Sequencias!FlattenSeq([i \in 1..Len(Referencias(n)) |-> Referencia(Referencias(n)[i])])
          \o Emitente(n.emitente)
          \o Se(ClienteLegivel(n), Cliente(n.cliente, soCpf))
          \o local("retirada") \o local("entrega")
          \o [i \in 1..Len(n.autorizados) |-> AutXML(n.autorizados[i])]
          \o Sequencias!FlattenSeq([i \in 1..Len(n.itens) |-> Det(n.itens[i], n.modelo)])
          \o Total(n) \o Transporte(n) \o Cobranca(n) \o Pagamento(n)
          \o InfAdic(n) \o InfRespTec(n)
=============================================================================
