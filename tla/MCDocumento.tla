------------------------------ MODULE MCDocumento ------------------------------
(* Instances of Transmissao for TLC: the notes and the items it is given.    *)
EXTENDS Transmissao
LOCAL INSTANCE FiniteSetsExt

Basica ==
    [modelo |-> 55, tem |-> {"cliente"}, forma |-> 1, codigo |-> <<>>, finalidade |-> "1",
     tipo_pagamento |-> 0, pagamentos |-> <<[valor |-> 10050, tem |-> {}]>>,
     duplicatas |-> 0, referencias |-> <<>>, volumes |-> <<>>,
     transportadora |-> [tem |-> {}], autorizados |-> <<>>,
     emitente |-> [doc |-> "CNPJ", tem |-> {}],
     cliente |-> [doc |-> "CNPJ", indicador_ie |-> 9, tem |-> {"razao_social"}]]

Nfce == [Basica EXCEPT !.modelo = 65]

Com(op, campos) == [op EXCEPT !.tem = @ \union campos]

CartaoIntegrado == [valor |-> 5025, tem |-> {"tp_integra", "cnpj", "c_aut", "x_pag"}]
Volumes == <<[tem |-> {"quantidade", "marca", "numeracao"}, lacres |-> 1],
             [tem |-> {}, lacres |-> 1]>>

(* The notes with more than the basic attributes.                            *)
Ricas ==
    {Com(Nfce, {"data_saida_entrada"}),
     [Nfce EXCEPT !.tem = {}],
     [Basica EXCEPT !.tem = {}],
     [Basica EXCEPT !.cliente = [doc |-> "CPF", indicador_ie |-> 1, tem |-> {"inscricao nula"}]],
     [Nfce EXCEPT !.cliente = [doc |-> "CPF", indicador_ie |-> 1, tem |-> {"inscricao nula"}]],
     [Basica EXCEPT !.cliente = [doc |-> "CPF", indicador_ie |-> 1,
                                 tem |-> {"razao_social", "email", "endereco_complemento",
                                          "endereco_cep", "endereco_telefone",
                                          "inscricao_municipal", "inscricao_suframa"}]],
     [Basica EXCEPT !.cliente = [doc |-> "CNPJ", indicador_ie |-> 1, tem |-> {"isento"}],
                    !.emitente = [doc |-> "CPF",
                                  tem |-> {"endereco_complemento", "endereco_telefone",
                                           "inscricao_estadual_subst_tributaria",
                                           "inscricao_municipal", "cnae_fiscal"}]],
     [Basica EXCEPT !.emitente = [doc |-> "CNPJ", tem |-> {"cnae_fiscal"}], !.forma = 6],
     Com(Basica, {"data_saida_entrada", "municipio_fato_gerador_ibs",
                  "indicador_presencial fora de 0, 1, 5", "retirada", "entrega",
                  "responsavel_tecnico", "informacoes_fisco"}),
     Com([Basica EXCEPT !.autorizados = <<"CPF", "CNPJ">>], {"informacoes_complementares"}),
     Com([Basica EXCEPT !.codigo = <<1, 2, 3, 4, 5, 6, 7, 8>>],
         {"numero com mais de nove digitos"}),
     [Basica EXCEPT !.referencias = <<"Nota Fiscal", "Nota Fiscal produtor">>],
     [Basica EXCEPT !.referencias = <<"Conhecimento de frete", "Nota Fiscal eletronica">>],
     [Basica EXCEPT !.referencias = <<"Nota Fiscal eletronica", "sem chave">>],
     [Nfce EXCEPT !.referencias = <<"Nota Fiscal eletronica">>],
     Com([Basica EXCEPT !.volumes = Volumes,
                        !.transportadora = [tem |-> {"numero_documento", "razao_social",
                                                     "inscricao_estadual",
                                                     "endereco_logradouro",
                                                     "endereco_municipio", "endereco_uf"}]],
         {"transportadora", "veiculo", "reboque", "veiculo_rntc", "reboque_rntc"}),
     Com([Nfce EXCEPT !.volumes = Volumes], {"transportadora", "veiculo"}),
     [Basica EXCEPT !.volumes = <<[tem |-> {"quantidade"}, lacres |-> 2]>>],
     Com([Basica EXCEPT !.duplicatas = 2], {"fatura_numero"}),
     [Basica EXCEPT !.duplicatas = 1],
     Com(Basica, {"fatura_numero", "valor_troco"}),
     [Basica EXCEPT !.pagamentos = <<CartaoIntegrado, CartaoIntegrado>>],
     [Basica EXCEPT !.pagamentos = <<>>],
     [Basica EXCEPT !.pagamentos = <<[valor |-> 0, tem |-> {}]>>, !.finalidade = "4"],
     [Basica EXCEPT !.pagamentos = <<>>, !.finalidade = "4"],
     Com([Basica EXCEPT !.pagamentos = <<>>, !.finalidade = "4"], {"finalidade inteira"}),
     [Basica EXCEPT !.tipo_pagamento = 1, !.finalidade = "3"],
     [Basica EXCEPT !.tipo_pagamento = 1],
     [Basica EXCEPT !.tipo_pagamento = 3]}

MCOpcoes == {Basica, Nfce} \union Ricas

(* Items: amounts in thousandths, some of which fall on half a cent.         *)
ItemBasico ==
    [icms |-> "102", ipi |-> "", pis |-> "07", cofins |-> "07", ibscbs |-> "", tem |-> {},
     v |-> "valor_total_bruto" :> 10050]

Bc     == "icms_valor_base_calculo" :> 10050 @@ "icms_valor" :> 1805
SoBase == "icms_valor_base_calculo" :> 10050
Fcp    == "fcp_base_calculo" :> 10050 @@ "fcp_valor" :> 205
St     == "icms_st_valor_base_calculo" :> 14070 @@ "icms_st_valor" :> 725
FcpSt  == "fcp_st_base_calculo" :> 14070 @@ "fcp_st_valor" :> 285
FcpRet == "fcp_st_ret_valor" :> 195
Isento == "icms_desonerado" :> 1205
Mono   == "icms_q_bc_mono" :> 3001 @@ "icms_v_icms_mono" :> 1115
Reten  == "icms_q_bc_mono_reten" :> 2001 @@ "icms_v_icms_mono_reten" :> 1125
Ret    == "icms_q_bc_mono_ret" :> 1001 @@ "icms_v_icms_mono_ret" :> 1135
Nada   == [x \in {} |-> 0]

(* Each modality with what it always has and what it may have.               *)
DoIcms ==
    "00" :> <<Bc, {Fcp}>> @@ "02" :> <<Mono, {}>> @@ "10" :> <<Bc @@ St, {Fcp, FcpSt}>> @@
    "15" :> <<Mono @@ Reten, {"icms_p_red_ad_rem" :> 1000}>> @@
    "20" :> <<Bc, {Fcp, Isento}>> @@ "30" :> <<St, {FcpSt, Isento}>> @@
    "40" :> <<Nada, {Isento}>> @@ "41" :> <<Nada, {}>> @@ "50" :> <<Nada, {Isento}>> @@
    "51" :> <<Bc, {Fcp}>> @@ "53" :> <<Mono, {}>> @@ "ST" :> <<Nada, {FcpRet}>> @@
    "60" :> <<Nada, {FcpRet}>> @@ "61" :> <<Ret, {}>> @@
    "70" :> <<Bc @@ St, {Fcp, FcpSt, Isento}>> @@
    "90" :> <<Nada, {Bc, SoBase, Fcp, St, FcpSt, Isento}>> @@
    "101" :> <<Nada, {}>> @@ "300" :> <<Nada, {}>> @@ "201" :> <<St, {FcpSt}>> @@
    "203" :> <<St, {FcpSt}>> @@ "500" :> <<Nada, {}>> @@
    "900" :> <<Nada, {Bc, SoBase, St, FcpSt, "icms_aliquota" :> 1000}>> @@
    "" :> <<Nada, {}>>

ItensIcms ==
    UNION {{[ItemBasico EXCEPT
               !.icms = m,
               !.v = FoldSet(LAMBDA a, b : a @@ b, DoIcms[m][1] @@ @, partes)] :
              partes \in SUBSET DoIcms[m][2]} : m \in DOMAIN DoIcms}

Ipi == "ipi_valor_base_calculo" :> 10050 @@ "ipi_aliquota" :> 5000 @@ "ipi_valor_ipi" :> 505
Pis(valor) == "pis_valor_base_calculo" :> 10050 @@ "pis_aliquota_percentual" :> 650
                @@ "pis_valor" :> valor
Cofins(valor) == "cofins_valor_base_calculo" :> 10050 @@ "cofins_aliquota_percentual" :> 3000
                   @@ "cofins_valor" :> valor
Importado == "imposto_importacao_valor_base_calculo" :> 10050
               @@ "imposto_importacao_valor" :> 2015
               @@ "imposto_importacao_valor_iof" :> 15
Despesas == "total_frete" :> 1005 @@ "total_seguro" :> 115 @@ "desconto" :> 225
              @@ "outras_despesas_acessorias" :> 335
Iva == "ibscbs_vbc" :> 10050 @@ "ibscbs_v_ibs_uf" :> 105 @@ "ibscbs_v_ibs_mun" :> 115
         @@ "ibscbs_v_ibs" :> 220 @@ "ibscbs_v_cbs" :> 905
Destino == "icms_inter_destino_valor" :> 105 @@ "fcp_destino_valor" :> 115

Item(campos, v) == [f \in DOMAIN ItemBasico |->
                      CASE f = "v" -> v @@ ItemBasico.v
                        [] f \in DOMAIN campos -> campos[f]
                        [] OTHER -> ItemBasico[f]]

OutrosItens ==
    {Item([ipi |-> "00"], Ipi), Item([ipi |-> "00", tem |-> {"classe"}], Ipi),
     Item([ipi |-> "53", tem |-> {"classe"}], Nada),
     Item([ipi |-> "53"], "ipi_valor_ipi_dev" :> 305),
     Item([pis |-> "01", cofins |-> "01"], Pis(65) @@ Cofins(305)),
     Item([pis |-> "02", cofins |-> "99"], Pis(65) @@ Cofins(305)),
     Item([pis |-> "03", cofins |-> "03"], "pis_valor" :> 75 @@ "cofins_valor" :> 85),
     Item([pis |-> "99", cofins |-> "49"], "pis_aliquota_reais" :> 10 @@ "pis_valor" :> 75
                                          @@ "cofins_aliquota_reais" :> 10 @@ "cofins_valor" :> 85),
     Item([pis |-> "01", cofins |-> "01"], Nada),
     Item([tem |-> {"cfop[1]=3"}], "valor_tributos_aprox" :> 1200 @@ Despesas),
     Item([tem |-> {"uma casa"}], "valor_tributos_aprox" :> 1200),
     Item([tem |-> {"uma casa"}], "valor_tributos_aprox" :> 1250),
     Item([icms |-> "53"], "valor_tributos_aprox" :> 1205 @@ "icms_v_icms_mono_dif" :> 35 @@ Mono),
     Item([icms |-> "00", tem |-> {"uma casa"}],
          "icms_valor_base_calculo" :> 10500 @@ "icms_valor" :> 1890),
     Item([tem |-> {"cbenef", "numero_pedido", "numero_item", "nfci",
                    "informacoes_adicionais"}], Despesas),
     Item([icms |-> "00", tem |-> {"declaracoes_importacao", "adicoes", "adicao_desconto",
                                   "numero_drawback", "valor_afrmm", "cnpj_adquirente",
                                   "uf_terceiro"}], Importado @@ Bc),
     Item([tem |-> {"declaracoes_importacao", "adicoes vazias"}], Importado),
     Item([tem |-> {"declaracoes_importacao"}], Importado),
     Item([tem |-> {"declaracoes_importacao", "adicoes", "adicao sem sequencia"}], Importado),
     Item([icms |-> "61", tem |-> {"cProdANP", "pGLP", "pGNn", "pGNi", "vPart", "comb_codif",
                                   "comb_q_temp", "comb_n_bico", "comb_n_bomba",
                                   "comb_p_bio"}], Ret),
     Item([icms |-> "61", tem |-> {"cProdANP", "comb_n_bico"}], Ret),
     Item([ibscbs |-> "000", tem |-> {"cClassTrib"}], Iva),
     Item([ibscbs |-> "410"], Nada),
     Item([icms |-> "00"], Bc @@ Destino),
     Item([icms |-> "10"], "icms_valor_base_calculo" :> 10015 @@ Bc @@ St),
     Item([icms |-> "00"], Bc @@ "icms_inter_remetente_valor" :> 10)}

(* Items with amounts that their codes leave no place for.                   *)
ComTudo ==
    {Item([icms |-> m], Bc @@ St @@ Fcp @@ FcpSt @@ FcpRet @@ Isento @@ Mono @@ Reten @@ Ret) :
        m \in ModalidadesIcms}
      \union
    {Item([ipi |-> "53", tem |-> {"classe"}], Ipi @@ Pis(65) @@ Cofins(305)),
     Item([tem |-> {"classe"}], "ipi_valor_ipi" :> 505 @@ Iva),
     Item([ibscbs |-> "410"], Iva)}

(* The second item of a note.                                                *)
Segundos ==
    {Item([icms |-> "00"], "valor_total_bruto" :> 10015 @@ "icms_valor_base_calculo" :> 10015 @@ Bc),
     Item([icms |-> "70", ipi |-> "00", pis |-> "01", cofins |-> "01", ibscbs |-> "000",
           tem |-> {"classe"}],
          Bc @@ St @@ Fcp @@ FcpSt @@ Isento @@ Ipi @@ Pis(75) @@ Cofins(315) @@ Importado
             @@ Despesas @@ Iva)}

MCItens == {ItemBasico} \union ItensIcms \union OutrosItens \union ComTudo \union Segundos

(* Only a note with the basic attributes has items of every kind.            *)
MCOferta(n, i) ==
    IF ~Existe(n) THEN {}
    ELSE IF i > 0 THEN Segundos
    ELSE IF \A f \in DOMAIN Basica \ {"modelo", "forma", "codigo"} : n[f] = Basica[f]
         THEN {ItemBasico} \union ItensIcms \union OutrosItens \union ComTudo
         ELSE {ItemBasico}

MCSerializadores ==
    {[contingencia |-> c, soCpf |-> s] : c \in BOOLEAN, s \in BOOLEAN}
      \ {[contingencia |-> TRUE, soCpf |-> TRUE]}

(* Connections are opened for a basic note that was exported twice, with its *)
(* recipient in full the last time, and its code the first of the two.       *)
MCDestinos(n, x) ==
    IF /\ series = MaxSerializacoes
       /\ n.itens = <<ItemBasico>>
       /\ n.codigo = <<0, 0, 0, 0, 0, 0, 0, 1>>
       /\ \A f \in DOMAIN Basica \ {"modelo", "codigo"} : n[f] = Basica[f]
       /\ \E i \in DOMAIN x.grupos : x.grupos[i].grupo = "enderDest"
    THEN UFs \union {"EX"} ELSE {}

MCConsultadas == {"MA", "PA", "RS", "SC", "SP", "SVC-RS"}

MCPrefixo == <<3, 5, 0, 8, 0, 5, 9, 9, 9, 9, 9, 0, 9, 0, 9, 1, 0, 2, 7, 0,
               5, 5, 0, 0, 1, 0, 0, 0, 0, 0, 0, 0, 0, 1>>
MCCodigos == {<<0, 0, 0, 0, 0, 0, 0, 1>>, <<0, 0, 0, 0, 0, 0, 0, 6>>}
=============================================================================
