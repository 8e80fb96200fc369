------------------------------- MODULE Imposto -------------------------------
(***************************************************************************)
(* The taxes of one item as SerializacaoXML writes them                     *)
(* (_serializar_imposto_*, src/pynfe/processamento/serializacao.py): which  *)
(* elements each group has, in which order, and the amounts in them.        *)
(*                                                                          *)
(* An item has the codes that choose the groups, the optional texts it has  *)
(* (`tem'), and the amounts that are not zero (`v'), in thousandths: the    *)
(* API takes decimals of any precision and the XML has two places.  An      *)
(* element is <<tag, thousandths written>>, 0 when it has no amount; an     *)
(* amount that is not written with :.2f has its places as third component.  *)
(***************************************************************************)
EXTENDS Naturals, Sequences

Valor(it, campo) == IF campo \in DOMAIN it.v THEN it.v[campo] ELSE 0

Ha(it, campo) == Valor(it, campo) > 0

(* f"{x:.2f}" of a Decimal: half to even.                                    *)
Centavos(x) ==
    LET q == x \div 10
        r == x % 10
    IN  IF r > 5 \/ (r = 5 /\ q % 2 = 1) THEN q + 1 ELSE q

T(tag) == <<tag, 0>>

V(tag, it, campo) == <<tag, 10 * Centavos(Valor(it, campo))>>

(* A quantity, with its four places.                                         *)
Q(tag, it, campo) == <<tag, Valor(it, campo)>>

(* The places str(x) writes of the decimal the item was given: all it has    *)
(* (Decimal("10.5") is "10.5"); two stands for two or none, which the layout *)
(* takes alike.  "uma casa" \in it.tem: its amounts came with one, if that   *)
(* was enough for them.                                                      *)
Casas(it, campo) ==
    LET x == Valor(it, campo)
    IN  CASE x % 10 # 0 -> 3
          [] x % 100 = 0 /\ "uma casa" \in it.tem -> 1
          [] OTHER -> 2

(* An amount written with str.                                               *)
VStr(tag, it, campo) == <<tag, Valor(it, campo), Casas(it, campo)>>

Se(cond, elementos) == IF cond THEN elementos ELSE <<>>

Grupo(nome, filhos) == [grupo |-> nome, filhos |-> filhos]

-----------------------------------------------------------------------------
(* _serializar_imposto_icms: the blocks the groups are made of.              *)
OrigCST == <<T("orig"), T("CST")>>

OrigCSOSN == <<T("orig"), T("CSOSN")>>

(* The base of 00 and of 10 is written with str.                             *)
Operacao(it) == <<T("modBC"), VStr("vBC", it, "icms_valor_base_calculo"), T("pICMS"),
                  V("vICMS", it, "icms_valor")>>

OperacaoReduzida(it) ==
    <<T("modBC"), T("pRedBC"), V("vBC", it, "icms_valor_base_calculo"), T("pICMS"),
      V("vICMS", it, "icms_valor")>>

(* Mutant of FCPProprio: the amount is the one of the substitution.          *)
FCPProprioDaSt(it) ==
    Se(Ha(it, "fcp_valor"),
       <<V("vBCFCP", it, "fcp_base_calculo"), T("pFCP"), V("vFCP", it, "fcp_st_valor")>>)

FCPProprio(it) ==
    Se(Ha(it, "fcp_valor"),
       <<V("vBCFCP", it, "fcp_base_calculo"), T("pFCP"), V("vFCP", it, "fcp_valor")>>)

ST(it) == <<T("modBCST"), T("pMVAST"), T("pRedBCST"),
            V("vBCST", it, "icms_st_valor_base_calculo"), T("pICMSST"),
            V("vICMSST", it, "icms_st_valor")>>

FCPSt(it) ==
    Se(Ha(it, "fcp_st_valor"),
       <<V("vBCFCPST", it, "fcp_st_base_calculo"), T("pFCPST"),
         V("vFCPST", it, "fcp_st_valor")>>)

Desonerado(it) ==
    Se(Ha(it, "icms_desonerado"),
       <<V("vICMSDeson", it, "icms_desonerado"), T("motDesICMS")>>)

Monofasico(it) == <<Q("qBCMono", it, "icms_q_bc_mono"), T("adRemICMS"),
                    V("vICMSMono", it, "icms_v_icms_mono")>>

(* The operation's own tax in CST 90 and CSOSN 900: only with both amounts.  *)
OperacaoOpcional(it) ==
    Se(Ha(it, "icms_valor_base_calculo") /\ Ha(it, "icms_valor"),
       <<T("modBC"), V("vBC", it, "icms_valor_base_calculo"), T("pRedBC"), T("pICMS"),
         V("vICMS", it, "icms_valor")>>)

HaST(it) == Ha(it, "icms_st_valor_base_calculo") /\ Ha(it, "icms_st_valor")

ICMS00(it) ==
    OrigCST \o Operacao(it)
      \o Se(Ha(it, "fcp_valor"), <<T("pFCP"), V("vFCP", it, "fcp_valor")>>)

ICMS02(it) == OrigCST \o Monofasico(it)

(* Mutant of ICMS10: the FCP of the operation after the one of the ST.       *)
ICMS10Trocado(it) ==
    OrigCST \o Operacao(it) \o ST(it) \o FCPSt(it) \o FCPProprio(it)

ICMS10(it) == OrigCST \o Operacao(it) \o FCPProprio(it) \o ST(it) \o FCPSt(it)

ICMS15(it) ==
    OrigCST \o Monofasico(it)
      \o <<Q("qBCMonoReten", it, "icms_q_bc_mono_reten"), T("adRemICMSReten"),
           V("vICMSMonoReten", it, "icms_v_icms_mono_reten")>>
      \o Se(Ha(it, "icms_p_red_ad_rem"), <<T("pRedAdRem"), T("motRedAdRem")>>)

ICMS20(it) == OrigCST \o OperacaoReduzida(it) \o FCPProprio(it) \o Desonerado(it)

ICMS30(it) == OrigCST \o ST(it) \o FCPSt(it) \o Desonerado(it)

ICMS40(it) == OrigCST \o Desonerado(it)

ICMS51(it) == OrigCST \o <<T("modBC")>> \o FCPProprio(it)

(* The deferred amount is written with :.4f.                                 *)
ICMS53(it) ==
    OrigCST \o <<Q("qBCMono", it, "icms_q_bc_mono"), T("adRemICMS"),
                 T("vICMSMonoOp"), T("pDif"),
                 <<"vICMSMonoDif", Valor(it, "icms_v_icms_mono_dif"), 4>>,
                 V("vICMSMono", it, "icms_v_icms_mono")>>

ICMS60(it) ==
    OrigCST \o <<T("vBCSTRet"), T("pST"), T("vICMSSTRet")>>
      \o Se(Ha(it, "fcp_st_ret_valor"),
            <<T("vBCFCPSTRet"), T("pFCPSTRet"), V("vFCPSTRet", it, "fcp_st_ret_valor")>>)

ICMS61(it) ==
    OrigCST \o <<Q("qBCMonoRet", it, "icms_q_bc_mono_ret"), T("adRemICMSRet"),
                 V("vICMSMonoRet", it, "icms_v_icms_mono_ret")>>

ICMS70(it) ==
    OrigCST \o OperacaoReduzida(it) \o FCPProprio(it) \o ST(it) \o FCPSt(it)
      \o Desonerado(it)

ICMS90(it) ==
    OrigCST \o OperacaoOpcional(it) \o FCPProprio(it) \o Se(HaST(it), ST(it)) \o FCPSt(it)
      \o Desonerado(it)

CreditoSN(it) == <<T("pCredSN"), T("vCredICMSSN")>>

ICMSSN101(it) == OrigCSOSN \o CreditoSN(it)

ICMSSN102(it) == OrigCSOSN

ICMSSN201(it) ==
    OrigCSOSN \o ST(it) \o FCPSt(it) \o Se(it.icms = "201", CreditoSN(it))

ICMSSN500(it) == OrigCSOSN

ICMSSN900(it) ==
    OrigCSOSN \o OperacaoOpcional(it) \o Se(HaST(it), ST(it) \o FCPSt(it))
      \o Se(Ha(it, "icms_aliquota"), CreditoSN(it))

(* The modalities that have a group; any other raises NotImplementedError.   *)
ModalidadesIcms ==
    {"00", "02", "10", "15", "20", "30", "40", "41", "50", "51", "53", "ST", "60", "61",
     "70", "90", "101", "102", "103", "300", "400", "201", "202", "203", "500", "900"}

ICMS(it) ==
    CASE it.icms = "00" -> Grupo("ICMS00", ICMS00(it))
      [] it.icms = "02" -> Grupo("ICMS02", ICMS02(it))
      [] it.icms = "10" -> Grupo("ICMS10", ICMS10(it))
      [] it.icms = "15" -> Grupo("ICMS15", ICMS15(it))
      [] it.icms = "20" -> Grupo("ICMS20", ICMS20(it))
      [] it.icms = "30" -> Grupo("ICMS30", ICMS30(it))
      [] it.icms \in {"40", "41", "50"} -> Grupo("ICMS40", ICMS40(it))
      [] it.icms = "51" -> Grupo("ICMS51", ICMS51(it))
      [] it.icms = "53" -> Grupo("ICMS53", ICMS53(it))
      [] it.icms = "ST" -> Grupo("ICMSST", ICMS60(it))
      [] it.icms = "60" -> Grupo("ICMS60", ICMS60(it))
      [] it.icms = "61" -> Grupo("ICMS61", ICMS61(it))
      [] it.icms = "70" -> Grupo("ICMS70", ICMS70(it))
      [] it.icms = "90" -> Grupo("ICMS90", ICMS90(it))
      [] it.icms = "101" -> Grupo("ICMSSN101", ICMSSN101(it))
      [] it.icms \in {"102", "103", "300", "400"} -> Grupo("ICMSSN102", ICMSSN102(it))
      [] it.icms = "201" -> Grupo("ICMSSN201", ICMSSN201(it))
      [] it.icms \in {"202", "203"} -> Grupo("ICMSSN202", ICMSSN201(it))
      [] it.icms = "500" -> Grupo("ICMSSN500", ICMSSN500(it))
      [] it.icms = "900" -> Grupo("ICMSSN900", ICMSSN900(it))

-----------------------------------------------------------------------------
(* _serializar_imposto_ipi: it.ipi is the code of the taxation (the entity's *)
(* ipi_codigo_enquadramento), "classe" \in it.tem that it has a class.       *)
IpiNaoTributado == {"01", "02", "03", "04", "05", "51", "52", "53", "54", "55"}

HaIPI(it) ==
    \/ it.ipi \in IpiNaoTributado
    \/ Ha(it, "ipi_valor_base_calculo") /\ Ha(it, "ipi_aliquota") /\ Ha(it, "ipi_valor_ipi")

Enquadramento(it) == <<T("cEnq")>> \o Se("classe" \notin it.tem, <<T("cEnq")>>)

IPI(it) ==
    IF it.ipi \in IpiNaoTributado
    THEN <<Grupo("IPI", Enquadramento(it) \o <<T("IPINT")>>), Grupo("IPINT", <<T("CST")>>)>>
    ELSE <<Grupo("IPI", Enquadramento(it) \o <<T("IPITrib")>>),
           Grupo("IPITrib", <<T("CST"), V("vBC", it, "ipi_valor_base_calculo"), T("pIPI"),
                              V("vIPI", it, "ipi_valor_ipi")>>)>>

-----------------------------------------------------------------------------
(* _serializar_imposto_importacao.  The last condition looks at the second   *)
(* digit of the CFOP.                                                        *)
HaII(it) ==
    \/ \E c \in {"imposto_importacao_valor_base_calculo",
                  "imposto_importacao_valor_despesas_aduaneiras",
                  "imposto_importacao_valor", "imposto_importacao_valor_iof"} : Ha(it, c)
    \/ "cfop[1]=3" \in it.tem

II(it) ==
    Grupo("II", <<V("vBC", it, "imposto_importacao_valor_base_calculo"),
                  V("vDespAdu", it, "imposto_importacao_valor_despesas_aduaneiras"),
                  V("vII", it, "imposto_importacao_valor"),
                  V("vIOF", it, "imposto_importacao_valor_iof")>>)

-----------------------------------------------------------------------------
(* _serializar_imposto_pis and _serializar_imposto_cofins, which do the same *)
(* with names of their own.                                                  *)
SemTributo == {"04", "05", "06", "07", "08", "09"}

(* The group is left out of an NFC-e (and of anything that is not an NF-e).  *)
Dispensado(modelo, cst, base, aliquota, valor) ==
    /\ modelo # 55
    /\ base = 0 /\ aliquota = 0 /\ valor = 0
    /\ cst \notin SemTributo \union {"49", "99"}

HaPIS(it, modelo) ==
    ~Dispensado(modelo, it.pis, Valor(it, "pis_valor_base_calculo"),
                Valor(it, "pis_aliquota_percentual"), Valor(it, "pis_valor"))

HaCOFINS(it, modelo) ==
    ~Dispensado(modelo, it.cofins, Valor(it, "cofins_valor_base_calculo"),
                Valor(it, "cofins_aliquota_percentual"), Valor(it, "cofins_valor"))

PIS(it) ==
    LET valor == V("vPIS", it, "pis_valor")
        pct == <<V("vBC", it, "pis_valor_base_calculo"), T("pPIS")>>
        qtde == <<T("qBCProd"), T("vAliqProd")>>
    IN  CASE it.pis \in SemTributo -> Grupo("PISNT", <<T("CST")>>)
          [] it.pis \in {"01", "02"} ->
                Grupo("PISAliq", <<T("CST")>> \o Append(pct, valor))
          [] it.pis = "03" -> Grupo("PISQtde", <<T("CST")>> \o Append(qtde, valor))
          [] OTHER -> Grupo("PISOutr",
                            <<T("CST")>> \o (IF Ha(it, "pis_aliquota_reais") THEN qtde ELSE pct)
                              \o <<valor>>)

COFINS(it) ==
    LET valor == V("vCOFINS", it, "cofins_valor")
        pct == <<V("vBC", it, "cofins_valor_base_calculo"), T("pCOFINS")>>
        qtde == <<T("qBCProd"), T("vAliqProd")>>
    IN  CASE it.cofins \in SemTributo -> Grupo("COFINSNT", <<T("CST")>>)
          [] it.cofins \in {"01", "02"} ->
                Grupo("COFINSAliq", <<T("CST")>> \o Append(pct, valor))
          [] it.cofins = "03" -> Grupo("COFINSQtde", <<T("CST")>> \o Append(qtde, valor))
          [] OTHER -> Grupo("COFINSOutr",
                            <<T("CST")>> \o (IF Ha(it, "cofins_aliquota_reais") THEN qtde
                                                                              ELSE pct)
                              \o <<valor>>)

-----------------------------------------------------------------------------
(* _serializar_imposto_ibscbs and _serializar_ibscbs: it.ibscbs is the CST,  *)
(* "" when the item has none.                                                *)
IbsCbsTributados ==
    {"000", "010", "200", "400", "510", "600", "620", "800", "810", "900"}

HaIBSCBS(it) == it.ibscbs # ""

IBSCBS(it) ==
    LET tributado == it.ibscbs \in IbsCbsTributados
    IN  <<Grupo("IBSCBS", <<T("CST")>> \o Se("cClassTrib" \in it.tem, <<T("cClassTrib")>>)
                             \o Se(tributado, <<T("gIBSCBS")>>))>>
          \o Se(tributado,
                <<Grupo("gIBSCBS", <<V("vBC", it, "ibscbs_vbc"), T("gIBSUF"), T("gIBSMun"),
                                     V("vIBS", it, "ibscbs_v_ibs"), T("gCBS")>>),
                  Grupo("gIBSUF", <<T("pIBSUF"), V("vIBSUF", it, "ibscbs_v_ibs_uf")>>),
                  Grupo("gIBSMun", <<T("pIBSMun"), V("vIBSMun", it, "ibscbs_v_ibs_mun")>>),
                  Grupo("gCBS", <<T("pCBS"), V("vCBS", it, "ibscbs_v_cbs")>>)>>)

-----------------------------------------------------------------------------
(* <imposto>, with the groups below it in the order they are written.  The   *)
(* approximate taxes are written with str.                                   *)
Imposto(it, modelo) ==
    <<Grupo("imposto",
            Se(Ha(it, "valor_tributos_aprox"), <<VStr("vTotTrib", it, "valor_tributos_aprox")>>)
              \o <<T("ICMS")>>
              \o Se(HaIPI(it), <<T("IPI")>>)
              \o Se(HaII(it), <<T("II")>>)
              \o Se(HaPIS(it, modelo), <<T("PIS")>>)
              \o Se(HaCOFINS(it, modelo), <<T("COFINS")>>)
              \o Se(HaIBSCBS(it), <<T("IBSCBS")>>)),
      ICMS(it)>>
      \o Se(HaIPI(it), IPI(it))
      \o Se(HaII(it), <<II(it)>>)
      \o Se(HaPIS(it, modelo), <<PIS(it)>>)
      \o Se(HaCOFINS(it, modelo), <<COFINS(it)>>)
      \o Se(HaIBSCBS(it), IBSCBS(it))
=============================================================================
