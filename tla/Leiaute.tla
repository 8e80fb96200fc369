------------------------------- MODULE Leiaute -------------------------------
(***************************************************************************)
(* The layout an NF-e is checked against:                                   *)
(* src/pynfe/data/XSDs/NF-e/leiauteNFe_v4.00.xsd, as the content model of   *)
(* each group of elements.  Only what the order and the presence of the     *)
(* children say is kept; the texts are left to their simple types, and the  *)
(* optional children and groups the serialiser never writes are left out.   *)
(* cMunFGIBS, IBSCBS and IBSCBSTot are not in this version of the XSD: they *)
(* are placed where docs/reforma_tributaria.md has them.                    *)
(***************************************************************************)
EXTENDS Naturals, Sequences, TLC
LOCAL Funcoes == INSTANCE Functions

(* A content model: the children in their order, those that may be absent,   *)
(* those that may come more than once, the blocks that come whole or not at  *)
(* all, the choices of which exactly one comes, and the pairs <<a, b>> where *)
(* a comes only inside the optional block that starts with b.                *)
Simples(ordem) ==
    [ordem |-> ordem, opc |-> {}, rep |-> {}, blocos |-> {}, um |-> {}, dentro |-> {}]

Opcionais(ordem, opc) == [Simples(ordem) EXCEPT !.opc = opc]

FCP     == <<"vBCFCP", "pFCP", "vFCP">>
FCPST   == <<"vBCFCPST", "pFCPST", "vFCPST">>
FCPRet  == <<"vBCFCPSTRet", "pFCPSTRet", "vFCPSTRet">>
Proprio == <<"modBC", "vBC", "pICMS", "vICMS">>
Reduzido == <<"modBC", "pRedBC", "vBC", "pICMS", "vICMS">>
NoSt    == <<"modBCST", "pMVAST", "pRedBCST", "vBCST", "pICMSST", "vICMSST">>
Deson   == <<"vICMSDeson", "motDesICMS", "indDeduzDeson">>
DesonST == <<"vICMSSTDeson", "motDesICMSST">>
Efetivo == <<"pRedBCEfet", "vBCEfet", "pICMSEfet", "vICMSEfet">>
OpcSt   == {"pMVAST", "pRedBCST"}

(* The children of an ICMS group: `ordem' after orig and CST, of which       *)
(* `blocos' come whole or not at all and `opc' are optional on their own.    *)
Icms(ordem, opc, blocos) ==
    [Simples(<<"orig", "CST">> \o ordem) EXCEPT
        !.blocos = {Funcoes!Range(b) \ {"indDeduzDeson", "vICMSSubstituto"} : b \in blocos},
        !.opc = opc \union UNION {Funcoes!Range(b) : b \in blocos}]

IcmsSN(ordem, opc, blocos) ==
    LET g == Icms(ordem, opc, blocos) IN
        [g EXCEPT !.ordem = <<"orig", "CSOSN">> \o ordem]

GruposIcms ==
    "ICMS00" :> Icms(Proprio \o <<"pFCP", "vFCP">>, {}, {<<"pFCP", "vFCP">>}) @@
    "ICMS02" :> Icms(<<"qBCMono", "adRemICMS", "vICMSMono">>, {"qBCMono"}, {}) @@
    "ICMS10" :> Icms(Proprio \o FCP \o NoSt \o FCPST \o DesonST,
                     OpcSt, {FCP, FCPST, DesonST}) @@
    "ICMS15" :> Icms(<<"qBCMono", "adRemICMS", "vICMSMono", "qBCMonoReten",
                       "adRemICMSReten", "vICMSMonoReten", "pRedAdRem", "motRedAdRem">>,
                     {"qBCMono", "qBCMonoReten"}, {<<"pRedAdRem", "motRedAdRem">>}) @@
    "ICMS20" :> Icms(Reduzido \o FCP \o Deson, {}, {FCP, Deson}) @@
    "ICMS30" :> Icms(NoSt \o FCPST \o Deson, OpcSt, {FCPST, Deson}) @@
    "ICMS40" :> Icms(Deson, {}, {Deson}) @@
    "ICMS51" :> Icms(<<"modBC", "pRedBC", "cBenefRBC", "vBC", "pICMS", "vICMSOp", "pDif",
                       "vICMSDif", "vICMS">> \o FCP \o <<"pFCPDif", "vFCPDif", "vFCPEfet">>,
                     {"modBC", "pRedBC", "cBenefRBC", "vBC", "pICMS", "vICMSOp", "pDif",
                      "vICMSDif", "vICMS", "vFCPEfet"},
                     {FCP, <<"pFCPDif", "vFCPDif">>}) @@
    "ICMS53" :> Icms(<<"qBCMono", "adRemICMS", "vICMSMonoOp", "pDif", "vICMSMonoDif",
                       "vICMSMono", "qBCMonoDif", "adRemICMSDif">>,
                     {"qBCMono", "adRemICMS", "vICMSMonoOp", "pDif", "vICMSMonoDif",
                      "vICMSMono", "qBCMonoDif", "adRemICMSDif"}, {}) @@
    "ICMS60" :> Icms(<<"vBCSTRet", "pST", "vICMSSubstituto", "vICMSSTRet">> \o FCPRet \o Efetivo,
                     {}, {<<"vBCSTRet", "pST", "vICMSSubstituto", "vICMSSTRet">>, FCPRet,
                          Efetivo}) @@
    "ICMS61" :> Icms(<<"qBCMonoRet", "adRemICMSRet", "vICMSMonoRet">>, {"qBCMonoRet"}, {}) @@
    "ICMS70" :> Icms(Reduzido \o FCP \o NoSt \o FCPST \o Deson \o DesonST,
                     OpcSt, {FCP, FCPST, Deson, DesonST}) @@
    "ICMS90" :> [Icms(<<"modBC", "vBC", "pRedBC", "pICMS", "vICMS">> \o FCP \o NoSt \o FCPST
                        \o Deson \o DesonST,
                      OpcSt \union Funcoes!Range(NoSt) \union {"pRedBC"},
                      {Proprio, FCP, <<"modBCST", "vBCST", "pICMSST", "vICMSST">>, FCPST,
                       Deson, DesonST})
                    EXCEPT !.dentro = {<<"vFCP", "modBC">>, <<"vFCPST", "modBCST">>,
                                       <<"pRedBC", "modBC">>, <<"pMVAST", "modBCST">>}] @@
    "ICMSST" :> Icms(<<"vBCSTRet", "pST", "vICMSSubstituto", "vICMSSTRet">> \o FCPRet
                        \o <<"vBCSTDest", "vICMSSTDest">> \o Efetivo,
                     {"pST", "vICMSSubstituto"}, {FCPRet, Efetivo}) @@
    "ICMSSN101" :> IcmsSN(<<"pCredSN", "vCredICMSSN">>, {}, {}) @@
    "ICMSSN102" :> IcmsSN(<<>>, {"orig"}, {}) @@
    "ICMSSN201" :> IcmsSN(NoSt \o FCPST \o <<"pCredSN", "vCredICMSSN">>, OpcSt, {FCPST}) @@
    "ICMSSN202" :> IcmsSN(NoSt \o FCPST, OpcSt, {FCPST}) @@
    "ICMSSN500" :> IcmsSN(<<"vBCSTRet", "pST", "vICMSSubstituto", "vICMSSTRet">> \o FCPRet
                              \o Efetivo,
                            {}, {<<"vBCSTRet", "pST", "vICMSSubstituto", "vICMSSTRet">>,
                                 FCPRet, Efetivo}) @@
    "ICMSSN900" :> [IcmsSN(<<"modBC", "vBC", "pRedBC", "pICMS", "vICMS">> \o NoSt \o FCPST
                               \o <<"pCredSN", "vCredICMSSN">>,
                             {"orig", "pRedBC"} \union Funcoes!Range(NoSt),
                             {Proprio, <<"modBCST", "vBCST", "pICMSST", "vICMSST">>, FCPST,
                              <<"pCredSN", "vCredICMSSN">>})
                    EXCEPT !.dentro = {<<"vFCPST", "modBCST">>, <<"pRedBC", "modBC">>,
                                       <<"pMVAST", "modBCST">>}]

Contribuicao(pct, valor) ==
    [Simples(<<"CST", "vBC", pct, "qBCProd", "vAliqProd", valor>>) EXCEPT
        !.opc = {"vBC", pct, "qBCProd", "vAliqProd"},
        !.blocos = {{"vBC", pct}, {"qBCProd", "vAliqProd"}},
        !.um = {{"vBC", "qBCProd"}}]

GruposTributos ==
    "IPI"        :> [Opcionais(<<"CNPJProd", "cSelo", "qSelo", "cEnq", "IPITrib", "IPINT">>,
                               {"CNPJProd", "cSelo", "qSelo", "IPITrib", "IPINT"})
                       EXCEPT !.um = {{"IPITrib", "IPINT"}}] @@
    "IPINT"      :> Simples(<<"CST">>) @@
    "IPITrib"    :> [Opcionais(<<"CST", "vBC", "pIPI", "qUnid", "vUnid", "vIPI">>,
                               {"vBC", "pIPI", "qUnid", "vUnid"})
                       EXCEPT !.blocos = {{"vBC", "pIPI"}, {"qUnid", "vUnid"}},
                              !.um = {{"vBC", "qUnid"}}] @@
    "II"         :> Simples(<<"vBC", "vDespAdu", "vII", "vIOF">>) @@
    "PISAliq"    :> Simples(<<"CST", "vBC", "pPIS", "vPIS">>) @@
    "PISQtde"    :> Simples(<<"CST", "qBCProd", "vAliqProd", "vPIS">>) @@
    "PISNT"      :> Simples(<<"CST">>) @@
    "PISOutr"    :> Contribuicao("pPIS", "vPIS") @@
    "COFINSAliq" :> Simples(<<"CST", "vBC", "pCOFINS", "vCOFINS">>) @@
    "COFINSQtde" :> Simples(<<"CST", "qBCProd", "vAliqProd", "vCOFINS">>) @@
    "COFINSNT"   :> Simples(<<"CST">>) @@
    "COFINSOutr" :> Contribuicao("pCOFINS", "vCOFINS") @@
    "IBSCBS"     :> Opcionais(<<"CST", "cClassTrib", "gIBSCBS">>,
                              {"cClassTrib", "gIBSCBS"}) @@
    "gIBSCBS"    :> Simples(<<"vBC", "gIBSUF", "gIBSMun", "vIBS", "gCBS">>) @@
    "gIBSUF"     :> Simples(<<"pIBSUF", "vIBSUF">>) @@
    "gIBSMun"    :> Simples(<<"pIBSMun", "vIBSMun">>) @@
    "gCBS"       :> Simples(<<"pCBS", "vCBS">>) @@
    "imposto"    :> Opcionais(<<"vTotTrib", "ICMS", "IPI", "II", "PIS", "COFINS", "IBSCBS">>,
                              {"vTotTrib", "IPI", "II", "PIS", "COFINS", "IBSCBS"})

-----------------------------------------------------------------------------
EnderecoDe(cep) ==
    [Opcionais(<<"xLgr", "nro", "xCpl", "xBairro", "cMun", "xMun", "UF", "CEP", "cPais",
                 "xPais", "fone">>, {"xCpl", "cPais", "xPais", "fone"})
        EXCEPT !.opc = @ \union cep]

Local == [Opcionais(<<"CNPJ", "CPF", "xNome", "xLgr", "nro", "xCpl", "xBairro", "cMun",
                      "xMun", "UF", "CEP", "cPais", "xPais", "fone", "email", "IE">>,
                    {"CNPJ", "CPF", "xNome", "xCpl", "CEP", "cPais", "xPais", "fone",
                     "email", "IE"})
            EXCEPT !.um = {{"CNPJ", "CPF"}}]

GruposPartes ==
    "ide" :> [Opcionais(<<"cUF", "cNF", "natOp", "mod", "serie", "nNF", "dhEmi", "dhSaiEnt",
                          "tpNF", "idDest", "cMunFG", "cMunFGIBS", "tpImp", "tpEmis", "cDV",
                          "tpAmb", "finNFe", "indFinal", "indPres", "indIntermed", "procEmi",
                          "verProc", "dhCont", "xJust", "NFref">>,
                        {"dhSaiEnt", "cMunFGIBS", "indIntermed", "dhCont", "xJust", "NFref"})
                EXCEPT !.blocos = {{"dhCont", "xJust"}}, !.rep = {"NFref"}] @@
    "NFref" :> [Opcionais(<<"refNFe", "refNF", "refNFP", "refCTe">>,
                          {"refNFe", "refNF", "refNFP", "refCTe"})
                  EXCEPT !.um = {{"refNFe", "refNF", "refNFP", "refCTe"}}] @@
    "refNF" :> Simples(<<"cUF", "AAMM", "CNPJ", "mod", "serie", "nNF">>) @@
    "refNFP" :> [Opcionais(<<"cUF", "AAMM", "CNPJ", "CPF", "IE", "mod", "serie", "nNF">>,
                           {"CNPJ", "CPF"})
                   EXCEPT !.um = {{"CNPJ", "CPF"}}] @@
    "emit" :> [Opcionais(<<"CNPJ", "CPF", "xNome", "xFant", "enderEmit", "IE", "IEST", "IM",
                           "CNAE", "CRT">>,
                         {"CNPJ", "CPF", "xFant", "IEST", "IM", "CNAE"})
                 EXCEPT !.um = {{"CNPJ", "CPF"}}, !.dentro = {<<"CNAE", "IM">>}] @@
    "enderEmit" :> EnderecoDe({}) @@
    "dest" :> [Opcionais(<<"CNPJ", "CPF", "idEstrangeiro", "xNome", "enderDest", "indIEDest",
                           "IE", "ISUF", "IM", "email">>,
                         {"CNPJ", "CPF", "idEstrangeiro", "xNome", "enderDest", "IE", "ISUF",
                          "IM", "email"})
                 EXCEPT !.um = {{"CNPJ", "CPF", "idEstrangeiro"}}] @@
    "enderDest" :> EnderecoDe({"CEP"}) @@
    "retirada" :> Local @@
    "entrega" :> Local @@
    "autXML" :> [Opcionais(<<"CNPJ", "CPF">>, {"CNPJ", "CPF"})
                   EXCEPT !.um = {{"CNPJ", "CPF"}}] @@
    "transporta" :> [Opcionais(<<"CNPJ", "CPF", "xNome", "IE", "xEnder", "xMun", "UF">>,
                               {"CNPJ", "CPF", "xNome", "IE", "xEnder", "xMun", "UF"})
                       EXCEPT !.um = {}]

GruposProduto ==
    "det" :> Opcionais(<<"prod", "imposto", "impostoDevol", "infAdProd">>,
                       {"impostoDevol", "infAdProd"}) @@
    "prod" :> [Opcionais(<<"cProd", "cEAN", "xProd", "NCM", "NVE", "CEST", "cBenef", "EXTIPI",
                           "CFOP", "uCom", "qCom", "vUnCom", "vProd", "cEANTrib", "uTrib",
                           "qTrib", "vUnTrib", "vFrete", "vSeg", "vDesc", "vOutro", "indTot",
                           "DI", "detExport", "xPed", "nItemPed", "nFCI", "rastro", "comb">>,
                         {"NVE", "CEST", "cBenef", "EXTIPI", "vFrete", "vSeg", "vDesc",
                          "vOutro", "DI", "detExport", "xPed", "nItemPed", "nFCI", "rastro",
                          "comb"})
                 EXCEPT !.rep = {"NVE", "DI", "detExport", "rastro"}] @@
    "DI" :> [Opcionais(<<"nDI", "dDI", "xLocDesemb", "UFDesemb", "dDesemb", "tpViaTransp",
                         "vAFRMM", "tpIntermedio", "CNPJ", "UFTerceiro", "cExportador", "adi">>,
                       {"vAFRMM", "CNPJ", "UFTerceiro"})
               EXCEPT !.rep = {"adi"}] @@
    "adi" :> Opcionais(<<"nAdicao", "nSeqAdic", "cFabricante", "vDescDI", "nDraw">>,
                       {"nAdicao", "vDescDI", "nDraw"}) @@
    "comb" :> Opcionais(<<"cProdANP", "descANP", "pGLP", "pGNn", "pGNi", "vPart", "CODIF",
                          "qTemp", "UFCons", "CIDE", "encerrante", "pBio">>,
                        {"pGLP", "pGNn", "pGNi", "vPart", "CODIF", "qTemp", "CIDE",
                         "encerrante", "pBio"}) @@
    "encerrante" :> Opcionais(<<"nBico", "nBomba", "nTanque", "vEncIni", "vEncFin">>,
                              {"nBomba"}) @@
    "impostoDevol" :> Simples(<<"pDevol", "IPI">>) @@
    "IPIDevol" :> Simples(<<"vIPIDevol">>)

GruposFinais ==
    "infNFe" :> [Opcionais(<<"ide", "emit", "dest", "retirada", "entrega", "autXML", "det",
                             "total", "transp", "cobr", "pag", "infAdic", "infRespTec">>,
                           {"dest", "retirada", "entrega", "autXML", "cobr", "infAdic",
                            "infRespTec"})
                   EXCEPT !.rep = {"autXML", "det"}] @@
    "total" :> Opcionais(<<"ICMSTot", "IBSCBSTot">>, {"IBSCBSTot"}) @@
    "ICMSTot" :> Opcionais(<<"vBC", "vICMS", "vICMSDeson", "vFCPUFDest", "vICMSUFDest",
                             "vICMSUFRemet", "vFCP", "vBCST", "vST", "vFCPST", "vFCPSTRet",
                             "qBCMono", "vICMSMono", "qBCMonoReten", "vICMSMonoReten",
                             "qBCMonoRet", "vICMSMonoRet", "vProd", "vFrete", "vSeg", "vDesc",
                             "vII", "vIPI", "vIPIDevol", "vPIS", "vCOFINS", "vOutro", "vNF",
                             "vTotTrib">>,
                           {"vFCPUFDest", "vICMSUFDest", "vICMSUFRemet", "qBCMono",
                            "vICMSMono", "qBCMonoReten", "vICMSMonoReten", "qBCMonoRet",
                            "vICMSMonoRet", "vTotTrib"}) @@
    "IBSCBSTot" :> Opcionais(<<"vBCIBSCBS", "gIBS", "gCBS">>, {"gIBS", "gCBS"}) @@
    "gIBSTot" :> Simples(<<"gIBSUF", "gIBSMun", "vIBS", "vCredPres", "vCredPresCondSus">>) @@
    "gIBSUFTot" :> Simples(<<"vDif", "vDevTrib", "vIBSUF">>) @@
    "gIBSMunTot" :> Simples(<<"vDif", "vDevTrib", "vIBSMun">>) @@
    "gCBSTot" :> Simples(<<"vDif", "vDevTrib", "vCBS", "vCredPres", "vCredPresCondSus">>) @@
    "transp" :> [Opcionais(<<"modFrete", "transporta", "retTransp", "veicTransp", "reboque",
                             "vol">>,
                           {"transporta", "retTransp", "veicTransp", "reboque", "vol"})
                   EXCEPT !.rep = {"reboque", "vol"}] @@
    "veicTransp" :> Opcionais(<<"placa", "UF", "RNTC">>, {"UF", "RNTC"}) @@
    "reboque" :> Opcionais(<<"placa", "UF", "RNTC">>, {"UF", "RNTC"}) @@
    "vol" :> [Opcionais(<<"qVol", "esp", "marca", "nVol", "pesoL", "pesoB", "lacres">>,
                        {"qVol", "esp", "marca", "nVol", "pesoL", "pesoB", "lacres"})
                EXCEPT !.rep = {"lacres"}] @@
    "lacres" :> Simples(<<"nLacre">>) @@
    "cobr" :> [Opcionais(<<"fat", "dup">>, {"fat", "dup"}) EXCEPT !.rep = {"dup"}] @@
    "fat" :> Opcionais(<<"nFat", "vOrig", "vDesc", "vLiq">>, {"nFat", "vOrig", "vDesc", "vLiq"}) @@
    "dup" :> Opcionais(<<"nDup", "dVenc", "vDup">>, {"nDup", "dVenc"}) @@
    "pag" :> [Opcionais(<<"detPag", "vTroco">>, {"vTroco"}) EXCEPT !.rep = {"detPag"}] @@
    "detPag" :> Opcionais(<<"indPag", "tPag", "xPag", "vPag", "dPag", "card">>,
                          {"indPag", "xPag", "dPag", "card"}) @@
    "card" :> Opcionais(<<"tpIntegra", "CNPJ", "tBand", "cAut">>, {"CNPJ", "tBand", "cAut"}) @@
    "infAdic" :> Opcionais(<<"infAdFisco", "infCpl">>, {"infAdFisco", "infCpl"}) @@
    "infRespTec" :> Simples(<<"CNPJ", "xContato", "email", "fone">>)

Grupos == GruposIcms @@ GruposTributos @@ GruposPartes @@ GruposProduto @@ GruposFinais

(* The children of a group, in the order they were written, are one of the   *)
(* sequences its content model has.                                          *)
Lugar(g, t) == CHOOSE i \in DOMAIN g.ordem : g.ordem[i] = t

Conforme(grupo, filhos) ==
    LET g == Grupos[grupo]
        tem == Funcoes!Range(filhos)
    IN  /\ tem \subseteq Funcoes!Range(g.ordem)
        /\ \A i \in 1..(Len(filhos) - 1) :
              \/ Lugar(g, filhos[i]) < Lugar(g, filhos[i + 1])
              \/ filhos[i] = filhos[i + 1] /\ filhos[i] \in g.rep
        /\ Funcoes!Range(g.ordem) \ g.opc \subseteq tem
        /\ \A b \in g.blocos : b \cap tem \in {{}, b}
        /\ \A c \in g.um : \E t \in c : c \cap tem = {t}
        /\ \A d \in g.dentro : d[1] \in tem => d[2] \in tem
=============================================================================
