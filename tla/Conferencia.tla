----------------------------- MODULE Conferencia -----------------------------
(***************************************************************************)
(* What holds of the documents of Documento: the layout they follow, the    *)
(* totals against the items, and the key against what the document says.    *)
(***************************************************************************)
EXTENDS Documento
LOCAL Funcoes == INSTANCE Functions

Tags(g) == [i \in 1..Len(g.filhos) |-> g.filhos[i][1]]

(* The elements that may have more than two decimal places.                  *)
Quantidades == {"qBCMono", "qBCMonoReten", "qBCMonoRet"}

(* An element has two components when it is written with :.2f, and its       *)
(* places when it is not.                                                    *)
DuasCasas(g) ==
    \A e \in Funcoes!Range(g.filhos) :
      IF Len(e) = 3 THEN e[3] = 2 ELSE e[2] % 10 = 0 \/ e[1] \in Quantidades

(* The groups the code is known to write otherwise than the layout has them. *)
DesviosDoItem(it) ==
    LET se(cond, grupo) == IF cond THEN {grupo} ELSE {}
        propria == Ha(it, "icms_valor_base_calculo") /\ Ha(it, "icms_valor")
    IN  \* the amounts of the UF of destination are not written
        se(it.icms = "ST", "ICMSST")
        \* the base and the approximate taxes are written with the places they came with
        \union se(it.icms \in {"00", "10"} /\ Casas(it, "icms_valor_base_calculo") # 2,
                  ICMS(it).grupo)
        \union se(/\ Ha(it, "valor_tributos_aprox")
                  /\ Casas(it, "valor_tributos_aprox") # 2, "imposto")
        \* the deferred amount is written with four places, even when it is zero
        \union se(it.icms = "53", "ICMS53")
        \* the FCP is written on its own, the block it belongs to is not
        \union se(it.icms = "90" /\ Ha(it, "fcp_valor") /\ ~propria, "ICMS90")
        \union se(it.icms = "90" /\ Ha(it, "fcp_st_valor") /\ ~HaST(it), "ICMS90")
        \* cEnq comes twice when the IPI has no class
        \union se(HaIPI(it) /\ "classe" \notin it.tem, "IPI")
        \* a list of additions that is empty is written as none
        \union se("declaracoes_importacao" \in it.tem /\ "adicoes" \notin it.tem, "DI")

DesviosDaNota(n, contingencia) ==
    LET se(cond, grupo) == IF cond THEN {grupo} ELSE {}
        volumes == IF n.modelo = 55 THEN Funcoes!Range(n.volumes) ELSE {}
    IN  se(n.itens = <<>>, "infNFe")
        \* dhCont and xJust are written after NFref
        \union se(contingencia /\ Referencias(n) # <<>>, "ide")
        \union se("sem chave" \in Funcoes!Range(Referencias(n)), "NFref")
        \* one lacres for all the seals
        \union se(\E v \in volumes : "quantidade" \in v.tem /\ v.lacres > 1, "lacres")
        \* a return whose finalidade is a text is not written as 90
        \union se(/\ n.tipo_pagamento = 0
                  /\ n.pagamentos = <<>>
                  /\ ~(n.finalidade \in {"3", "4"} /\ "finalidade inteira" \in n.tem),
                  "pag")

(* The document follows the layout: every group of the last document has the *)
(* children its content model asks for, in their order, and its amounts have *)
(* two places, but for the departures listed above and for no other          *)
(* (serializacao.py against leiauteNFe_v4.00.xsd, for every modality, with   *)
(* and without each optional block).                                         *)
GruposConformes ==
    Existe(xml) =>
      {g.grupo : g \in {h \in Funcoes!Range(xml.grupos) :
                          ~(Conforme(h.grupo, Tags(h)) /\ DuasCasas(h))}}
        = DesviosDaNota(xml.nota, xml.ide.dhCont)
            \union UNION {DesviosDoItem(it) : it \in Funcoes!Range(xml.nota.itens)}

-----------------------------------------------------------------------------
(* The sum of the elements `tag' of a group, and of the groups `gs'.         *)
Somatorio(q) ==
    LET soma[i \in 0..Len(q)] == IF i = 0 THEN 0 ELSE soma[i - 1] + q[i] IN soma[Len(q)]

SomaDosElementos(filhos, tag) ==
    Somatorio([i \in 1..Len(filhos) |-> IF filhos[i][1] = tag THEN filhos[i][2] ELSE 0])

SomaDe(grupos, gs, tag) ==
    Somatorio([i \in 1..Len(grupos) |->
                 IF grupos[i].grupo \in gs THEN SomaDosElementos(grupos[i].filhos, tag) ELSE 0])

GPis    == {"PISAliq", "PISQtde", "PISNT", "PISOutr"}
GCofins == {"COFINSAliq", "COFINSQtde", "COFINSNT", "COFINSOutr"}
GIcms   ==
    {"ICMS00", "ICMS02", "ICMS10", "ICMS15", "ICMS20", "ICMS30", "ICMS40", "ICMS51", "ICMS53",
     "ICMS60", "ICMS61", "ICMS70", "ICMS90", "ICMSST", "ICMSSN101", "ICMSSN102", "ICMSSN201",
     "ICMSSN202", "ICMSSN500", "ICMSSN900"}

(* <<the total the note keeps, the group and the tag it is written in, the    *)
(* groups and the tag it is the sum of>>.  vFCPUFDest and vICMSUFDest are in  *)
(* no item: the group ICMSUFDest is never written.                            *)
Conferidos ==
    {<<p[1], "ICMSTot", p[2], GIcms, p[2]>> : p \in
        {<<"totais_icms_base_calculo", "vBC">>, <<"totais_icms_total", "vICMS">>,
         <<"totais_icms_desonerado", "vICMSDeson">>, <<"totais_fcp", "vFCP">>,
         <<"totais_icms_st_base_calculo", "vBCST">>, <<"totais_fcp_st", "vFCPST">>,
         <<"totais_fcp_st_ret", "vFCPSTRet">>, <<"totais_icms_v_icms_mono", "vICMSMono">>,
         <<"totais_icms_v_icms_mono_reten", "vICMSMonoReten">>,
         <<"totais_icms_v_icms_mono_ret", "vICMSMonoRet">>}}
      \union {<<p[1], "ICMSTot", p[2], {"prod"}, p[2]>> : p \in
        {<<"totais_icms_total_produtos_e_servicos", "vProd">>,
         <<"totais_icms_total_frete", "vFrete">>, <<"totais_icms_total_seguro", "vSeg">>,
         <<"totais_icms_total_desconto", "vDesc">>,
         <<"totais_icms_outras_despesas_acessorias", "vOutro">>}}
      \union
        {<<"totais_icms_st_total", "ICMSTot", "vST", GIcms, "vICMSST">>,
         <<"totais_icms_total_ii", "ICMSTot", "vII", {"II"}, "vII">>,
         <<"totais_icms_total_ipi", "ICMSTot", "vIPI", {"IPITrib"}, "vIPI">>,
         <<"totais_icms_total_ipi_dev", "ICMSTot", "vIPIDevol", {"IPIDevol"}, "vIPIDevol">>,
         <<"totais_icms_pis", "ICMSTot", "vPIS", GPis, "vPIS">>,
         <<"totais_icms_cofins", "ICMSTot", "vCOFINS", GCofins, "vCOFINS">>,
         <<"totais_vbc_ibscbs", "IBSCBSTot", "vBCIBSCBS", {"gIBSCBS"}, "vBC">>,
         <<"totais_ibs", "gIBSTot", "vIBS", {"gIBSCBS"}, "vIBS">>,
         <<"totais_ibs_uf", "gIBSUFTot", "vIBSUF", {"gIBSUF"}, "vIBSUF">>,
         <<"totais_ibs_mun", "gIBSMunTot", "vIBSMun", {"gIBSMun"}, "vIBSMun">>,
         <<"totais_cbs", "gCBSTot", "vCBS", {"gCBS"}, "vCBS">>}

(* Whether the groups of the item state the amount it adds to the total      *)
(* `de', if it has one: the codes of its taxes decide.                       *)
Declara(it, de) ==
    LET propria == Ha(it, "icms_valor_base_calculo") /\ Ha(it, "icms_valor")
        comST == {"10", "30", "70", "201", "202", "203"}
    IN  CASE de \in {"vBC", "vICMS"} ->
               it.icms \in {"00", "10", "20", "70"} \/ (it.icms \in {"90", "900"} /\ propria)
          [] de = "vICMSDeson" -> it.icms \in {"20", "30", "40", "41", "50", "70", "90"}
          [] de = "vFCP" -> it.icms \in {"00", "10", "20", "51", "70", "90"}
          [] de \in {"vBCST", "vST"} ->
               it.icms \in comST \/ (it.icms \in {"90", "900"} /\ HaST(it))
          [] de = "vFCPST" ->
               it.icms \in comST \union {"90"} \/ (it.icms = "900" /\ HaST(it))
          [] de = "vFCPSTRet" -> it.icms \in {"ST", "60"}
          [] de = "vICMSMono" -> it.icms \in {"02", "15", "53"}
          [] de = "vICMSMonoReten" -> it.icms = "15"
          [] de = "vICMSMonoRet" -> it.icms = "61"
          [] de = "vIPI" -> HaIPI(it) /\ it.ipi \notin IpiNaoTributado
          [] de = "vPIS" -> it.pis \notin SemTributo
          [] de = "vCOFINS" -> it.cofins \notin SemTributo
          [] de \in {"vBCIBSCBS", "vIBS", "vIBSUF", "vIBSMun", "vCBS"} ->
               it.ibscbs \in IbsCbsTributados
          [] OTHER -> TRUE

(* What of the item enters the total of c while no group of it states it.    *)
NaoEscrito(it, c) == IF Declara(it, c[3]) THEN 0 ELSE Valor(it, Somas[c[1]])

(* The totals are those of the items the document shows, up to the rounding  *)
(* of each amount to the cent, and to the amounts of NaoEscrito: no total    *)
(* misses an amount, counts one twice or takes one of another tax, whatever  *)
(* the items are (notafiscal.py:443-504 accumulates them, serializacao.py    *)
(* writes items and totals apart).  An item with ind_total 0 is in the total *)
(* like any other.                                                           *)
TotaisDosItens ==
    Existe(xml) =>
      LET itens == xml.nota.itens
          falta(c) == Somatorio([i \in 1..Len(itens) |-> NaoEscrito(itens[i], c)])
          dif(c) == SomaDe(xml.grupos, c[4], c[5]) + falta(c)
                      - SomaDe(xml.grupos, {c[2]}, c[3])
      IN  \A c \in Conferidos :
            (\E i \in DOMAIN xml.grupos : xml.grupos[i].grupo = c[2]) =>
              dif(c) \in -(5 * (Len(itens) + 1))..(5 * (Len(itens) + 1))

(* The amount the element `tag' of the group g states.                       *)
Declarado(g, tag) ==
    LET i == CHOOSE i \in DOMAIN g.filhos : g.filhos[i][1] = tag IN g.filhos[i][2]

(* vNF is what the manual composes it of, from the totals the document       *)
(* states in its one ICMSTot, to half a cent for each of them that was       *)
(* rounded.                                                                  *)
ValorDaNota ==
    Existe(xml) =>
      LET tot == {i \in DOMAIN xml.grupos : xml.grupos[i].grupo = "ICMSTot"}
          exatos == {c \in DOMAIN xml.nota.v : xml.nota.v[c] % 10 = 0}
      IN  \E i \in tot :
            LET d(tag) == Declarado(xml.grupos[i], tag)
                dif == d("vProd") + d("vST") + d("vFCPST") + d("vFrete") + d("vSeg")
                         + d("vOutro") + d("vII") + d("vIPI") + d("vIPIDevol")
                         - d("vDesc") - d("vICMSDeson") - d("vNF")
            IN  /\ tot = {i}
                /\ dif \in -60..60
                /\ exatos = DOMAIN xml.nota.v => dif = 0

-----------------------------------------------------------------------------
(* The key is the one of the document: the code and the digit are the ones   *)
(* ide states, the digit closes the sum modulo 11, and the form of emission  *)
(* is the one of ide, but in the document by which the note enters the       *)
(* contingency: its key was read before, and still has the normal emission.  *)
ChaveDoDocumento ==
    Existe(xml) =>
      LET soma == Soma11(SubSeq(xml.id, 1, 43)) IN
        /\ SubSeq(xml.id, 36, 43) = xml.ide.cNF
        /\ xml.id[44] = xml.ide.cDV
        /\ \/ (soma + xml.ide.cDV) % 11 = 0
           \/ xml.ide.cDV = 0 /\ soma % 11 = 1
        /\ xml.ide.tpEmis # xml.id[35] =>
              xml.id[35] = 1 /\ xml.ide.tpEmis = 9 /\ xml.ide.dhCont

(* Serialising a note again keeps its key, but for the form of emission and  *)
(* the digit, once, after the contingency.                                   *)
ChaveEstavel ==
    [][Existe(xml) /\ xml' # xml =>
         /\ SubSeq(xml'.id, 36, 43) = SubSeq(xml.id, 36, 43)
         /\ xml'.id # xml.id => xml.id[35] = 1 /\ xml'.id[35] = 9]_docVars
=============================================================================
