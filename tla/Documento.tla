------------------------------ MODULE Documento ------------------------------
(***************************************************************************)
(* A NotaFiscal being built and serialised: the attributes it is created    *)
(* with, the items added one by one with the totals accumulated along       *)
(* (src/pynfe/entidades/notafiscal.py), and SerializacaoXML.exportar, which *)
(* writes the document from the items and from the totals and may change    *)
(* the note on its way.                                                     *)
(***************************************************************************)
EXTENDS Partes, Leiaute, Integers

CONSTANTS
    Opcoes,           \* the attributes a note is created with
    Itens,            \* the items
    Oferta(_, _),     \* bound: those that may be the next one of a note
    Serializadores,   \* [contingencia, soCpf] of SerializacaoXML(...)
    Codigos,          \* the random codes: sequences of 8 digits
    Prefixo,          \* the first 34 digits of the key: from cUF to nNF
    MaxItens, MaxSerializacoes

OitoDigitos(c) == c \in Seq(0..9) /\ Len(c) = 8

ASSUME PrefixoAssumption == Prefixo \in Seq(0..9) /\ Len(Prefixo) = 34
ASSUME CodigosAssumption == \A c \in Codigos : OitoDigitos(c)

(* The amounts of an item: the layout has none that is negative, and the     *)
(* code tests some of them with "if x" and others with "x > 0".              *)
ASSUME ItensAssumption == \A it \in Itens : \A c \in DOMAIN it.v : it.v[c] \in Nat

(* The form of emission (tpEmis) is a digit, and the code, if it is given,   *)
(* has the eight that a key has: a key of another length raises.             *)
OpcaoComChave(op) ==
    /\ {"forma", "codigo"} \subseteq DOMAIN op
    /\ op.forma \in 1..9
    /\ op.codigo = <<>> \/ OitoDigitos(op.codigo)

(* The lists a note is filled with, and the references there are.            *)
OpcaoComListas(op) ==
    /\ {"volumes", "autorizados", "pagamentos", "referencias", "duplicatas"} \subseteq DOMAIN op
    /\ {Len(op.volumes), Len(op.autorizados), Len(op.pagamentos), Len(op.referencias),
         op.duplicatas} \subseteq Nat
    /\ \A i \in 1..Len(op.referencias) : op.referencias[i] \in TiposDeReferencia

ASSUME OpcoesAssumption == \A op \in Opcoes : OpcaoComChave(op) /\ OpcaoComListas(op)

VARIABLES
    nota,    \* the entity, with what adicionar_produto_servico accumulated in v
    xml,     \* the document last exported
    series   \* documents exported or attempted

docVars == <<nota, xml, series>>

Nenhum == [existe |-> FALSE]

Existe(x) == x.existe

(* The totals adicionar_produto_servico keeps, with the attribute of the     *)
(* item each one adds up.                                                    *)
Somas ==
    [totais_icms_base_calculo |-> "icms_valor_base_calculo",
     totais_icms_total |-> "icms_valor",
     totais_icms_desonerado |-> "icms_desonerado",
     totais_icms_st_base_calculo |-> "icms_st_valor_base_calculo",
     totais_icms_st_total |-> "icms_st_valor",
     totais_icms_total_produtos_e_servicos |-> "valor_total_bruto",
     totais_icms_total_frete |-> "total_frete",
     totais_icms_total_seguro |-> "total_seguro",
     totais_icms_total_desconto |-> "desconto",
     totais_icms_total_ii |-> "imposto_importacao_valor",
     totais_icms_total_ipi |-> "ipi_valor_ipi",
     totais_icms_total_ipi_dev |-> "ipi_valor_ipi_dev",
     totais_icms_pis |-> "pis_valor",
     totais_icms_cofins |-> "cofins_valor",
     totais_icms_outras_despesas_acessorias |-> "outras_despesas_acessorias",
     totais_fcp |-> "fcp_valor",
     totais_fcp_destino |-> "fcp_destino_valor",
     totais_fcp_st |-> "fcp_st_valor",
     totais_fcp_st_ret |-> "fcp_st_ret_valor",
     totais_icms_inter_destino |-> "icms_inter_destino_valor",
     totais_icms_inter_remetente |-> "icms_inter_remetente_valor",
     totais_icms_q_bc_mono |-> "icms_q_bc_mono",
     totais_icms_v_icms_mono |-> "icms_v_icms_mono",
     totais_icms_q_bc_mono_reten |-> "icms_q_bc_mono_reten",
     totais_icms_v_icms_mono_reten |-> "icms_v_icms_mono_reten",
     totais_icms_q_bc_mono_ret |-> "icms_q_bc_mono_ret",
     totais_icms_v_icms_mono_ret |-> "icms_v_icms_mono_ret",
     totais_vbc_ibscbs |-> "ibscbs_vbc",
     totais_ibs_uf |-> "ibscbs_v_ibs_uf",
     totais_ibs_mun |-> "ibscbs_v_ibs_mun",
     totais_ibs |-> "ibscbs_v_ibs",
     totais_cbs |-> "ibscbs_v_cbs",
     totais_is |-> "is_valor"]

(* Mutant of TotalDaNota: the tax that is not charged is not taken off.      *)
TotalDaNotaCheio(it) ==
    Valor(it, "valor_total_bruto") + Valor(it, "icms_st_valor") + Valor(it, "fcp_st_valor")
      + Valor(it, "total_frete") + Valor(it, "total_seguro")
      + Valor(it, "outras_despesas_acessorias") + Valor(it, "imposto_importacao_valor")
      + Valor(it, "ipi_valor_ipi") + Valor(it, "ipi_valor_ipi_dev") - Valor(it, "desconto")

(* What an item adds to the total of the note.                               *)
TotalDaNota(it) ==
    Valor(it, "valor_total_bruto") + Valor(it, "icms_st_valor") + Valor(it, "fcp_st_valor")
      + Valor(it, "total_frete") + Valor(it, "total_seguro")
      + Valor(it, "outras_despesas_acessorias") + Valor(it, "imposto_importacao_valor")
      + Valor(it, "ipi_valor_ipi") + Valor(it, "ipi_valor_ipi_dev")
      - Valor(it, "desconto") - Valor(it, "icms_desonerado")

-----------------------------------------------------------------------------
(* _dv_codigo_numerico: modulo 11 with the weights 2 to 9 from the right.    *)
Soma11(digitos) ==
    LET soma[i \in 0..Len(digitos)] ==
          IF i = 0 THEN 0
          ELSE soma[i - 1] + digitos[Len(digitos) + 1 - i] * (2 + ((i - 1) % 8))
    IN  soma[Len(digitos)]

(* Mutant of DV: the weights start from the left.                            *)
DVDaEsquerda(digitos) ==
    LET r == Soma11(Sequencias!Reverse(digitos)) % 11 IN IF r \in {0, 1} THEN 0 ELSE 11 - r

DV(digitos) ==
    LET r == Soma11(digitos) % 11 IN IF r \in {0, 1} THEN 0 ELSE 11 - r

(* identificador_unico, once the note has its code.                          *)
Chave(n) ==
    LET corpo == Prefixo \o <<n.forma>> \o n.codigo IN Append(corpo, DV(corpo))

DocInit == nota = Nenhum /\ xml = Nenhum /\ series = 0

(* What every note starts with: no items, and totals that are zero.          *)
Vazia ==
    [existe |-> TRUE, itens |-> <<>>,
     v |-> [c \in DOMAIN Somas \union {"totais_icms_total_nota"} |-> 0]]

(* NotaFiscal(...) and the calls that fill its lists, except the items.      *)
Criar(op) ==
    /\ ~Existe(nota)
    /\ nota' = [a \in DOMAIN Vazia \union DOMAIN op |->
                  IF a \in DOMAIN Vazia THEN Vazia[a] ELSE op[a]]
    /\ UNCHANGED <<xml, series>>

(* adicionar_produto_servico.                                                *)
AdicionarItem(it) ==
    /\ Existe(nota)
    /\ Len(nota.itens) < MaxItens
    /\ nota' = [nota EXCEPT
                  !.itens = Append(@, it),
                  !.v = [c \in DOMAIN @ |->
                           @[c] + IF c = "totais_icms_total_nota" THEN TotalDaNota(it)
                                  ELSE Valor(it, Somas[c])]]
    /\ UNCHANGED <<xml, series>>

(* Mutant of CodigosDa: drawn for every document.                            *)
CodigosDaSempre(n) == Codigos

(* _codigo_numerico_aleatorio: drawn once.                                   *)
CodigosDa(n) == IF n.codigo = <<>> THEN Codigos ELSE {n.codigo}

(* What stops the serialisation: before the document is begun (a key that    *)
(* does not have 43 digits), or after the form of emission may have changed. *)
FalhaNoInicio(n) == "numero com mais de nove digitos" \in n.tem

FalhaNoMeio(n) ==
    \/ n.modelo # 65 /\ ~ClienteLegivel(n)
    \/ \E i \in DOMAIN n.itens : n.itens[i].icms \notin ModalidadesIcms
    \/ \E i \in DOMAIN n.itens : DeclaracaoIlegivel(n.itens[i])
    \/ Valor(n, "totais_icms_inter_remetente") # 0   \* no attribute totais_icms_remetente
    \/ /\ n.tipo_pagamento = 0
       /\ ~(n.finalidade \in {"3", "4"} /\ "finalidade inteira" \in n.tem)
       /\ \E i \in DOMAIN n.pagamentos : n.pagamentos[i].valor = 0

(* The form of emission once the serialiser has been in contingency.         *)
FormaAoSerializar(n, s) == IF s.contingencia /\ n.forma = 1 THEN 9 ELSE n.forma

(* The note after its code was drawn and the form of emission set.           *)
Preparada(n, codigo, s) ==
    [n EXCEPT !.codigo = codigo, !.forma = FormaAoSerializar(n, s)]

(* The document: the key is read before the form of emission changes.        *)
Escrito(n, codigo, s) ==
    LET id == Chave([n EXCEPT !.codigo = codigo]) IN
    [existe |-> TRUE, id |-> id,
     ide |-> [tpEmis |-> FormaAoSerializar(n, s), cNF |-> codigo, cDV |-> id[44],
              dhCont |-> s.contingencia],
     nota |-> n, grupos |-> NotaFiscal(n, s.contingencia, s.soCpf)]

(* exportar(limpar=False), over a source that has this note.                 *)
Exportar(s) ==
    /\ Existe(nota)
    /\ series < MaxSerializacoes
    /\ series' = series + 1
    /\ \E codigo \in CodigosDa(nota) :
          \/ /\ FalhaNoInicio(nota)
             /\ nota' = [nota EXCEPT !.codigo = codigo]
             /\ UNCHANGED xml
          \/ /\ ~FalhaNoInicio(nota)
             /\ nota' = Preparada(nota, codigo, s)
             /\ xml' = IF FalhaNoMeio(nota) THEN xml ELSE Escrito(nota, codigo, s)

DocNext ==
    \/ \E op \in Opcoes : Criar(op)
    \/ \E it \in Itens \intersect Oferta(nota, Len(nota.itens)) : AdicionarItem(it)
    \/ \E s \in Serializadores : Exportar(s)

=============================================================================
