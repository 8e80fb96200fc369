-------------------------------- MODULE MCApi --------------------------------
(* Instance of Api for TLC: two companies with a token each, and what is     *)
(* asked after that.                                                         *)
EXTENDS Api, TLC

CONSTANTS
    a, b,        \* the requests that created the two companies
    ta, tb,      \* the logins of their clients
    p1, p2, p3,  \* the requests to come
    cnpjA, cnpjB, cnpjC, k1, k2, cpf, cpfFormatado, g1, g2, uf

MCPedidos == {a, b, ta, tb, p1, p2, p3}

MCAntes ==
    a :> [op |-> "criar", cnpj |-> cnpjA, prefixo |-> k1, fase |-> "201"] @@
    b :> [op |-> "criar", cnpj |-> cnpjB, prefixo |-> k2, fase |-> "201"] @@
    ta :> [op |-> "login", segredo |-> a, prefixo |-> k1, sub |-> a, fase |-> "200"] @@
    tb :> [op |-> "login", segredo |-> b, prefixo |-> k2, sub |-> b, fase |-> "200"]

MCCnpjs      == {cnpjC}
MCPrefixos   == {k1, k2}
MCDocumentos == {cpf, cpfFormatado}
MCEmDigitos  == {cpf}
MCClasses    == {"NotaFiscal", "Evento"}
MCGtins      == {g1, g2}
MCUfs        == {uf}
MCPrazo      == g1 :> 2 @@ g2 :> 2 @@ uf :> 1

(* The companies are alike: one is put for the other with all it has.        *)
TrocaEmpresas ==
    a :> b @@ b :> a @@ ta :> tb @@ tb :> ta @@ cnpjA :> cnpjB @@ cnpjB :> cnpjA
      @@ k1 :> k2 @@ k2 :> k1

Simetria == Permutations({p1, p2, p3}) \union Permutations(MCGtins) \union {TrocaEmpresas}
=============================================================================
