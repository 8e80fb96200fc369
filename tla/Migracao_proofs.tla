--------------------------- MODULE Migracao_proofs ---------------------------
(***************************************************************************)
(* The migration among the requests, for any number of migrations, requests *)
(* and executions of the cron, and any schema before: it comes whole or not *)
(* at all, it leaves nothing missing, who a deadlock ends, and what a       *)
(* request loses over an older schema.                                      *)
(***************************************************************************)
EXTENDS Migracao, SequenceTheorems, FiniteSetTheorems, TLAPS

-----------------------------------------------------------------------------
(* The steps of a program.                                                   *)
ModosDeSessao == {"SELECT", "CHAVE", "ESCRITA"}

Modos == ModosDeSessao \union {"REFERIDA", "ALTER"}

Comandos ==
    [faz : {"comando"}, t : Tabelas, modo : Modos, requer : SUBSET Completo,
     cria : SUBSET Completo, nova : BOOLEAN]

Passos == Comandos \union {Fora, Commit, Pragma}

(* What the first k steps of a program add to the schema.                    *)
CriaAte(p, k) == UNION {p[j].cria : j \in 1..k}

LEMMA Conjuntos ==
    /\ Tabelas \subseteq Completo /\ Colunas \subseteq Completo /\ Ampliacoes \subseteq Completo
    /\ Tabelas \intersect Colunas = {} /\ Tabelas \intersect Ampliacoes = {}
    /\ \A t \in Tabelas : Traz(t) \subseteq Completo /\ t \in Traz(t)
    /\ \A t, u \in Tabelas : t # u => Traz(t) \intersect Traz(u) = {}
    /\ \A t \in Tabelas : Traz(t) \intersect Tabelas = {t}
  BY DEF Tabelas, Colunas, Ampliacoes, Completo, Traz

LEMMA FazDosPassos ==
    /\ \A c \in Comandos : c.faz = "comando"
    /\ Fora.faz = "fora" /\ Commit.faz = "commit" /\ Pragma.faz = "pragma"
    /\ \A c \in Passos : c.faz = "comando" => c \in Comandos
  BY DEF Comandos, Passos, Fora, Commit, Pragma

LEMMA DoUso ==
  ASSUME NEW t \in Tabelas, NEW modo \in Modos
  PROVE  LET c == Usa(t, modo) IN
         /\ c \in Comandos /\ c \in Passos
         /\ c.t = t /\ c.modo = modo /\ c.requer = {t} /\ c.cria = {} /\ ~c.nova
  BY Conjuntos DEF Usa, Comando, Comandos, Passos

LEMMA DaCriacao ==
  ASSUME NEW t \in Tabelas
  PROVE  LET c == Comando(t, "ALTER", {}, Traz(t), TRUE) IN
         /\ c \in Comandos /\ c \in Passos
         /\ c.t = t /\ c.modo = "ALTER" /\ c.requer = {} /\ c.cria = Traz(t) /\ c.nova
  <1>1. Traz(t) \in SUBSET Completo
    BY Conjuntos
  <1> QED
    BY <1>1 DEF Comando, Comandos, Passos, Modos

LEMMA DaAdicao ==
  ASSUME NEW t \in Tabelas, NEW cria \in SUBSET Completo
  PROVE  LET c == Comando(t, "ALTER", {}, cria, FALSE) IN
         /\ c \in Comandos /\ c \in Passos
         /\ c.t = t /\ c.modo = "ALTER" /\ c.requer = {} /\ c.cria = cria /\ ~c.nova
  BY DEF Comando, Comandos, Passos, Modos

(* Who conflicts with whom: the relation is symmetric, an ALTER conflicts    *)
(* with all, and the locks of requests never with one another.               *)
LEMMA Conflitos ==
    /\ \A a, b \in Modos : a \in Conflita(b) <=> b \in Conflita(a)
    /\ \A a \in Modos : a \in Conflita("ALTER") /\ "ALTER" \in Conflita(a)
    /\ \A a, b \in ModosDeSessao : a \notin Conflita(b)
    /\ Conflita("SELECT") = {"ALTER"} /\ Conflita("CHAVE") = {"ALTER"}
    /\ Conflita("ESCRITA") = {"REFERIDA", "ALTER"}
  BY DEF Modos, ModosDeSessao, Conflita

-----------------------------------------------------------------------------
(* The table u has a foreign key to t.                                       *)
Refere(u, t) ==
    \/ t = "empresas" /\ u \in {"api_clients", "gdpr_solicitacoes", "notas_fiscais", "webhook_logs"}
    \/ t = "notas_fiscais" /\ u = "webhook_logs"

(* A statement of create_all that does not fail over `base', the schema      *)
(* before, when `antes' is there: a table that is new, or what a foreign key *)
(* of a new one refers to.                                                   *)
Degrau(c, antes, base) ==
    /\ c.requer \subseteq antes
    /\ c.nova => /\ c.modo = "ALTER" /\ c.t \notin base
                 /\ c.cria = Traz(c.t) /\ c.cria \intersect antes = {}
    /\ ~c.nova => /\ c.modo = "REFERIDA" /\ c.t \in antes /\ c.cria = {}
                  /\ \E u \in Tabelas \ base : u \in antes /\ Refere(u, c.t)

(* A sequence of them, each over what is there when its turn comes.          *)
Criacao(p, base) ==
    /\ p \in Seq(Comandos)
    /\ \A i \in 1..Len(p) : Degrau(p[i], base \union CriaAte(p, i - 1), base)
    /\ p # <<>> => p[1].nova

(* The sequence q is p followed by c.                                        *)
Emenda(q, p, c) ==
    /\ Len(q) = Len(p) + Len(c)
    /\ \A i \in 1..Len(p) : q[i] = p[i]
    /\ \A i \in 1..Len(c) : q[Len(p) + i] = c[i]

LEMMA DaEmenda ==
  ASSUME NEW S, NEW p \in Seq(S), NEW c \in Seq(S)
  PROVE  p \o c \in Seq(S) /\ Emenda(p \o c, p, c)
  <1>1. Len(p) \in Nat /\ Len(c) \in Nat
    OBVIOUS
  <1>2. /\ p \o c \in Seq(S) /\ Len(p \o c) = Len(p) + Len(c)
        /\ \A i \in 1..(Len(p) + Len(c)) : (p \o c)[i] = IF i <= Len(p) THEN p[i] ELSE c[i - Len(p)]
    BY ConcatProperties
  <1>3. \A i \in 1..Len(p) : (p \o c)[i] = p[i]
    BY <1>1, <1>2
  <1>4. \A i \in 1..Len(c) : (p \o c)[Len(p) + i] = c[i]
    BY <1>1, <1>2
  <1> QED
    BY <1>2, <1>3, <1>4 DEF Emenda

LEMMA DeCriaAte ==
  ASSUME NEW p, NEW k, NEW x
  PROVE  x \in CriaAte(p, k) <=> \E j \in 1..k : x \in p[j].cria
  BY DEF CriaAte

LEMMA CriaAteMais ==
  ASSUME NEW p, NEW k \in Nat
  PROVE  /\ CriaAte(p, 0) = {}
         /\ CriaAte(p, k + 1) = CriaAte(p, k) \union p[k + 1].cria
         /\ \A j \in 1..k : p[j].cria \subseteq CriaAte(p, k)
  <1>1. 1..0 = {} /\ 1..(k + 1) = 1..k \union {k + 1}
    OBVIOUS
  <1> QED
    BY <1>1 DEF CriaAte

LEMMA CriaAteCresce ==
  ASSUME NEW p, NEW k \in Nat, NEW m \in Nat, m <= k
  PROVE  CriaAte(p, m) \subseteq CriaAte(p, k)
  BY DEF CriaAte

(* What creates one table: itself, and its foreign keys.                     *)
Peca(c, t) ==
    /\ c \in Seq(Comandos) /\ Len(c) >= 1
    /\ c[1].t = t /\ c[1].modo = "ALTER" /\ c[1].requer = {} /\ c[1].cria = Traz(t) /\ c[1].nova
    /\ \A i \in 2..Len(c) :
          /\ c[i].modo = "REFERIDA" /\ ~c[i].nova /\ c[i].cria = {}
          /\ c[i].t \in Tabelas /\ c[i].requer = {c[i].t} /\ Refere(t, c[i].t)

LEMMA DaReferencia ==
  ASSUME NEW t \in Tabelas
  PROVE  /\ Referir(t) \in Seq(Comandos)
         /\ \A i \in 1..Len(Referir(t)) :
               \E r \in Tabelas : Referir(t)[i] = Usa(r, "REFERIDA") /\ Refere(t, r)
  <1> DEFINE e == Usa("empresas", "REFERIDA")
             n == Usa("notas_fiscais", "REFERIDA")
  <1>1. "empresas" \in Tabelas /\ "notas_fiscais" \in Tabelas
    BY DEF Tabelas
  <1>2. e \in Comandos /\ n \in Comandos
    BY <1>1, DoUso DEF Modos
  <1>3. Referir(t) = CASE t \in {"empresas", "gtin_consultas"} -> <<>>
                       [] t = "webhook_logs" -> <<e, n>> [] OTHER -> <<e>>
    BY DEF Referir
  <1>4. \E r \in Tabelas : e = Usa(r, "REFERIDA") /\ r = "empresas"
    BY <1>1
  <1>5. \E r \in Tabelas : n = Usa(r, "REFERIDA") /\ r = "notas_fiscais"
    BY <1>1
  <1> HIDE DEF e, n
  <1>6. CASE t \in {"empresas", "gtin_consultas"}
    BY <1>3, <1>6
  <1>7. CASE t = "webhook_logs"
    <2>1. Referir(t) = <<e, n>>
      BY <1>3, <1>7
    <2>2. Referir(t) \in Seq(Comandos) /\ Len(Referir(t)) = 2
      BY <1>2, <2>1
    <2>3. Referir(t)[1] = e /\ Referir(t)[2] = n
      BY <2>1
    <2>4. Refere(t, "empresas") /\ Refere(t, "notas_fiscais")
      BY <1>7 DEF Refere
    <2> QED
      BY <1>4, <1>5, <2>2, <2>3, <2>4
  <1>8. CASE t \notin {"empresas", "gtin_consultas", "webhook_logs"}
    <2>1. Referir(t) = <<e>>
      BY <1>3, <1>8
    <2>2. Referir(t) \in Seq(Comandos) /\ Len(Referir(t)) = 1 /\ Referir(t)[1] = e
      BY <1>2, <2>1
    <2>3. Refere(t, "empresas")
      BY <1>8 DEF Refere, Tabelas
    <2> QED
      BY <1>4, <2>2, <2>3
  <1> QED
    BY <1>6, <1>7, <1>8

LEMMA DaTabela ==
  ASSUME NEW t \in Tabelas
  PROVE  Peca(<<Comando(t, "ALTER", {}, Traz(t), TRUE)>> \o Referir(t), t)
  <1> DEFINE um == <<Comando(t, "ALTER", {}, Traz(t), TRUE)>>
             r == Referir(t)
             c == um \o r
  <1>1. /\ um \in Seq(Comandos) /\ Len(um) = 1
        /\ um[1].t = t /\ um[1].modo = "ALTER" /\ um[1].requer = {} /\ um[1].cria = Traz(t)
        /\ um[1].nova
    <2> DEFINE cmd == Comando(t, "ALTER", {}, Traz(t), TRUE)
    <2>1. /\ cmd \in Comandos
          /\ cmd.t = t /\ cmd.modo = "ALTER" /\ cmd.requer = {} /\ cmd.cria = Traz(t) /\ cmd.nova
      BY DaCriacao
    <2>2. um = <<cmd>>
      OBVIOUS
    <2> HIDE DEF cmd, um
    <2> QED
      BY <2>1, <2>2
  <1>2. r \in Seq(Comandos)
    BY DaReferencia
  <1>3. \A i \in 1..Len(r) :
           /\ r[i].modo = "REFERIDA" /\ ~r[i].nova /\ r[i].cria = {}
           /\ r[i].t \in Tabelas /\ r[i].requer = {r[i].t} /\ Refere(t, r[i].t)
    BY DaReferencia, DoUso DEF Modos
  <1> HIDE DEF um, r
  <1>4. c \in Seq(Comandos) /\ Emenda(c, um, r)
    BY <1>1, <1>2, DaEmenda
  <1> HIDE DEF c
  <1>5. Len(r) \in Nat
    BY <1>2
  <1>6. Len(c) = 1 + Len(r) /\ c[1] = um[1]
    BY <1>1, <1>4 DEF Emenda
  <1>7. ASSUME NEW i \in 2..Len(c)
        PROVE  i - 1 \in 1..Len(r) /\ c[i] = r[i - 1]
    <2>1. i - 1 \in 1..Len(r) /\ 1 + (i - 1) = i
      BY <1>5, <1>6
    <2>2. c[1 + (i - 1)] = r[i - 1]
      BY <1>1, <1>4, <2>1 DEF Emenda
    <2> QED
      BY <2>1, <2>2
  <1>8. Peca(c, t)
    BY <1>1, <1>3, <1>4, <1>5, <1>6, <1>7 DEF Peca
  <1> QED
    BY <1>8 DEF um, r, c

LEMMA CriacaoMais ==
  ASSUME NEW base, NEW p, Criacao(p, base), NEW t \in Tabelas, t \notin base,
         Traz(t) \intersect (base \union CriaAte(p, Len(p))) = {},
         \A r \in Tabelas : Refere(t, r) => r \in base \union CriaAte(p, Len(p)),
         NEW c, Peca(c, t), NEW q \in Seq(Comandos), Emenda(q, p, c)
  PROVE  Criacao(q, base) /\ CriaAte(q, Len(q)) = CriaAte(p, Len(p)) \union Traz(t)
  <1> DEFINE n == Len(p)
             m == Len(c)
  <1>1. n \in Nat /\ m \in Nat /\ m >= 1
    BY DEF Peca, Criacao
  <1>2. /\ Len(q) = n + m
        /\ \A i \in 1..n : q[i] = p[i]
        /\ \A i \in 1..m : q[n + i] = c[i]
    BY DEF Emenda
  <1>3. CriaAte(p, Len(p)) = CriaAte(p, n)
    OBVIOUS
  <1>4. \A i \in 1..n : Degrau(p[i], base \union CriaAte(p, i - 1), base)
    BY DEF Criacao
  <1>5. n > 0 => p[1].nova
    BY DEF Criacao
  <1>6. /\ c[1].t = t /\ c[1].modo = "ALTER" /\ c[1].requer = {} /\ c[1].cria = Traz(t) /\ c[1].nova
        /\ \A i \in 2..m :
              /\ c[i].modo = "REFERIDA" /\ ~c[i].nova /\ c[i].cria = {}
              /\ c[i].t \in Tabelas /\ c[i].requer = {c[i].t} /\ Refere(t, c[i].t)
    BY DEF Peca
  <1>7. t \in Traz(t)
    BY Conjuntos
  <1> HIDE DEF n, m
  <1>8. \A k \in 0..n : CriaAte(q, k) = CriaAte(p, k)
    <2> TAKE k \in 0..n
    <2>1. \A j \in 1..k : q[j] = p[j]
      BY <1>1, <1>2
    <2> QED
      BY <2>1 DEF CriaAte
  <1>9. \A k \in (n + 1)..(n + m) : CriaAte(q, k) = CriaAte(p, n) \union Traz(t)
    <2> TAKE k \in (n + 1)..(n + m)
    <2>1. ASSUME NEW x, x \in CriaAte(q, k)
          PROVE  x \in CriaAte(p, n) \union Traz(t)
      <3>1. PICK j \in 1..k : x \in q[j].cria
        BY <2>1, DeCriaAte
      <3>2. CASE j \in 1..n
        BY <1>2, <3>1, <3>2, DeCriaAte
      <3>3. CASE j = n + 1
        BY <1>1, <1>2, <1>6, <3>1, <3>3
      <3>4. CASE j \in (n + 2)..(n + m)
        <4>1. j - n \in 2..m /\ j - n \in 1..m /\ n + (j - n) = j
          BY <1>1, <3>4
        <4>2. q[j] = c[j - n]
          BY <1>2, <4>1
        <4> QED
          BY <1>6, <3>1, <4>1, <4>2
      <3> QED
        BY <1>1, <3>2, <3>3, <3>4
    <2>2. ASSUME NEW x, x \in CriaAte(p, n) PROVE x \in CriaAte(q, k)
      <3>1. PICK j \in 1..n : x \in p[j].cria
        BY <2>2, DeCriaAte
      <3>2. j \in 1..k /\ q[j] = p[j]
        BY <1>1, <1>2
      <3> QED
        BY <3>1, <3>2, DeCriaAte
    <2>3. ASSUME NEW x, x \in Traz(t) PROVE x \in CriaAte(q, k)
      <3>1. n + 1 \in 1..k /\ q[n + 1] = c[1]
        BY <1>1, <1>2
      <3> QED
        BY <1>6, <2>3, <3>1, DeCriaAte
    <2> QED
      BY <2>1, <2>2, <2>3
  <1>10. ASSUME NEW i \in 1..(n + m)
         PROVE  Degrau(q[i], base \union CriaAte(q, i - 1), base)
    <2>1. CASE i \in 1..n
      <3>1. q[i] = p[i] /\ i - 1 \in 0..n
        BY <1>1, <1>2, <2>1
      <3>2. CriaAte(q, i - 1) = CriaAte(p, i - 1)
        BY <3>1, <1>8
      <3> QED
        BY <1>4, <2>1, <3>1, <3>2
    <2>2. CASE i = n + 1
      <3>1. i - 1 = n /\ n \in 0..n /\ q[i] = c[1]
        BY <1>1, <1>2, <2>2
      <3>2. CriaAte(q, i - 1) = CriaAte(p, n)
        BY <1>8, <3>1
      <3> QED
        BY <1>3, <1>6, <1>7, <3>1, <3>2 DEF Degrau
    <2>3. CASE i \in (n + 2)..(n + m)
      <3>1. i - 1 \in (n + 1)..(n + m) /\ i - n \in 2..m /\ i - n \in 1..m /\ n + (i - n) = i
        BY <1>1, <2>3
      <3>2. CriaAte(q, i - 1) = CriaAte(p, n) \union Traz(t)
        BY <1>9, <3>1
      <3>3. q[i] = c[i - n]
        BY <1>2, <3>1
      <3>4. /\ q[i].modo = "REFERIDA" /\ ~q[i].nova /\ q[i].cria = {}
            /\ q[i].t \in Tabelas /\ q[i].requer = {q[i].t} /\ Refere(t, q[i].t)
        BY <1>6, <3>1, <3>3
      <3>5. q[i].t \in base \union CriaAte(q, i - 1)
        BY <1>3, <3>2, <3>4
      <3>6. t \in Tabelas \ base /\ t \in base \union CriaAte(q, i - 1)
        BY <1>7, <3>2
      <3> QED
        BY <3>4, <3>5, <3>6 DEF Degrau
    <2> QED
      BY <1>1, <2>1, <2>2, <2>3
  <1>11. q[1].nova
    <2>1. CASE n = 0
      <3>1. q[0 + 1] = c[1]
        BY <1>1, <1>2, <2>1
      <3> QED
        BY <1>6, <3>1
    <2>2. CASE n > 0
      BY <1>1, <1>2, <1>5, <2>2
    <2> QED
      BY <1>1, <2>1, <2>2
  <1>12. CriaAte(q, Len(q)) = CriaAte(p, Len(p)) \union Traz(t)
    BY <1>1, <1>2, <1>3, <1>9
  <1> QED
    BY <1>2, <1>10, <1>11, <1>12 DEF Criacao

(* One table more of create_all: those of F came before.                     *)
TrazDe(F) == UNION {Traz(t) : t \in F}

Criadas(p, base, F) ==
    F \subseteq Tabelas /\ Criacao(p, base) /\ CriaAte(p, Len(p)) = TrazDe(F \ base)

LEMMA DaSeFalta ==
  ASSUME NEW base, NEW t \in Tabelas
  PROVE  /\ CriarSeFalta(t, base) \in Seq(Comandos)
         /\ t \in base => CriarSeFalta(t, base) = <<>>
         /\ t \notin base => Peca(CriarSeFalta(t, base), t)
  <1>1. CASE t \in base
    BY <1>1 DEF CriarSeFalta
  <1>2. CASE t \notin base
    <2>1. Peca(CriarSeFalta(t, base), t)
      BY <1>2, DaTabela DEF CriarSeFalta
    <2> QED
      BY <1>2, <2>1 DEF Peca
  <1> QED
    BY <1>1, <1>2

LEMMA CriacaoSeFalta ==
  ASSUME NEW base, SoComATabela(base), NEW F, NEW p, Criadas(p, base, F),
         NEW t \in Tabelas, t \notin F, \A r \in Tabelas : Refere(t, r) => r \in F
  PROVE  Criadas(p \o CriarSeFalta(t, base), base, F \union {t})
  <1>1. /\ p \in Seq(Comandos) /\ F \subseteq Tabelas /\ Criacao(p, base)
        /\ CriaAte(p, Len(p)) = TrazDe(F \ base)
    BY DEF Criacao, Criadas
  <1>2. CASE t \in base
    <2>1. CriarSeFalta(t, base) = <<>>
      BY <1>2, DaSeFalta
    <2>2. p \o CriarSeFalta(t, base) = p
      BY <1>1, <2>1, ConcatEmptySeq
    <2>3. (F \union {t}) \ base = F \ base
      BY <1>2
    <2> QED
      BY <1>1, <2>2, <2>3 DEF Criadas
  <1>3. CASE t \notin base
    <2> DEFINE c == CriarSeFalta(t, base)
               q == p \o c
    <2>1. Peca(c, t)
      BY <1>3, DaSeFalta
    <2>2. c \in Seq(Comandos)
      BY <2>1 DEF Peca
    <2> HIDE DEF c
    <2>3. q \in Seq(Comandos) /\ Emenda(q, p, c)
      BY <1>1, <2>2, DaEmenda
    <2>4. Traz(t) \intersect base = {}
      BY <1>3 DEF SoComATabela
    <2>5. Traz(t) \intersect TrazDe(F \ base) = {}
      BY <1>1, Conjuntos DEF TrazDe
    <2>6. \A r \in Tabelas : Refere(t, r) => r \in base \union CriaAte(p, Len(p))
      <3>1. \A r \in Tabelas \intersect (F \ base) : r \in TrazDe(F \ base)
        BY Conjuntos DEF TrazDe
      <3> QED
        BY <1>1, <3>1
    <2> HIDE DEF q
    <2>7. Criacao(q, base) /\ CriaAte(q, Len(q)) = CriaAte(p, Len(p)) \union Traz(t)
      <3>1. Traz(t) \intersect (base \union CriaAte(p, Len(p))) = {}
        BY <1>1, <2>4, <2>5
      <3>2. Criacao(p, base)
        BY <1>1
      <3>3. q \in Seq(Comandos) /\ Emenda(q, p, c)
        BY <2>3
      <3> HIDE DEF Criadas
      <3> QED
        BY <1>3, <2>1, <2>6, <3>1, <3>2, <3>3, CriacaoMais
    <2>8. TrazDe((F \union {t}) \ base) = TrazDe(F \ base) \union Traz(t)
      BY <1>3 DEF TrazDe
    <2>9. Criadas(q, base, F \union {t})
      BY <1>1, <2>7, <2>8 DEF Criadas
    <2> QED
      BY <2>9 DEF q, c
  <1> QED
    BY <1>2, <1>3

(* create_all over a schema: no statement of it fails, and every table is    *)
(* there at its end.                                                         *)
LEMMA DoCreateAll ==
  ASSUME NEW base, SoComATabela(base)
  PROVE  LET p == CreateAll(base) IN
         Criacao(p, base) /\ CriaAte(p, Len(p)) = TrazDe(Tabelas \ base)
  <1> DEFINE p0 == <<>>
             p1 == p0 \o CriarSeFalta("empresas", base)
             p2 == p1 \o CriarSeFalta("gtin_consultas", base)
             p3 == p2 \o CriarSeFalta("api_clients", base)
             p4 == p3 \o CriarSeFalta("gdpr_solicitacoes", base)
             p5 == p4 \o CriarSeFalta("notas_fiscais", base)
             p6 == p5 \o CriarSeFalta("webhook_logs", base)
             f1 == {"empresas"}
             f2 == f1 \union {"gtin_consultas"}
             f3 == f2 \union {"api_clients"}
             f4 == f3 \union {"gdpr_solicitacoes"}
             f5 == f4 \union {"notas_fiscais"}
             f6 == f5 \union {"webhook_logs"}
  <1>1. Criadas(p0, base, {})
    BY DEF Criadas, Criacao, CriaAte, TrazDe
  <1>2. p0 \o CriarSeFalta("empresas", base) = CriarSeFalta("empresas", base)
    <2>1. "empresas" \in Tabelas
      BY DEF Tabelas
    <2> QED
      BY <2>1, DaSeFalta, ConcatEmptySeq
  <1>3. CreateAll(base) = p6
    BY <1>2 DEF CreateAll
  <1>4. f6 = Tabelas
    BY DEF Tabelas
  <1>11. /\ "empresas" \in Tabelas /\ "empresas" \notin {}
         /\ \A r \in Tabelas : Refere("empresas", r) => r \in {}
    BY DEF Tabelas, Refere
  <1>12. /\ "gtin_consultas" \in Tabelas /\ "gtin_consultas" \notin f1
         /\ \A r \in Tabelas : Refere("gtin_consultas", r) => r \in f1
    BY DEF Tabelas, Refere
  <1>13. /\ "api_clients" \in Tabelas /\ "api_clients" \notin f2
         /\ \A r \in Tabelas : Refere("api_clients", r) => r \in f2
    BY DEF Tabelas, Refere
  <1>14. /\ "gdpr_solicitacoes" \in Tabelas /\ "gdpr_solicitacoes" \notin f3
         /\ \A r \in Tabelas : Refere("gdpr_solicitacoes", r) => r \in f3
    BY DEF Tabelas, Refere
  <1>15. /\ "notas_fiscais" \in Tabelas /\ "notas_fiscais" \notin f4
         /\ \A r \in Tabelas : Refere("notas_fiscais", r) => r \in f4
    BY DEF Tabelas, Refere
  <1>16. /\ "webhook_logs" \in Tabelas /\ "webhook_logs" \notin f5
         /\ \A r \in Tabelas : Refere("webhook_logs", r) => r \in f5
    BY DEF Tabelas, Refere
  <1>17. f1 = {} \union {"empresas"}
    OBVIOUS
  <1> HIDE DEF p0, f1, f2, f3, f4, f5, f6
  <1>5. Criadas(p1, base, f1)
    BY <1>1, <1>11, <1>17, CriacaoSeFalta
  <1> HIDE DEF p1
  <1>6. Criadas(p2, base, f2)
    BY <1>5, <1>12, CriacaoSeFalta DEF f2
  <1> HIDE DEF p2
  <1>7. Criadas(p3, base, f3)
    BY <1>6, <1>13, CriacaoSeFalta DEF f3
  <1> HIDE DEF p3
  <1>8. Criadas(p4, base, f4)
    BY <1>7, <1>14, CriacaoSeFalta DEF f4
  <1> HIDE DEF p4
  <1>9. Criadas(p5, base, f5)
    BY <1>8, <1>15, CriacaoSeFalta DEF f5
  <1> HIDE DEF p5
  <1>10. Criadas(p6, base, f6)
    BY <1>9, <1>16, CriacaoSeFalta DEF f6
  <1> HIDE DEF p6
  <1> QED
    BY <1>3, <1>4, <1>10 DEF Criadas

-----------------------------------------------------------------------------
(* migrar() on Postgres: the locks it has when it comes to its step k.       *)
Travas(p, k) ==
    {<<p[j].t, p[j].modo>> :
        j \in {i \in 1..(k - 1) : p[i].faz = "comando" /\ \A h \in i..(k - 1) : p[h].faz # "commit"}}

NoPostgres(s) == CreateAll(s) \o (AlterTables \o <<Commit>>)

(* A statement that does not fail over the schema s when `antes' is there.   *)
Passa(c, antes, s) ==
    /\ c \in Comandos
    /\ c.requer \subseteq antes
    /\ c.nova => c.modo = "ALTER" /\ c.t \notin s /\ c.cria \intersect antes = {}
    /\ ~c.nova => c.t \in antes
    /\ c.modo = "REFERIDA" => \E u \in Tabelas \ s : u \in antes /\ Refere(u, c.t)
    /\ c.modo \in {"REFERIDA", "ALTER"}

(* A program that takes the schema s to the whole one: its first lock is an  *)
(* ALTER, and of what there was it alters empresas first.                    *)
Migra(p, s) ==
    /\ p \in Seq(Passos) /\ Len(p) > 1 /\ p[Len(p)] = Commit
    /\ \A i \in 1..(Len(p) - 1) : Passa(p[i], s \union CriaAte(p, i - 1), s)
    /\ s \union CriaAte(p, Len(p) - 1) = Completo
    /\ p[1].modo = "ALTER"
    /\ p[1].nova \/ Tabelas \subseteq s
    /\ p[1].nova => p[1].t \in p[1].cria
    /\ \A i \in 1..(Len(p) - 1) : p[i].t \in s /\ p[i].modo = "ALTER" =>
          /\ p[i].t \in {"empresas", "notas_fiscais"}
          /\ \A j \in 1..(Len(p) - 1) : j > i => p[j].t # "empresas"

LEMMA DeAlterTables ==
  /\ AlterTables \o <<Commit>> \in Seq(Passos) /\ Len(AlterTables \o <<Commit>>) = 4
  /\ LET a == AlterTables \o <<Commit>> IN
     /\ a[4] = Commit
     /\ \A i \in 1..3 :
           a[i] \in Comandos /\ a[i].modo = "ALTER" /\ a[i].requer = {} /\ ~a[i].nova
     /\ a[1].t = "empresas" /\ a[2].t = "notas_fiscais" /\ a[3].t = "notas_fiscais"
     /\ a[1].cria = Colunas /\ a[2].cria = {"protocolo"} /\ a[3].cria = {"recibo"}
  <1> DEFINE c1 == Comando("empresas", "ALTER", {}, Colunas, FALSE)
             c2 == Comando("notas_fiscais", "ALTER", {}, {"protocolo"}, FALSE)
             c3 == Comando("notas_fiscais", "ALTER", {}, {"recibo"}, FALSE)
  <1>1. /\ "empresas" \in Tabelas /\ "notas_fiscais" \in Tabelas
        /\ Colunas \in SUBSET Completo /\ {"protocolo"} \in SUBSET Completo
        /\ {"recibo"} \in SUBSET Completo
    BY DEF Tabelas, Completo, Colunas, Ampliacoes
  <1>2. /\ c1 \in Comandos /\ c1.t = "empresas" /\ c1.modo = "ALTER" /\ c1.requer = {}
        /\ c1.cria = Colunas /\ ~c1.nova
    BY <1>1 DEF Comando, Comandos, Modos
  <1>3. /\ c2 \in Comandos /\ c2.t = "notas_fiscais" /\ c2.modo = "ALTER" /\ c2.requer = {}
        /\ c2.cria = {"protocolo"} /\ ~c2.nova
    BY <1>1 DEF Comando, Comandos, Modos
  <1>4. /\ c3 \in Comandos /\ c3.t = "notas_fiscais" /\ c3.modo = "ALTER" /\ c3.requer = {}
        /\ c3.cria = {"recibo"} /\ ~c3.nova
    BY <1>1 DEF Comando, Comandos, Modos
  <1>5. AlterTables = <<c1, c2, c3>>
    BY DEF AlterTables
  <1> HIDE DEF c1, c2, c3
  <1>6. c1 \in Passos /\ c2 \in Passos /\ c3 \in Passos /\ Commit \in Passos
    BY <1>2, <1>3, <1>4 DEF Passos
  <1>7. /\ <<c1, c2, c3>> \o <<Commit>> \in Seq(Passos)
        /\ Len(<<c1, c2, c3>> \o <<Commit>>) = 4
        /\ (<<c1, c2, c3>> \o <<Commit>>)[1] = c1
        /\ (<<c1, c2, c3>> \o <<Commit>>)[2] = c2
        /\ (<<c1, c2, c3>> \o <<Commit>>)[3] = c3
        /\ (<<c1, c2, c3>> \o <<Commit>>)[4] = Commit
    BY <1>6
  <1>8. 1..3 = {1, 2, 3}
    OBVIOUS
  <1> QED
    BY <1>2, <1>3, <1>4, <1>5, <1>7, <1>8

(* On Postgres the program of migrar() does.                                 *)
LEMMA DeMigra ==
  ASSUME NEW s \in SUBSET Completo, SoComATabela(s)
  PROVE  Migra(NoPostgres(s), s)
  <1> DEFINE p == CreateAll(s)
             a == AlterTables \o <<Commit>>
             q == p \o a
             n == Len(p)
  <1>1. /\ p \in Seq(Comandos) /\ n \in Nat
        /\ \A i \in 1..n : Degrau(p[i], s \union CriaAte(p, i - 1), s)
        /\ p # <<>> => p[1].nova
        /\ CriaAte(p, n) = TrazDe(Tabelas \ s)
    <2>1. Criacao(p, s) /\ CriaAte(p, Len(p)) = TrazDe(Tabelas \ s)
      BY DoCreateAll
    <2> HIDE DEF p, q, a
    <2>2. p \in Seq(Comandos) /\ Len(p) \in Nat
      BY <2>1 DEF Criacao
    <2>3. \A i \in 1..Len(p) : Degrau(p[i], s \union CriaAte(p, i - 1), s)
      BY <2>1 DEF Criacao
    <2>4. p # <<>> => p[1].nova
      BY <2>1, Zenon DEF Criacao
    <2> QED
      BY <2>1, <2>2, <2>3, <2>4
  <1>2. /\ a \in Seq(Passos) /\ Len(a) = 4 /\ a[4] = Commit
        /\ \A i \in 1..3 :
              a[i] \in Comandos /\ a[i].modo = "ALTER" /\ a[i].requer = {} /\ ~a[i].nova
        /\ a[1].t = "empresas" /\ a[2].t = "notas_fiscais" /\ a[3].t = "notas_fiscais"
        /\ a[1].cria = Colunas /\ a[2].cria = {"protocolo"} /\ a[3].cria = {"recibo"}
    BY DeAlterTables
  <1>3. p \in Seq(Passos)
    BY <1>1 DEF Passos
  <1>4. NoPostgres(s) = q
    BY DEF NoPostgres
  <1> HIDE DEF p, a
  <1>5. q \in Seq(Passos) /\ Emenda(q, p, a)
    BY <1>2, <1>3, DaEmenda
  <1> HIDE DEF q
  <1>6. /\ Len(q) = n + 4
        /\ \A i \in 1..n : q[i] = p[i] /\ q[i] \in Comandos
        /\ q[n + 1] = a[1] /\ q[n + 2] = a[2] /\ q[n + 3] = a[3] /\ q[n + 4] = Commit
    <2>1. 1 \in 1..4 /\ 2 \in 1..4 /\ 3 \in 1..4 /\ 4 \in 1..4
      OBVIOUS
    <2> QED
      BY <1>1, <1>2, <1>5, <2>1 DEF Emenda
  <1> HIDE DEF n
  <1>7. \A k \in 0..n : CriaAte(q, k) = CriaAte(p, k)
    <2> TAKE k \in 0..n
    <2>1. \A j \in 1..k : q[j] = p[j]
      BY <1>1, <1>6
    <2> QED
      BY <2>1 DEF CriaAte
  <1>8. Tabelas \subseteq s \union CriaAte(q, n)
    <2>1. \A t \in Tabelas \ s : t \in TrazDe(Tabelas \ s)
      BY Conjuntos DEF TrazDe
    <2>2. CriaAte(q, n) = TrazDe(Tabelas \ s)
      <3>1. n \in 0..n
        BY <1>1
      <3> QED
        BY <1>1, <1>7, <3>1
    <2> QED
      BY <2>1, <2>2
  <1>9. \A i \in (n + 1)..(n + 3) : CriaAte(q, n) \subseteq CriaAte(q, i - 1)
    BY <1>1, CriaAteCresce
  <1>10. 1..(n + 3) = 1..n \union {n + 1, n + 2, n + 3}
    BY <1>1
  <1>11. \A i \in 1..3 : a[i].t \in {"empresas", "notas_fiscais"} /\ a[i].t \in Tabelas
    BY <1>2 DEF Tabelas
  <1>12. \A i \in 1..n : q[i].modo = "ALTER" => q[i].t \notin s
    BY <1>1, <1>6 DEF Degrau
  <1>13. \A i \in (n + 1)..(n + 3) :
            /\ q[i] \in Comandos /\ q[i].modo = "ALTER" /\ q[i].requer = {} /\ ~q[i].nova
            /\ q[i].t \in {"empresas", "notas_fiscais"} /\ q[i].t \in Tabelas
            /\ i > n + 1 => q[i].t # "empresas"
    <2>1. (n + 1)..(n + 3) = {n + 1, n + 2, n + 3}
      BY <1>1
    <2> QED
      BY <1>1, <1>2, <1>6, <1>11, <2>1
  <1>14. ASSUME NEW i \in 1..(n + 3)
         PROVE  Passa(q[i], s \union CriaAte(q, i - 1), s)
    <2>1. CASE i \in 1..n
      <3>1. Degrau(q[i], s \union CriaAte(q, i - 1), s)
        <4>1. i - 1 \in 0..n
          BY <1>1, <2>1
        <4>2. CriaAte(q, i - 1) = CriaAte(p, i - 1)
          BY <4>1, <1>7
        <4> QED
          BY <1>1, <1>6, <2>1, <4>2
      <3> QED
        BY <1>6, <2>1, <3>1 DEF Degrau, Passa
    <2>2. CASE i \in (n + 1)..(n + 3)
      BY <1>8, <1>9, <1>13, <2>2 DEF Passa
    <2> QED
      BY <1>1, <2>1, <2>2
  <1>15. s \union CriaAte(q, n + 3) = Completo
    <2>1. /\ Colunas \subseteq CriaAte(q, n + 3) /\ {"protocolo"} \subseteq CriaAte(q, n + 3)
          /\ {"recibo"} \subseteq CriaAte(q, n + 3)
      <3>1. n + 1 \in 1..(n + 3) /\ n + 2 \in 1..(n + 3) /\ n + 3 \in 1..(n + 3) /\ n + 3 \in Nat
        BY <1>1
      <3>2. \A j \in 1..(n + 3) : q[j].cria \subseteq CriaAte(q, n + 3)
        BY <3>1, CriaAteMais
      <3> QED
        BY <1>2, <1>6, <3>1, <3>2
    <2>2. Tabelas \subseteq s \union CriaAte(q, n + 3)
      BY <1>1, <1>8, CriaAteCresce
    <2>3. \A i \in 1..(n + 3) : q[i].cria \subseteq Completo
      <3>1. \A i \in 1..(n + 3) : q[i] \in Comandos
        BY <1>14 DEF Passa
      <3> QED
        BY <3>1 DEF Comandos
    <2>4. CriaAte(q, n + 3) \subseteq Completo
      BY <2>3 DEF CriaAte
    <2> QED
      BY <2>1, <2>2, <2>4 DEF Completo, Ampliacoes
  <1>16. /\ q[1].modo = "ALTER" /\ (q[1].nova \/ Tabelas \subseteq s)
         /\ q[1].nova => q[1].t \in q[1].cria
    <2>1. CASE n = 0
      <3>1. q[1] = a[1]
        BY <1>6, <2>1
      <3>2. CriaAte(q, n) = {}
        BY <2>1, CriaAteMais
      <3> QED
        BY <1>2, <1>8, <3>1, <3>2
    <2>2. CASE n > 0
      <3>1. p # <<>> /\ 1 \in 1..n
        BY <1>1, <2>2 DEF n
      <3>2. q[1] = p[1] /\ p[1].nova
        BY <1>1, <1>6, <3>1
      <3>3. /\ p[1].modo = "ALTER" /\ p[1].cria = Traz(p[1].t)
        BY <1>1, <3>1, <3>2 DEF Degrau
      <3>4. p[1].t \in Tabelas
        <4>1. p[1] \in Comandos
          BY <1>1, <3>1 DEF n
        <4> QED
          BY <4>1 DEF Comandos
      <3> QED
        BY <3>2, <3>3, <3>4, Conjuntos
    <2> QED
      BY <1>1, <2>1, <2>2
  <1>17. ASSUME NEW i \in 1..(n + 3), q[i].t \in s, q[i].modo = "ALTER"
         PROVE  /\ q[i].t \in {"empresas", "notas_fiscais"}
                /\ \A j \in 1..(n + 3) : j > i => q[j].t # "empresas"
    <2>1. i \in (n + 1)..(n + 3)
      BY <1>1, <1>12, <1>17
    <2> QED
      BY <1>1, <1>13, <2>1
  <1>18. Len(q) - 1 = n + 3 /\ Len(q) > 1 /\ q[Len(q)] = Commit
    BY <1>1, <1>6
  <1>19. Migra(q, s)
    BY <1>5, <1>14, <1>15, <1>16, <1>17, <1>18 DEF Migra
  <1> QED
    BY <1>4, <1>19

-----------------------------------------------------------------------------
(* On SQLite each statement commits: what one finds is the schema its        *)
(* program was made for, what the program added, and what others did.        *)
Soma(c, antes) ==
    /\ c \in Comandos
    /\ c.requer \subseteq antes
    /\ c.nova => c.cria \intersect antes = {}
    /\ ~c.nova => c.t \in antes
    /\ \A t \in Tabelas : Traz(t) \intersect c.cria # {} => t \in c.cria \union antes

Somas(p, base) ==
    /\ p \in Seq(Comandos)
    /\ \A i \in 1..Len(p) : Soma(p[i], base \union CriaAte(p, i - 1))

Avulsa(p, base) ==
    /\ p \in Seq(Passos) /\ Len(p) >= 1
    /\ \A i \in 1..(Len(p) - 1) : Soma(p[i], base \union CriaAte(p, i - 1))
    /\ \/ p[Len(p)] = Pragma /\ Tabelas \subseteq base \union CriaAte(p, Len(p) - 1)
       \/ p[Len(p)] = Commit /\ Tabelas \union Colunas \subseteq base \union CriaAte(p, Len(p) - 1)

LEMMA DeUmAMais ==
  ASSUME NEW S, NEW p \in Seq(S), NEW c \in S
  PROVE  LET q == p \o <<c>> IN
         /\ q \in Seq(S) /\ Len(q) = Len(p) + 1 /\ q[Len(p) + 1] = c
         /\ \A i \in 1..Len(p) : q[i] = p[i]
         /\ \A k \in 0..Len(p) : CriaAte(q, k) = CriaAte(p, k)
  <1> DEFINE q == p \o <<c>>
             n == Len(p)
  <1>1. <<c>> \in Seq(S) /\ Len(<<c>>) = 1 /\ <<c>>[1] = c /\ 1 \in 1..1 /\ n \in Nat
    OBVIOUS
  <1>2. q \in Seq(S) /\ Emenda(q, p, <<c>>)
    BY <1>1, DaEmenda
  <1> HIDE DEF q
  <1>3. Len(q) = n + 1 /\ q[n + 1] = c /\ \A i \in 1..n : q[i] = p[i]
    BY <1>1, <1>2 DEF Emenda
  <1> HIDE DEF n
  <1>4. \A k \in 0..n : CriaAte(q, k) = CriaAte(p, k)
    <2> TAKE k \in 0..n
    <2>1. \A j \in 1..k : q[j] = p[j]
      BY <1>1, <1>3
    <2> QED
      BY <2>1 DEF CriaAte
  <1>5. /\ q \in Seq(S) /\ Len(q) = n + 1 /\ q[n + 1] = c
        /\ \A i \in 1..n : q[i] = p[i]
        /\ \A k \in 0..n : CriaAte(q, k) = CriaAte(p, k)
    BY <1>2, <1>3, <1>4
  <1> QED
    BY <1>5 DEF q, n

(* What ends such a sequence.                                                *)
LEMMA DaAvulsa ==
  ASSUME NEW base, NEW p, Somas(p, base), NEW fim \in {Pragma, Commit},
         Tabelas \subseteq base \union CriaAte(p, Len(p)),
         fim = Commit => Colunas \subseteq base \union CriaAte(p, Len(p))
  PROVE  Avulsa(p \o <<fim>>, base)
  <1> DEFINE q == p \o <<fim>>
             n == Len(p)
  <1>1. /\ p \in Seq(Comandos) /\ n \in Nat
        /\ \A i \in 1..n : Soma(p[i], base \union CriaAte(p, i - 1))
    BY DEF Somas
  <1>2. p \in Seq(Passos) /\ fim \in Passos
    BY <1>1 DEF Passos
  <1>3. /\ q \in Seq(Passos) /\ Len(q) = n + 1 /\ q[n + 1] = fim
        /\ \A i \in 1..n : q[i] = p[i]
        /\ \A k \in 0..n : CriaAte(q, k) = CriaAte(p, k)
    BY <1>2, DeUmAMais
  <1> HIDE DEF q
  <1>4. CriaAte(q, n) = CriaAte(p, Len(p))
    BY <1>1, <1>3
  <1> HIDE DEF n
  <1>5. ASSUME NEW i \in 1..n
        PROVE  Soma(q[i], base \union CriaAte(q, i - 1))
    <2>1. i - 1 \in 0..n
      BY <1>1
    <2>2. CriaAte(q, i - 1) = CriaAte(p, i - 1)
      BY <1>3, <2>1
    <2> QED
      BY <1>1, <1>3, <2>2
  <1>6. Len(q) >= 1 /\ Len(q) - 1 = n /\ q[Len(q)] = fim
    BY <1>1, <1>3
  <1>7. Avulsa(q, base)
    BY <1>3, <1>4, <1>5, <1>6 DEF Avulsa
  <1> QED
    BY <1>7 DEF q

LEMMA DeCriacaoASomas ==
  ASSUME NEW base, NEW p, Criacao(p, base)
  PROVE  Somas(p, base)
  <1>1. /\ p \in Seq(Comandos)
        /\ \A i \in 1..Len(p) : Degrau(p[i], base \union CriaAte(p, i - 1), base)
    BY DEF Criacao
  <1>2. ASSUME NEW c \in Comandos, NEW antes, Degrau(c, antes, base)
        PROVE  Soma(c, antes)
    <2>1. c.t \in Tabelas
      BY DEF Comandos
    <2>2. CASE c.nova
      <3>1. c.cria = Traz(c.t) /\ c.cria \intersect antes = {} /\ c.requer \subseteq antes
        BY <1>2, <2>2 DEF Degrau
      <3>2. \A t \in Tabelas : Traz(t) \intersect c.cria # {} => t \in c.cria \union antes
        BY <2>1, <3>1, Conjuntos
      <3> QED
        BY <2>2, <3>1, <3>2 DEF Soma
    <2>3. CASE ~c.nova
      BY <1>2, <2>3 DEF Degrau, Soma
    <2> QED
      BY <2>2, <2>3
  <1> QED
    BY <1>1, <1>2 DEF Somas

LEMMA DaCriacaoAvulsa ==
  ASSUME NEW base, SoComATabela(base)
  PROVE  Avulsa(CreateAll(base) \o <<Pragma>>, base)
  <1> DEFINE p == CreateAll(base)
  <1>1. Criacao(p, base) /\ CriaAte(p, Len(p)) = TrazDe(Tabelas \ base)
    BY DoCreateAll
  <1> HIDE DEF p
  <1>2. Somas(p, base)
    BY <1>1, DeCriacaoASomas
  <1>3. Tabelas \subseteq base \union CriaAte(p, Len(p))
    <2>1. \A t \in Tabelas \ base : t \in TrazDe(Tabelas \ base)
      BY Conjuntos DEF TrazDe
    <2> QED
      BY <1>1, <2>1
  <1>4. Pragma # Commit
    BY FazDosPassos
  <1>5. Avulsa(p \o <<Pragma>>, base)
    BY <1>2, <1>3, <1>4, DaAvulsa
  <1> QED
    BY <1>5 DEF p

(* ALTER TABLE empresas ADD COLUMN for each column that is not there.        *)
LEMMA DaAdicaoDeUma ==
  ASSUME NEW base, Tabelas \subseteq base, NEW p, Somas(p, base),
         CriaAte(p, Len(p)) \subseteq Colunas,
         NEW c \in Colunas, c \notin CriaAte(p, Len(p))
  PROVE  LET q == p \o AdicionarSeFalta(c, base) IN
         /\ Somas(q, base) /\ CriaAte(q, Len(q)) \subseteq Colunas
         /\ c \in base \union CriaAte(q, Len(q))
         /\ CriaAte(p, Len(p)) \subseteq CriaAte(q, Len(q))
         /\ CriaAte(q, Len(q)) \subseteq CriaAte(p, Len(p)) \union {c}
  <1>1. /\ p \in Seq(Comandos) /\ Len(p) \in Nat
        /\ \A i \in 1..Len(p) : Soma(p[i], base \union CriaAte(p, i - 1))
    <2>1. p \in Seq(Comandos)
      BY DEF Somas
    <2>2. \A i \in 1..Len(p) : Soma(p[i], base \union CriaAte(p, i - 1))
      BY Zenon DEF Somas
    <2>3. Len(p) \in Nat
      BY <2>1
    <2> QED
      BY <2>1, <2>2, <2>3, Zenon
  <1>2. CASE c \in base
    <2>1. p \o AdicionarSeFalta(c, base) = p
      BY <1>1, <1>2, ConcatEmptySeq DEF AdicionarSeFalta
    <2> QED
      BY <1>2, <2>1
  <1>3. CASE c \notin base
    <2> DEFINE cmd == Comando("empresas", "ALTER", {}, {c}, TRUE)
               q == p \o <<cmd>>
               n == Len(p)
    <2>1. p \o AdicionarSeFalta(c, base) = q
      BY <1>3 DEF AdicionarSeFalta
    <2>2. {c} \in SUBSET Completo /\ "empresas" \in Tabelas
      BY DEF Completo, Tabelas
    <2>3. /\ cmd \in Comandos /\ cmd.t = "empresas" /\ cmd.requer = {}
          /\ cmd.cria = {c} /\ cmd.nova
      BY <2>2 DEF Comando, Comandos, Modos
    <2> HIDE DEF cmd
    <2>4. /\ q \in Seq(Comandos) /\ Len(q) = n + 1 /\ q[n + 1] = cmd
          /\ \A i \in 1..n : q[i] = p[i]
          /\ \A k \in 0..n : CriaAte(q, k) = CriaAte(p, k)
      BY <1>1, <2>3, DeUmAMais
    <2> HIDE DEF q
    <2>5. CriaAte(q, n) = CriaAte(p, Len(p)) /\ n \in Nat
      BY <1>1, <2>4
    <2>6. CriaAte(q, n + 1) = CriaAte(p, Len(p)) \union {c}
      BY <2>3, <2>4, <2>5, CriaAteMais
    <2>7. Soma(cmd, base \union CriaAte(p, Len(p)))
      BY <1>3, <2>2, <2>3 DEF Soma
    <2> HIDE DEF n
    <2>8. ASSUME NEW i \in 1..(n + 1)
          PROVE  Soma(q[i], base \union CriaAte(q, i - 1))
      <3>1. CASE i \in 1..n
        <4>1. i - 1 \in 0..n
          BY <2>5, <3>1
        <4>2. CriaAte(q, i - 1) = CriaAte(p, i - 1)
          BY <2>4, <4>1
        <4> QED
          BY <1>1, <2>4, <3>1, <4>2 DEF n
      <3>2. CASE i = n + 1
        <4>1. i - 1 = n /\ q[i] = cmd
          BY <2>4, <2>5, <3>2
        <4> QED
          BY <2>5, <2>7, <4>1
      <3> QED
        BY <2>5, <3>1, <3>2
    <2>9. Len(q) = n + 1
      BY <2>4
    <2>10. Somas(q, base)
      BY <2>4, <2>8, <2>9 DEF Somas
    <2> QED
      BY <2>1, <2>6, <2>9, <2>10
  <1> QED
    BY <1>2, <1>3

LEMMA DeFaltaAdicionar ==
  ASSUME NEW base, Tabelas \subseteq base
  PROVE  Avulsa(FaltaAdicionar(base), base)
  <1> DEFINE p0 == <<>>
             p1 == p0 \o AdicionarSeFalta("csc", base)
             p2 == p1 \o AdicionarSeFalta("csc_id", base)
             p3 == p2 \o AdicionarSeFalta("codigo_regime_tributario", base)
  <1>1. Somas(p0, base) /\ CriaAte(p0, Len(p0)) = {}
    BY DEF Somas, CriaAte
  <1>2. p1 = AdicionarSeFalta("csc", base)
    <2> DEFINE cmd == Comando("empresas", "ALTER", {}, {"csc"}, TRUE)
    <2>1. AdicionarSeFalta("csc", base) \in Seq({cmd})
      <3>1. AdicionarSeFalta("csc", base) = IF "csc" \in base THEN <<>> ELSE <<cmd>>
        BY DEF AdicionarSeFalta
      <3>2. <<cmd>> \in Seq({cmd})
        <4> HIDE DEF cmd
        <4> QED
          OBVIOUS
      <3>3. <<>> \in Seq({cmd})
        <4> HIDE DEF cmd
        <4> QED
          OBVIOUS
      <3> HIDE DEF cmd
      <3> QED
        BY <3>1, <3>2, <3>3, Zenon
    <2> HIDE DEF cmd
    <2> QED
      BY <2>1, ConcatEmptySeq
  <1>3. FaltaAdicionar(base) = p3 \o <<Commit>>
    BY <1>2 DEF FaltaAdicionar
  <1>4. /\ "csc" \in Colunas /\ "csc_id" \in Colunas /\ "codigo_regime_tributario" \in Colunas
        /\ \A c \in Colunas : c \in {"csc", "csc_id", "codigo_regime_tributario"}
    BY DEF Colunas
  <1> HIDE DEF p0
  <1>5. /\ Somas(p1, base) /\ CriaAte(p1, Len(p1)) \subseteq {"csc"}
        /\ "csc" \in base \union CriaAte(p1, Len(p1))
    BY <1>1, <1>4, DaAdicaoDeUma
  <1> HIDE DEF p1
  <1>6. /\ Somas(p2, base) /\ CriaAte(p2, Len(p2)) \subseteq {"csc", "csc_id"}
        /\ {"csc", "csc_id"} \subseteq base \union CriaAte(p2, Len(p2))
    BY <1>4, <1>5, DaAdicaoDeUma
  <1> HIDE DEF p2
  <1>7. /\ Somas(p3, base)
        /\ Colunas \subseteq base \union CriaAte(p3, Len(p3))
    BY <1>4, <1>6, DaAdicaoDeUma
  <1> HIDE DEF p3
  <1> QED
    BY <1>3, <1>7, DaAvulsa

-----------------------------------------------------------------------------
(* The programs of the sessions: what each has locked and done outside by    *)
(* its step i.                                                               *)
ForaDesde(p, k) ==
    \E j \in 1..(k - 1) : p[j].faz = "fora" /\ \A h \in j..(k - 1) : p[h].faz # "commit"

ComandosDeSessao ==
    {c \in Comandos : c.modo \in ModosDeSessao /\ c.cria = {} /\ ~c.nova /\ c.t \in c.requer}

DeSessao(p) ==
    /\ p \in Seq(Passos) /\ Len(p) >= 1 /\ p[Len(p)] = Commit
    /\ \A i \in 1..Len(p) : p[i] \in ComandosDeSessao \union {Fora, Commit}

(* It reads on, and no more than the client and the company it has.          *)
Lendo(p, i) ==
    /\ p[i].modo = "SELECT"
    /\ Travas(p, i) \subseteq {<<"api_clients", "SELECT">>, <<"empresas", "SELECT">>}

(* It was authenticated before its step i.                                   *)
Autenticada(p, i) == i > 1 /\ p[1].faz = "comando" /\ p[1].t = "api_clients"

Emite(p) ==
    \A i \in 1..Len(p) : p[i].faz = "comando" =>
      /\ ~ForaDesde(p, i) => Lendo(p, i)
      /\ ForaDesde(p, i) => /\ Autenticada(p, i)
                            /\ p[i].t \in {"empresas", "notas_fiscais"}
                            /\ p[i].requer \subseteq {"empresas", "notas_fiscais", "protocolo"}

Registra(p) ==
    \A i \in 1..Len(p) : p[i].faz = "comando" /\ ForaDesde(p, i) =>
      /\ Autenticada(p, i)
      /\ p[i].t = "notas_fiscais" /\ p[i].requer = {"notas_fiscais"} /\ p[i].modo = "ESCRITA"
      /\ <<"notas_fiscais", "SELECT">> \in Travas(p, i)

Decide(p) ==
    \A i \in 1..Len(p) : p[i].faz = "comando" /\ ForaDesde(p, i) =>
      /\ i > 2 /\ p[1].faz = "comando" /\ p[2].faz = "comando"
      /\ p[1].t = "notas_fiscais" /\ p[2].t = "empresas"
      /\ p[i].t \in {"empresas", "notas_fiscais", "webhook_logs"} /\ p[i].requer = {p[i].t}

Guarda(p) ==
    \A i \in 1..Len(p) : p[i].faz = "comando" =>
      \/ Lendo(p, i)
      \/ /\ Autenticada(p, i)
         /\ p[i].t = "empresas" /\ p[i].modo = "ESCRITA"
         /\ <<"empresas", "SELECT">> \in Travas(p, i)

LEMMA DaTrava ==
  ASSUME NEW p, NEW i \in Nat, NEW j \in 1..(i - 1),
         p[j].faz = "comando", \A h \in j..(i - 1) : p[h].faz # "commit"
  PROVE  <<p[j].t, p[j].modo>> \in Travas(p, i)
  BY DEF Travas

LEMMA DasTravas ==
  ASSUME NEW p, NEW i, NEW l \in Travas(p, i)
  PROVE  \E j \in 1..(i - 1) :
            /\ p[j].faz = "comando" /\ l = <<p[j].t, p[j].modo>>
            /\ \A h \in j..(i - 1) : p[h].faz # "commit"
  BY DEF Travas

LEMMA DoUsoDeSessao ==
  ASSUME NEW t \in Tabelas, NEW modo \in ModosDeSessao
  PROVE  LET c == Usa(t, modo) IN
         /\ c \in ComandosDeSessao /\ c \in Passos /\ c.faz = "comando"
         /\ c.t = t /\ c.modo = modo /\ c.requer = {t}
  <1> DEFINE c == Usa(t, modo)
  <1>1. /\ c \in Comandos /\ c \in Passos
        /\ c.t = t /\ c.modo = modo /\ c.requer = {t} /\ c.cria = {} /\ ~c.nova
    BY DoUso DEF Modos
  <1> HIDE DEF c
  <1>2. c \in ComandosDeSessao /\ c.faz = "comando"
    BY <1>1, FazDosPassos DEF ComandosDeSessao
  <1>3. /\ c \in ComandosDeSessao /\ c \in Passos /\ c.faz = "comando"
        /\ c.t = t /\ c.modo = modo /\ c.requer = {t}
    BY <1>1, <1>2
  <1> QED
    BY <1>3 DEF c

(* The statements of the sessions, and what of each matters.                 *)
LEMMA DosComandos ==
  /\ Usa("api_clients", "SELECT") \in ComandosDeSessao
  /\ Usa("api_clients", "SELECT").t = "api_clients"
  /\ Usa("api_clients", "SELECT").modo = "SELECT"
  /\ Usa("notas_fiscais", "SELECT") \in ComandosDeSessao
  /\ Usa("notas_fiscais", "SELECT").t = "notas_fiscais"
  /\ Usa("notas_fiscais", "SELECT").modo = "SELECT"
  /\ Usa("notas_fiscais", "CHAVE") \in ComandosDeSessao
  /\ Usa("notas_fiscais", "CHAVE").t = "notas_fiscais"
  /\ Usa("notas_fiscais", "ESCRITA") \in ComandosDeSessao
  /\ Usa("notas_fiscais", "ESCRITA").t = "notas_fiscais"
  /\ Usa("notas_fiscais", "ESCRITA").modo = "ESCRITA"
  /\ Usa("notas_fiscais", "ESCRITA").requer = {"notas_fiscais"}
  /\ Usa("webhook_logs", "ESCRITA") \in ComandosDeSessao
  /\ Usa("webhook_logs", "ESCRITA").t = "webhook_logs"
  /\ Usa("webhook_logs", "ESCRITA").requer = {"webhook_logs"}
  /\ Usa("empresas", "CHAVE") \in ComandosDeSessao
  /\ Usa("empresas", "CHAVE").t = "empresas"
  /\ Usa("empresas", "CHAVE").requer = {"empresas"}
  /\ Usa("empresas", "ESCRITA") \in ComandosDeSessao
  /\ Usa("empresas", "ESCRITA").t = "empresas"
  /\ Usa("empresas", "ESCRITA").modo = "ESCRITA"
  <1>1. /\ "api_clients" \in Tabelas /\ "notas_fiscais" \in Tabelas /\ "webhook_logs" \in Tabelas
        /\ "empresas" \in Tabelas /\ "SELECT" \in ModosDeSessao /\ "CHAVE" \in ModosDeSessao
        /\ "ESCRITA" \in ModosDeSessao
    BY DEF Tabelas, ModosDeSessao
  <1>2. \A t \in Tabelas : \A modo \in ModosDeSessao :
           /\ Usa(t, modo) \in ComandosDeSessao
           /\ Usa(t, modo).t = t /\ Usa(t, modo).modo = modo /\ Usa(t, modo).requer = {t}
    BY DoUsoDeSessao
  <1> QED
    BY <1>1, <1>2

(* db.get(Empresa) needs the columns of the model.                           *)
LEMMA DaLeitura ==
  LET c == Comando("empresas", "SELECT", {"empresas"} \union Colunas, {}, FALSE) IN
  c \in ComandosDeSessao /\ c.t = "empresas" /\ c.modo = "SELECT"
  <1>1. /\ "empresas" \in Tabelas /\ "SELECT" \in ModosDeSessao
        /\ {"empresas"} \union Colunas \in SUBSET Completo /\ "empresas" \in {"empresas"} \union Colunas
    BY DEF Tabelas, ModosDeSessao, Completo
  <1> QED
    BY <1>1 DEF Comando, ComandosDeSessao, Comandos, Modos

LEMMA DaInsercao ==
  ASSUME NEW l \in SUBSET {"protocolo"}
  PROVE  LET c == Comando("notas_fiscais", "ESCRITA", {"notas_fiscais"} \union l, {}, FALSE) IN
         /\ c \in ComandosDeSessao /\ c.t = "notas_fiscais"
         /\ c.requer \subseteq {"empresas", "notas_fiscais", "protocolo"}
  <1>1. /\ "notas_fiscais" \in Tabelas /\ "ESCRITA" \in ModosDeSessao
        /\ {"notas_fiscais"} \union l \in SUBSET Completo /\ "notas_fiscais" \in {"notas_fiscais"} \union l
        /\ {"notas_fiscais"} \union l \subseteq {"empresas", "notas_fiscais", "protocolo"}
    BY DEF Tabelas, ModosDeSessao, Completo, Ampliacoes
  <1> QED
    BY <1>1 DEF Comando, ComandosDeSessao, Comandos, Modos

LEMMA DosPassosDeSessao ==
  /\ \A c \in ComandosDeSessao : c.faz = "comando" /\ c \in Passos
  /\ Fora \in Passos /\ Commit \in Passos
  /\ Fora.faz = "fora" /\ Commit.faz = "commit"
  BY FazDosPassos DEF ComandosDeSessao, Passos

LEMMA DaEmissaoLendo ==
  ASSUME NEW le \in BOOLEAN, le, NEW l \in SUBSET {"protocolo"}
  PROVE  DeSessao(Emissao(le, l)) /\ Emite(Emissao(le, l))
  <1> DEFINE a == Usa("api_clients", "SELECT")
             e == Comando("empresas", "SELECT", {"empresas"} \union Colunas, {}, FALSE)
             n == Usa("notas_fiscais", "SELECT")
             w == Comando("notas_fiscais", "ESCRITA", {"notas_fiscais"} \union l, {}, FALSE)
             k == Usa("empresas", "CHAVE")
             p == Emissao(le, l)
  <1>1. p = <<a>> \o (<<e, n>> \o <<Commit>>) \o <<Fora>> \o <<w, k, Commit>>
    BY DEF Emissao, Autenticar, LerEFechar, LerEmpresa, InserirNota
  <1>2. /\ a \in ComandosDeSessao /\ a.t = "api_clients" /\ a.modo = "SELECT"
        /\ e \in ComandosDeSessao /\ e.t = "empresas" /\ e.modo = "SELECT"
        /\ n \in ComandosDeSessao /\ n.t = "notas_fiscais" /\ n.modo = "SELECT"
        /\ w \in ComandosDeSessao /\ w.t = "notas_fiscais"
        /\ w.requer \subseteq {"empresas", "notas_fiscais", "protocolo"}
        /\ k \in ComandosDeSessao /\ k.t = "empresas" /\ k.requer = {"empresas"}
    BY DosComandos, DaLeitura, DaInsercao
  <1> HIDE DEF a, e, n, w, k, p
  <1>3. /\ p \in Seq(Passos) /\ Len(p) = 8
        /\ p[1] = a /\ p[2] = e /\ p[3] = n /\ p[4] = Commit /\ p[5] = Fora
        /\ p[6] = w /\ p[7] = k /\ p[8] = Commit
    <2>1. a \in Passos /\ e \in Passos /\ n \in Passos /\ w \in Passos /\ k \in Passos
      BY <1>2, DosPassosDeSessao
    <2>2. p \in Seq(Passos)
      BY <1>1, <2>1, DosPassosDeSessao
    <2>3. LET q == <<a>> \o (<<e, n>> \o <<Commit>>) \o <<Fora>> \o <<w, k, Commit>> IN
          /\ Len(q) = 8
          /\ q[1] = a /\ q[2] = e /\ q[3] = n /\ q[4] = Commit /\ q[5] = Fora
          /\ q[6] = w /\ q[7] = k /\ q[8] = Commit
      OBVIOUS
    <2> QED
      BY <1>1, <2>2, <2>3, Zenon
  <1>4. 1..8 = {1, 2, 3, 4, 5, 6, 7, 8}
    OBVIOUS
  <1>5. DeSessao(p)
    BY <1>2, <1>3, <1>4 DEF DeSessao
  <1>6. Emite(p)
    <2> SUFFICES ASSUME NEW i \in 1..8, p[i].faz = "comando"
                 PROVE  /\ ~ForaDesde(p, i) => Lendo(p, i)
                        /\ ForaDesde(p, i) => 
                              /\ Autenticada(p, i)
                              /\ p[i].t \in {"empresas", "notas_fiscais"}
                              /\ p[i].requer \subseteq {"empresas", "notas_fiscais", "protocolo"}
      BY <1>3 DEF Emite
    <2>1. CASE i \in 1..3
      <3>1. ~ForaDesde(p, i)
        BY <1>2, <1>3, <2>1, DosPassosDeSessao DEF ForaDesde
      <3>2. Lendo(p, i)
        BY <1>2, <1>3, <2>1, DosPassosDeSessao DEF Lendo, Travas
      <3> QED
        BY <3>1, <3>2
    <2>2. CASE i \in {6, 7}
      <3>1. ForaDesde(p, i)
        BY <1>2, <1>3, <2>2, DosPassosDeSessao DEF ForaDesde
      <3>2. Autenticada(p, i)
        BY <1>2, <1>3, <2>2, DosPassosDeSessao DEF Autenticada
      <3> QED
        BY <1>2, <1>3, <2>2, <3>1, <3>2
    <2> QED
      BY <1>3, <1>4, <2>1, <2>2, DosPassosDeSessao
  <1> QED
    BY <1>5, <1>6 DEF p

LEMMA DaEmissaoSemLer ==
  ASSUME NEW le \in BOOLEAN, ~le, NEW l \in SUBSET {"protocolo"}
  PROVE  DeSessao(Emissao(le, l)) /\ Emite(Emissao(le, l))
  <1> DEFINE a == Usa("api_clients", "SELECT")
             w == Comando("notas_fiscais", "ESCRITA", {"notas_fiscais"} \union l, {}, FALSE)
             k == Usa("empresas", "CHAVE")
             p == Emissao(le, l)
  <1>1. p = <<a>> \o <<>> \o <<Fora>> \o <<w, k, Commit>>
    BY DEF Emissao, Autenticar, InserirNota
  <1>2. /\ a \in ComandosDeSessao /\ a.t = "api_clients" /\ a.modo = "SELECT"
        /\ w \in ComandosDeSessao /\ w.t = "notas_fiscais"
        /\ w.requer \subseteq {"empresas", "notas_fiscais", "protocolo"}
        /\ k \in ComandosDeSessao /\ k.t = "empresas" /\ k.requer = {"empresas"}
    BY DosComandos, DaInsercao
  <1> HIDE DEF a, w, k, p
  <1>3. /\ p \in Seq(Passos) /\ Len(p) = 5
        /\ p[1] = a /\ p[2] = Fora /\ p[3] = w /\ p[4] = k /\ p[5] = Commit
    <2>1. a \in Passos /\ w \in Passos /\ k \in Passos
      BY <1>2, DosPassosDeSessao
    <2>2. p \in Seq(Passos)
      BY <1>1, <2>1, DosPassosDeSessao
    <2>3. LET q == <<a>> \o <<>> \o <<Fora>> \o <<w, k, Commit>> IN
          /\ Len(q) = 5
          /\ q[1] = a /\ q[2] = Fora /\ q[3] = w /\ q[4] = k /\ q[5] = Commit
      OBVIOUS
    <2> QED
      BY <1>1, <2>2, <2>3, Zenon
  <1>4. 1..5 = {1, 2, 3, 4, 5}
    OBVIOUS
  <1>5. DeSessao(p)
    BY <1>2, <1>3, <1>4 DEF DeSessao
  <1>6. Emite(p)
    <2> SUFFICES ASSUME NEW i \in 1..5, p[i].faz = "comando"
                 PROVE  /\ ~ForaDesde(p, i) => Lendo(p, i)
                        /\ ForaDesde(p, i) =>
                              /\ Autenticada(p, i)
                              /\ p[i].t \in {"empresas", "notas_fiscais"}
                              /\ p[i].requer \subseteq {"empresas", "notas_fiscais", "protocolo"}
      BY <1>3 DEF Emite
    <2>1. CASE i \in {1}
      <3>1. ~ForaDesde(p, i)
        BY <1>2, <1>3, <2>1, DosPassosDeSessao DEF ForaDesde
      <3>2. Lendo(p, i)
        BY <1>2, <1>3, <2>1, DosPassosDeSessao DEF Lendo, Travas
      <3> QED
        BY <3>1, <3>2
    <2>2. CASE i \in {3, 4}
      <3>1. ForaDesde(p, i)
        BY <1>2, <1>3, <2>2, DosPassosDeSessao DEF ForaDesde
      <3>2. Autenticada(p, i)
        BY <1>2, <1>3, <2>2, DosPassosDeSessao DEF Autenticada
      <3> QED
        BY <1>2, <1>3, <2>2, <3>1, <3>2
    <2> QED
      BY <1>3, <1>4, <2>1, <2>2, DosPassosDeSessao
  <1> QED
    BY <1>5, <1>6 DEF p

LEMMA DoEventoLendo ==
  ASSUME NEW le \in BOOLEAN, le
  PROVE  DeSessao(Evento(le)) /\ Registra(Evento(le))
  <1> DEFINE a == Usa("api_clients", "SELECT")
             e == Comando("empresas", "SELECT", {"empresas"} \union Colunas, {}, FALSE)
             n == Usa("notas_fiscais", "SELECT")
             u == Usa("notas_fiscais", "ESCRITA")
             p == Evento(le)
  <1>1. p = <<a>> \o (<<e, n>> \o <<Commit>>) \o <<n>> \o <<e, n>> \o <<Fora, u, Commit>>
    BY DEF Evento, Autenticar, LerEFechar, LerEmpresa
  <1>2. /\ a \in ComandosDeSessao /\ a.t = "api_clients" /\ a.modo = "SELECT"
        /\ e \in ComandosDeSessao /\ e.t = "empresas" /\ e.modo = "SELECT"
        /\ n \in ComandosDeSessao /\ n.t = "notas_fiscais" /\ n.modo = "SELECT"
        /\ u \in ComandosDeSessao /\ u.t = "notas_fiscais" /\ u.modo = "ESCRITA"
        /\ u.requer = {"notas_fiscais"}
    BY DosComandos, DaLeitura
  <1> HIDE DEF a, e, n, u, p
  <1>3. /\ p \in Seq(Passos) /\ Len(p) = 10
        /\ p[1] = a /\ p[2] = e /\ p[3] = n /\ p[4] = Commit /\ p[5] = n
        /\ p[6] = e /\ p[7] = n /\ p[8] = Fora /\ p[9] = u /\ p[10] = Commit
    <2>1. a \in Passos /\ e \in Passos /\ n \in Passos /\ u \in Passos
      BY <1>2, DosPassosDeSessao
    <2>2. p \in Seq(Passos)
      BY <1>1, <2>1, DosPassosDeSessao
    <2>3. LET q == <<a>> \o (<<e, n>> \o <<Commit>>) \o <<n>> \o <<e, n>> \o <<Fora, u, Commit>> IN
          /\ Len(q) = 10
          /\ q[1] = a /\ q[2] = e /\ q[3] = n /\ q[4] = Commit /\ q[5] = n
          /\ q[6] = e /\ q[7] = n /\ q[8] = Fora /\ q[9] = u /\ q[10] = Commit
      OBVIOUS
    <2> QED
      BY <1>1, <2>2, <2>3, Zenon
  <1>4. 1..10 = {1, 2, 3, 4, 5, 6, 7, 8, 9, 10}
    OBVIOUS
  <1>5. DeSessao(p)
    BY <1>2, <1>3, <1>4 DEF DeSessao
  <1>6. Registra(p)
    <2> SUFFICES ASSUME NEW i \in 1..10, p[i].faz = "comando", ForaDesde(p, i)
                 PROVE  /\ Autenticada(p, i)
                        /\ p[i].t = "notas_fiscais" /\ p[i].requer = {"notas_fiscais"}
                        /\ p[i].modo = "ESCRITA"
                        /\ <<"notas_fiscais", "SELECT">> \in Travas(p, i)
      BY <1>3 DEF Registra
    <2>1. i > 8
      BY <1>2, <1>3, <1>4, DosPassosDeSessao DEF ForaDesde
    <2>2. i = 9 /\ p[i] = u
      BY <1>3, <1>4, <2>1, DosPassosDeSessao
    <2>3. Autenticada(p, i)
      BY <1>2, <1>3, <2>2, DosPassosDeSessao DEF Autenticada
    <2>4. <<"notas_fiscais", "SELECT">> \in Travas(p, i)
      <3>1. 5 \in 1..(i - 1) /\ p[5].faz = "comando"
        BY <1>2, <1>3, <2>2, DosPassosDeSessao
      <3>2. \A h \in 5..(i - 1) : p[h].faz # "commit"
        BY <1>2, <1>3, <2>2, DosPassosDeSessao
      <3> QED
        BY <1>2, <1>3, <3>1, <3>2, DaTrava
    <2> QED
      BY <1>2, <2>2, <2>3, <2>4
  <1> QED
    BY <1>5, <1>6 DEF p

LEMMA DoEventoSemLer ==
  ASSUME NEW le \in BOOLEAN, ~le
  PROVE  DeSessao(Evento(le)) /\ Registra(Evento(le))
  <1> DEFINE a == Usa("api_clients", "SELECT")
             n == Usa("notas_fiscais", "SELECT")
             e == Comando("empresas", "SELECT", {"empresas"} \union Colunas, {}, FALSE)
             u == Usa("notas_fiscais", "ESCRITA")
             p == Evento(le)
  <1>1. p = <<a>> \o <<>> \o <<n>> \o <<e, n>> \o <<Fora, u, Commit>>
    BY DEF Evento, Autenticar, LerEmpresa
  <1>2. /\ a \in ComandosDeSessao /\ a.t = "api_clients" /\ a.modo = "SELECT"
        /\ n \in ComandosDeSessao /\ n.t = "notas_fiscais" /\ n.modo = "SELECT"
        /\ e \in ComandosDeSessao /\ e.t = "empresas" /\ e.modo = "SELECT"
        /\ u \in ComandosDeSessao /\ u.t = "notas_fiscais" /\ u.modo = "ESCRITA"
        /\ u.requer = {"notas_fiscais"}
    BY DosComandos, DaLeitura
  <1> HIDE DEF a, n, e, u, p
  <1>3. /\ p \in Seq(Passos) /\ Len(p) = 7
        /\ p[1] = a /\ p[2] = n /\ p[3] = e /\ p[4] = n /\ p[5] = Fora
        /\ p[6] = u /\ p[7] = Commit
    <2>1. a \in Passos /\ n \in Passos /\ e \in Passos /\ u \in Passos
      BY <1>2, DosPassosDeSessao
    <2>2. p \in Seq(Passos)
      BY <1>1, <2>1, DosPassosDeSessao
    <2>3. LET q == <<a>> \o <<>> \o <<n>> \o <<e, n>> \o <<Fora, u, Commit>> IN
          /\ Len(q) = 7
          /\ q[1] = a /\ q[2] = n /\ q[3] = e /\ q[4] = n /\ q[5] = Fora
          /\ q[6] = u /\ q[7] = Commit
      OBVIOUS
    <2> QED
      BY <1>1, <2>2, <2>3, Zenon
  <1>4. 1..7 = {1, 2, 3, 4, 5, 6, 7}
    OBVIOUS
  <1>5. DeSessao(p)
    BY <1>2, <1>3, <1>4 DEF DeSessao
  <1>6. Registra(p)
    <2> SUFFICES ASSUME NEW i \in 1..7, p[i].faz = "comando", ForaDesde(p, i)
                 PROVE  /\ Autenticada(p, i)
                        /\ p[i].t = "notas_fiscais" /\ p[i].requer = {"notas_fiscais"}
                        /\ p[i].modo = "ESCRITA"
                        /\ <<"notas_fiscais", "SELECT">> \in Travas(p, i)
      BY <1>3 DEF Registra
    <2>1. i > 5
      BY <1>2, <1>3, <1>4, DosPassosDeSessao DEF ForaDesde
    <2>2. i = 6 /\ p[i] = u
      BY <1>3, <1>4, <2>1, DosPassosDeSessao
    <2>3. Autenticada(p, i)
      BY <1>2, <1>3, <2>2, DosPassosDeSessao DEF Autenticada
    <2>4. <<"notas_fiscais", "SELECT">> \in Travas(p, i)
      <3>1. 2 \in 1..(i - 1) /\ p[2].faz = "comando"
        BY <1>2, <1>3, <2>2, DosPassosDeSessao
      <3>2. \A h \in 2..(i - 1) : p[h].faz # "commit"
        BY <1>2, <1>3, <2>2, DosPassosDeSessao
      <3> QED
        BY <1>2, <1>3, <3>1, <3>2, DaTrava
    <2> QED
      BY <1>2, <2>2, <2>3, <2>4
  <1> QED
    BY <1>5, <1>6 DEF p

LEMMA DoPollerComUrl ==
  ASSUME NEW comUrl \in BOOLEAN, comUrl
  PROVE  DeSessao(Poller(comUrl)) /\ Decide(Poller(comUrl))
  <1> DEFINE c == Usa("notas_fiscais", "CHAVE")
             e == Comando("empresas", "SELECT", {"empresas"} \union Colunas, {}, FALSE)
             n == Usa("notas_fiscais", "SELECT")
             u == Usa("notas_fiscais", "ESCRITA")
             g == Usa("webhook_logs", "ESCRITA")
             k == Usa("empresas", "CHAVE")
             p == Poller(comUrl)
  <1>1. p = <<c>> \o <<e, n>> \o (<<Fora, u, g, k, Commit>> \o <<Fora, u, g, k, Commit>>)
    BY DEF Poller, LerEmpresa, Entrega
  <1>2. /\ c \in ComandosDeSessao /\ c.t = "notas_fiscais"
        /\ e \in ComandosDeSessao /\ e.t = "empresas" /\ e.modo = "SELECT"
        /\ n \in ComandosDeSessao /\ n.t = "notas_fiscais" /\ n.modo = "SELECT"
        /\ u \in ComandosDeSessao /\ u.t = "notas_fiscais" /\ u.modo = "ESCRITA"
        /\ u.requer = {"notas_fiscais"}
        /\ g \in ComandosDeSessao /\ g.t = "webhook_logs" /\ g.requer = {"webhook_logs"}
        /\ k \in ComandosDeSessao /\ k.t = "empresas" /\ k.requer = {"empresas"}
    BY DosComandos, DaLeitura
  <1> HIDE DEF c, e, n, u, g, k, p
  <1>3. /\ p \in Seq(Passos) /\ Len(p) = 13
        /\ p[1] = c /\ p[2] = e /\ p[3] = n /\ p[4] = Fora /\ p[5] = u
        /\ p[6] = g /\ p[7] = k /\ p[8] = Commit /\ p[9] = Fora /\ p[10] = u
        /\ p[11] = g /\ p[12] = k /\ p[13] = Commit
    <2>1. c \in Passos /\ e \in Passos /\ n \in Passos /\ u \in Passos /\ g \in Passos /\ k \in Passos
      BY <1>2, DosPassosDeSessao
    <2>2. p \in Seq(Passos)
      BY <1>1, <2>1, DosPassosDeSessao
    <2>3. LET q == <<c>> \o <<e, n>> \o (<<Fora, u, g, k, Commit>> \o <<Fora, u, g, k, Commit>>) IN
          /\ Len(q) = 13
          /\ q[1] = c /\ q[2] = e /\ q[3] = n /\ q[4] = Fora /\ q[5] = u
          /\ q[6] = g /\ q[7] = k /\ q[8] = Commit /\ q[9] = Fora /\ q[10] = u
          /\ q[11] = g /\ q[12] = k /\ q[13] = Commit
      OBVIOUS
    <2> QED
      BY <1>1, <2>2, <2>3, Zenon
  <1>4. 1..13 = {1, 2, 3, 4, 5, 6, 7, 8, 9, 10, 11, 12, 13}
    OBVIOUS
  <1>5. DeSessao(p)
    BY <1>2, <1>3, <1>4 DEF DeSessao
  <1>6. Decide(p)
    <2> SUFFICES ASSUME NEW i \in 1..13, p[i].faz = "comando", ForaDesde(p, i)
                 PROVE  /\ i > 2 /\ p[1].faz = "comando" /\ p[2].faz = "comando"
                        /\ p[1].t = "notas_fiscais" /\ p[2].t = "empresas"
                        /\ p[i].t \in {"empresas", "notas_fiscais", "webhook_logs"}
                        /\ p[i].requer = {p[i].t}
      BY <1>3 DEF Decide
    <2>1. i > 4
      BY <1>2, <1>3, <1>4, DosPassosDeSessao DEF ForaDesde
    <2>2. p[i] \in {u, g, k}
      BY <1>3, <1>4, <2>1, DosPassosDeSessao
    <2> QED
      BY <1>2, <1>3, <2>1, <2>2, DosPassosDeSessao
  <1> QED
    BY <1>5, <1>6 DEF p

LEMMA DoPollerSemUrl ==
  ASSUME NEW comUrl \in BOOLEAN, ~comUrl
  PROVE  DeSessao(Poller(comUrl)) /\ Decide(Poller(comUrl))
  <1> DEFINE c == Usa("notas_fiscais", "CHAVE")
             e == Comando("empresas", "SELECT", {"empresas"} \union Colunas, {}, FALSE)
             n == Usa("notas_fiscais", "SELECT")
             u == Usa("notas_fiscais", "ESCRITA")
             p == Poller(comUrl)
  <1>1. p = <<c>> \o <<e, n>> \o <<u, Commit>>
    BY DEF Poller, LerEmpresa
  <1>2. /\ c \in ComandosDeSessao /\ c.t = "notas_fiscais"
        /\ e \in ComandosDeSessao /\ e.t = "empresas" /\ e.modo = "SELECT"
        /\ n \in ComandosDeSessao /\ n.t = "notas_fiscais" /\ n.modo = "SELECT"
        /\ u \in ComandosDeSessao /\ u.t = "notas_fiscais" /\ u.modo = "ESCRITA"
        /\ u.requer = {"notas_fiscais"}
    BY DosComandos, DaLeitura
  <1> HIDE DEF c, e, n, u, p
  <1>3. /\ p \in Seq(Passos) /\ Len(p) = 5
        /\ p[1] = c /\ p[2] = e /\ p[3] = n /\ p[4] = u /\ p[5] = Commit
    <2>1. c \in Passos /\ e \in Passos /\ n \in Passos /\ u \in Passos
      BY <1>2, DosPassosDeSessao
    <2>2. p \in Seq(Passos)
      BY <1>1, <2>1, DosPassosDeSessao
    <2>3. LET q == <<c>> \o <<e, n>> \o <<u, Commit>> IN
          /\ Len(q) = 5
          /\ q[1] = c /\ q[2] = e /\ q[3] = n /\ q[4] = u /\ q[5] = Commit
      OBVIOUS
    <2> QED
      BY <1>1, <2>2, <2>3, Zenon
  <1>4. 1..5 = {1, 2, 3, 4, 5}
    OBVIOUS
  <1>5. DeSessao(p)
    BY <1>2, <1>3, <1>4 DEF DeSessao
  <1>6. Decide(p)
    <2>1. \A i \in 1..5 : ~ForaDesde(p, i)
      BY <1>2, <1>3, <1>4, DosPassosDeSessao DEF ForaDesde
    <2> QED
      BY <1>3, <2>1 DEF Decide
  <1> QED
    BY <1>5, <1>6 DEF p

LEMMA DoCertificado ==
  DeSessao(Certificado) /\ Guarda(Certificado)
  <1> DEFINE a == Usa("api_clients", "SELECT")
             e == Comando("empresas", "SELECT", {"empresas"} \union Colunas, {}, FALSE)
             n == Usa("notas_fiscais", "SELECT")
             v == Usa("empresas", "ESCRITA")
             p == Certificado
  <1>1. p = <<a>> \o <<Fora>> \o <<e, n>> \o <<v, Commit>>
    BY DEF Certificado, Autenticar, LerEmpresa
  <1>2. /\ a \in ComandosDeSessao /\ a.t = "api_clients" /\ a.modo = "SELECT"
        /\ e \in ComandosDeSessao /\ e.t = "empresas" /\ e.modo = "SELECT"
        /\ n \in ComandosDeSessao /\ n.t = "notas_fiscais" /\ n.modo = "SELECT"
        /\ v \in ComandosDeSessao /\ v.t = "empresas" /\ v.modo = "ESCRITA"
    BY DosComandos, DaLeitura
  <1> HIDE DEF a, e, n, v, p
  <1>3. /\ p \in Seq(Passos) /\ Len(p) = 6
        /\ p[1] = a /\ p[2] = Fora /\ p[3] = e /\ p[4] = n /\ p[5] = v
        /\ p[6] = Commit
    <2>1. a \in Passos /\ e \in Passos /\ n \in Passos /\ v \in Passos
      BY <1>2, DosPassosDeSessao
    <2>2. p \in Seq(Passos)
      BY <1>1, <2>1, DosPassosDeSessao
    <2>3. LET q == <<a>> \o <<Fora>> \o <<e, n>> \o <<v, Commit>> IN
          /\ Len(q) = 6
          /\ q[1] = a /\ q[2] = Fora /\ q[3] = e /\ q[4] = n /\ q[5] = v
          /\ q[6] = Commit
      OBVIOUS
    <2> QED
      BY <1>1, <2>2, <2>3, Zenon
  <1>4. 1..6 = {1, 2, 3, 4, 5, 6}
    OBVIOUS
  <1>5. DeSessao(p)
    BY <1>2, <1>3, <1>4 DEF DeSessao
  <1>6. Guarda(p)
    <2> SUFFICES ASSUME NEW i \in 1..6, p[i].faz = "comando"
                 PROVE  \/ Lendo(p, i)
                        \/ /\ Autenticada(p, i)
                           /\ p[i].t = "empresas" /\ p[i].modo = "ESCRITA"
                           /\ <<"empresas", "SELECT">> \in Travas(p, i)
      BY <1>3 DEF Guarda
    <2>1. CASE i \in {1, 3, 4}
      BY <1>2, <1>3, <2>1, DosPassosDeSessao DEF Lendo, Travas
    <2>2. CASE i = 5
      <3>1. 3 \in 1..(i - 1) /\ p[3].faz = "comando" /\ \A h \in 3..(i - 1) : p[h].faz # "commit"
        BY <1>2, <1>3, <2>2, DosPassosDeSessao
      <3>2. <<"empresas", "SELECT">> \in Travas(p, i)
        BY <1>2, <1>3, <3>1, DaTrava
      <3>3. Autenticada(p, i)
        BY <1>2, <1>3, <2>2, DosPassosDeSessao DEF Autenticada
      <3> QED
        BY <1>2, <1>3, <2>2, <3>2, <3>3
    <2> QED
      BY <1>3, <1>4, <2>1, <2>2, DosPassosDeSessao
  <1> QED
    BY <1>5, <1>6 DEF p

(* All of them together.                                                     *)
LEMMA DosProgramas ==
  ASSUME NEW tipo \in Tipos, NEW p \in Programas(tipo)
  PROVE  /\ DeSessao(p)
         /\ tipo = "emissao" => Emite(p)
         /\ tipo = "evento" => Registra(p)
         /\ tipo = "poller" => Decide(p)
         /\ tipo = "certificado" => Guarda(p)
  <1>1. CASE tipo = "emissao"
    <2>1. PICK le \in BOOLEAN, l \in {{}, {"protocolo"}} : p = Emissao(le, l)
      BY <1>1 DEF Programas
    <2>2. l \in SUBSET {"protocolo"}
      BY <2>1
    <2>3. DeSessao(p) /\ Emite(p)
      BY <2>1, <2>2, DaEmissaoLendo, DaEmissaoSemLer
    <2> QED
      BY <1>1, <2>3
  <1>2. CASE tipo = "evento"
    <2>1. PICK le \in BOOLEAN : p = Evento(le)
      BY <1>2 DEF Programas
    <2>2. DeSessao(p) /\ Registra(p)
      BY <2>1, DoEventoLendo, DoEventoSemLer
    <2> QED
      BY <1>2, <2>2
  <1>3. CASE tipo = "poller"
    <2>1. PICK comUrl \in BOOLEAN : p = Poller(comUrl)
      BY <1>3 DEF Programas
    <2>2. DeSessao(p) /\ Decide(p)
      BY <2>1, DoPollerComUrl, DoPollerSemUrl
    <2> QED
      BY <1>3, <2>2
  <1>4. CASE tipo = "certificado"
    <2>1. p = Certificado
      BY <1>4 DEF Programas
    <2> QED
      BY <1>4, <2>1, DoCertificado
  <1> QED
    BY <1>1, <1>2, <1>3, <1>4 DEF Tipos

-----------------------------------------------------------------------------
(* The inductive invariant.                                                  *)
Fases == {"livre", "ativa", "ok", "erro", "vitima", "caiu"}

Transacoes ==
    [tipo : Tipos \union {"migracao", "nenhum"}, fase : Fases, prog : Seq(Passos), pc : Nat,
     tem : SUBSET (Tabelas \X Modos), pedido : SUBSET (Tabelas \X Modos),
     novo : SUBSET Completo, externo : BOOLEAN, com : SUBSET Atores,
     criando : SUBSET Completo, faltou : SUBSET Completo]

MigTipos ==
    /\ dialeto \in {"postgresql", "sqlite"}
    /\ schema \in SUBSET Completo
    /\ tr \in [Atores -> Transacoes]

Esquema == SoComATabela(schema) /\ (dialeto = "postgresql" => DeUso(schema))

(* A request has the locks its program took since its last commit, and the   *)
(* tables it named are still there.                                          *)
Servindo(s) ==
    LET r == tr[s] IN
    /\ dialeto = "postgresql"
    /\ r.tipo \in Tipos /\ r.prog \in Programas(r.tipo) /\ r.pc \in 1..Len(r.prog)
    /\ r.tem = Travas(r.prog, r.pc) /\ r.novo = {}
    /\ r.externo <=> ForaDesde(r.prog, r.pc)
    /\ \A j \in 1..(r.pc - 1) : r.prog[j].faz = "comando" => r.prog[j].t \in schema

(* A migration that is to take the schema as it is to the whole one.         *)
EmDia(m) ==
    LET r == tr[m] IN
    /\ r.prog = NoPostgres(schema) /\ r.pc \in 1..Len(r.prog)
    /\ r.tem = Travas(r.prog, r.pc) /\ r.novo = CriaAte(r.prog, r.pc - 1)

(* Or one that has yet to do its first step, which another did before it.    *)
Atrasada(m) ==
    LET r == tr[m] IN
    /\ r.pc = 1 /\ r.pc \in 1..Len(r.prog) /\ r.tem = {} /\ r.novo = {}
    /\ r.prog[1] \in Comandos /\ r.prog[1].nova /\ r.prog[1].cria \intersect schema # {}
    /\ \E outra \in Migracoes \ {m} : tr[outra].fase = "ok"

Sozinha(m) == \A outra \in Migracoes \ {m} : tr[outra].fase = "livre"

Aditiva(m) ==
    LET r == tr[m] IN
    /\ r.tem = {} /\ r.novo = {} /\ r.pc \in 1..Len(r.prog)
    /\ \E base \in SUBSET Completo :
          /\ Avulsa(r.prog, base)
          /\ base \union CriaAte(r.prog, r.pc - 1) \subseteq schema
          /\ Sozinha(m) => schema = base \union CriaAte(r.prog, r.pc - 1)

Migrando(m) ==
    /\ tr[m].tipo = "migracao"
    /\ IF dialeto = "postgresql" THEN EmDia(m) \/ Atrasada(m) ELSE Aditiva(m)

(* What the properties say of each.                                          *)
Completada(m) ==
    /\ tr[m].fase = "ok" =>
          Completo \ (IF dialeto = "sqlite" THEN Ampliacoes ELSE {}) \subseteq schema
    /\ tr[m].fase = "erro" =>
          \E outra \in Migracoes \ {m} :
             tr[outra].fase # "livre" /\ (dialeto = "postgresql" => tr[outra].fase = "ok")

Recusada(s) ==
    tr[s].fase = "erro" /\ tr[s].externo =>
      \/ tr[s].tipo = "emissao" /\ tr[s].faltou = {"protocolo"}
      \/ tr[s].tipo = "poller" /\ tr[s].faltou = {"webhook_logs"}
      \/ tr[s].tipo = "certificado"

Vitimada(x) ==
    tr[x].fase = "vitima" =>
      /\ Cardinality(tr[x].com \intersect Migracoes) = 1
      /\ tr[x].com \intersect Sessoes # {}
      /\ tr[x].tipo = "emissao" => tr[x].externo
      /\ tr[x].tipo = "evento" /\ tr[x].externo => "webhook_logs" \in tr[x].criando
      /\ tr[x].tipo = "certificado" =>
            tr[x].criando \intersect {"gdpr_solicitacoes", "webhook_logs"} # {}

Ator(x) ==
    /\ ~Ativa(x) => tr[x].tem = {} /\ tr[x].novo = {}
    /\ x \in Sessoes /\ Ativa(x) => Servindo(x)
    /\ x \in Migracoes /\ Ativa(x) => Migrando(x)
    /\ x \in Sessoes => Recusada(x)
    /\ x \in Migracoes => Completada(x)
    /\ Vitimada(x)

(* No two hold locks of a table that conflict.                               *)
Compativeis ==
    \A x, y \in Atores : x # y =>
      \A a \in tr[x].tem, b \in tr[y].tem : a[1] = b[1] => b[2] \notin Conflita(a[2])

MigIInv == MigTipos /\ Esquema /\ Compativeis /\ \A x \in Atores : Ator(x)

-----------------------------------------------------------------------------
(* A step of x leaves what is true of the others.                            *)
LEMMA OutroFica ==
  ASSUME MigTipos, NEW x \in Atores, NEW r \in Transacoes, tr' = [tr EXCEPT ![x] = r],
         tr[x].fase \in {"livre", "ativa"}, r.fase # "livre",
         dialeto' = dialeto, schema \subseteq schema',
         NEW y \in Atores, y # x, Ator(y),
         y \in Migracoes /\ Ativa(y) => Migrando(y)'
  PROVE  Ator(y)'
  <1>1. tr'[y] = tr[y] /\ tr'[x] = r
    BY DEF MigTipos
  <1>2. Ativa(y)' <=> Ativa(y)
    BY <1>1 DEF Ativa
  <1>3. y \in Sessoes /\ Ativa(y)' => Servindo(y)'
    <2> SUFFICES ASSUME y \in Sessoes, Ativa(y)'
                 PROVE  Servindo(y)'
      OBVIOUS
    <2>1. Servindo(y)
      BY <1>2 DEF Ator
    <2> QED
      BY <1>1, <2>1 DEF Servindo
  <1>4. y \in Sessoes => Recusada(y)'
    BY <1>1 DEF Ator, Recusada
  <1>5. y \in Migracoes => Completada(y)'
    <2> SUFFICES ASSUME y \in Migracoes
                 PROVE  Completada(y)'
      OBVIOUS
    <2>1. Completada(y)
      BY DEF Ator
    <2>2. tr[y].fase = "ok" =>
            Completo \ (IF dialeto' = "sqlite" THEN Ampliacoes ELSE {}) \subseteq schema'
      BY <2>1 DEF Completada
    <2>3. ASSUME tr[y].fase = "erro"
          PROVE  \E outra \in Migracoes \ {y} :
                    tr'[outra].fase # "livre" /\ (dialeto' = "postgresql" => tr'[outra].fase = "ok")
      <3>1. PICK outra \in Migracoes \ {y} :
               tr[outra].fase # "livre" /\ (dialeto = "postgresql" => tr[outra].fase = "ok")
        BY <2>1, <2>3 DEF Completada
      <3>2. CASE outra = x
        <4>1. tr[outra].fase # "ok"
          BY <3>2
        <4> QED
          BY <1>1, <3>1, <3>2, <4>1
      <3>3. CASE outra # x
        <4>1. tr'[outra] = tr[outra]
          BY <3>3 DEF MigTipos, Atores
        <4> QED
          BY <3>1, <4>1
      <3> QED
        BY <3>2, <3>3
    <2> QED
      BY <1>1, <2>2, <2>3 DEF Completada
  <1>6. Vitimada(y)'
    BY <1>1 DEF Ator, Vitimada
  <1>7. ~Ativa(y)' => tr'[y].tem = {} /\ tr'[y].novo = {}
    BY <1>1, <1>2 DEF Ator
  <1> QED
    BY <1>2, <1>3, <1>4, <1>5, <1>6, <1>7 DEF Ator

(* And a migration goes on as it was, if the schema is, or on SQLite if it   *)
(* was another migration that added to it.                                   *)
LEMMA OutraMigracaoFica ==
  ASSUME MigTipos, NEW x \in Atores, NEW r \in Transacoes, tr' = [tr EXCEPT ![x] = r],
         tr[x].fase \in {"livre", "ativa"}, r.fase # "livre",
         dialeto' = dialeto, schema \subseteq schema',
         schema' = schema \/ (dialeto = "sqlite" /\ x \in Migracoes),
         NEW m \in Migracoes, m # x, Migrando(m)
  PROVE  Migrando(m)'
  <1>1. tr'[m] = tr[m] /\ tr'[x] = r
    BY DEF MigTipos, Atores
  <1>2. \A o \in Migracoes : tr[o].fase = "ok" => tr'[o].fase = "ok"
    BY DEF MigTipos, Atores
  <1>3. CASE dialeto = "postgresql"
    <2>1. schema' = schema
      BY <1>3
    <2>2. EmDia(m) => EmDia(m)'
      BY <1>1, <2>1 DEF EmDia
    <2>3. Atrasada(m) => Atrasada(m)'
      BY <1>1, <1>2, <2>1 DEF Atrasada
    <2> QED
      BY <1>1, <1>3, <2>2, <2>3 DEF Migrando
  <1>4. CASE dialeto # "postgresql"
    <2>1. Aditiva(m)
      BY <1>4 DEF Migrando
    <2>2. PICK base \in SUBSET Completo :
             /\ Avulsa(tr[m].prog, base)
             /\ base \union CriaAte(tr[m].prog, tr[m].pc - 1) \subseteq schema
             /\ Sozinha(m) => schema = base \union CriaAte(tr[m].prog, tr[m].pc - 1)
      BY <2>1 DEF Aditiva
    <2>3. Sozinha(m)' => Sozinha(m) /\ x \notin Migracoes
      BY <1>1 DEF Sozinha, MigTipos, Atores
    <2>4. Sozinha(m)' => schema' = schema
      BY <2>3
    <2>5. Aditiva(m)'
      BY <1>1, <2>1, <2>2, <2>3, <2>4 DEF Aditiva
    <2> QED
      BY <1>1, <1>4, <2>5 DEF Migrando
  <1> QED
    BY <1>3, <1>4

LEMMA UmPasso ==
  ASSUME MigIInv, NEW x \in Atores, NEW r \in Transacoes, tr' = [tr EXCEPT ![x] = r],
         tr[x].fase \in {"livre", "ativa"}, r.fase # "livre",
         dialeto' = dialeto, schema \subseteq schema', schema' \in SUBSET Completo, Esquema',
         \A y \in Atores \ {x} : \A a \in r.tem, b \in tr[y].tem :
            a[1] = b[1] => b[2] \notin Conflita(a[2]),
         \A m \in Migracoes \ {x} : Ativa(m) => Migrando(m)',
         Ator(x)'
  PROVE  MigIInv'
  <1>1. MigTipos'
    BY DEF MigIInv, MigTipos
  <1>2. \A y \in Atores : Ator(y)'
    <2> TAKE y \in Atores
    <2>1. CASE y = x
      BY <2>1
    <2>2. CASE y # x
      <3>1. MigTipos /\ Ator(y)
        BY DEF MigIInv
      <3>2. y \in Migracoes /\ Ativa(y) => Migrando(y)'
        BY <2>2
      <3> HIDE DEF MigIInv
      <3> QED
        BY <2>2, <3>1, <3>2, OutroFica
    <2> QED
      BY <2>1, <2>2
  <1>3. Compativeis'
    <2>1. tr'[x] = r /\ \A y \in Atores \ {x} : tr'[y] = tr[y]
      BY DEF MigIInv, MigTipos
    <2>2. \A y \in Atores \ {x} : \A b \in tr[y].tem : b[2] \in Modos
      <3> TAKE y \in Atores \ {x}
      <3>1. tr[y] \in Transacoes
        BY DEF MigIInv, MigTipos
      <3>2. tr[y].tem \subseteq Tabelas \X Modos
        BY <3>1 DEF Transacoes
      <3> QED
        BY <3>2
    <2>3. \A a \in r.tem : a[2] \in Modos
      BY DEF Transacoes
    <2>4. \A y \in Atores \ {x} : \A a \in r.tem, b \in tr[y].tem :
             a[1] = b[1] => a[2] \notin Conflita(b[2])
      BY <2>2, <2>3, Conflitos
    <2>5. \A y, z \in Atores \ {x} : y # z =>
             \A a \in tr[y].tem, b \in tr[z].tem : a[1] = b[1] => b[2] \notin Conflita(a[2])
      BY DEF MigIInv, Compativeis
    <2> SUFFICES ASSUME NEW y \in Atores, NEW z \in Atores, y # z,
                        NEW a \in tr'[y].tem, NEW b \in tr'[z].tem, a[1] = b[1]
                 PROVE  b[2] \notin Conflita(a[2])
      BY DEF Compativeis
    <2>6. CASE y = x
      BY <2>1, <2>6
    <2>7. CASE z = x
      BY <2>1, <2>4, <2>7
    <2>8. CASE y # x /\ z # x
      BY <2>1, <2>5, <2>8
    <2> QED
      BY <2>6, <2>7, <2>8
  <1> QED
    BY <1>1, <1>2, <1>3 DEF MigIInv

LEMMA UmPassoSemSchema ==
  ASSUME MigIInv, NEW x \in Atores, NEW r \in Transacoes, tr' = [tr EXCEPT ![x] = r],
         tr[x].fase \in {"livre", "ativa"}, r.fase # "livre",
         UNCHANGED <<dialeto, schema>>,
         \A y \in Atores \ {x} : \A a \in r.tem, b \in tr[y].tem :
            a[1] = b[1] => b[2] \notin Conflita(a[2]),
         Ator(x)'
  PROVE  MigIInv'
  <1>1. MigTipos /\ Esquema /\ \A m \in Migracoes : Ator(m)
    BY DEF MigIInv, Atores
  <1>2. ASSUME NEW m \in Migracoes \ {x}, Ativa(m)
        PROVE  Migrando(m)'
    <2>1. Migrando(m) /\ m \in Migracoes /\ m # x
      BY <1>1, <1>2 DEF Ator
    <2>2. /\ dialeto' = dialeto /\ schema \subseteq schema'
          /\ schema' = schema \/ (dialeto = "sqlite" /\ x \in Migracoes)
      OBVIOUS
    <2> HIDE DEF MigIInv
    <2> QED
      BY <1>1, <2>1, <2>2, OutraMigracaoFica
  <1>3. Esquema' /\ schema \subseteq schema' /\ schema' \in SUBSET Completo /\ dialeto' = dialeto
    BY <1>1 DEF Esquema, SoComATabela, DeUso, MigTipos
  <1> QED
    BY <1>2, <1>3, UmPasso

LEMMA DeNova ==
  ASSUME NEW tipo \in Tipos \union {"migracao", "nenhum"}, NEW prog \in Seq(Passos),
         NEW pedido \in SUBSET (Tabelas \X Modos)
  PROVE  LET r == Nova(tipo, prog, pedido) IN
         /\ r \in Transacoes /\ r.fase = "ativa" /\ r.tipo = tipo /\ r.prog = prog /\ r.pc = 1
         /\ r.tem = {} /\ r.novo = {} /\ ~r.externo
  BY DEF Nova, Transacoes, Fases

LEMMA DeLivre ==
  ASSUME NEW f \in Fases
  PROVE  LET r == [Livre EXCEPT !.fase = f] IN
         /\ r \in Transacoes /\ r.fase = f /\ r.tipo = "nenhum"
         /\ r.tem = {} /\ r.novo = {} /\ ~r.externo
  <1> DEFINE n == Nova("nenhum", <<>>, {})
  <1>1. <<>> \in Seq(Passos) /\ {} \in SUBSET (Tabelas \X Modos)
    OBVIOUS
  <1>2. n \in Transacoes /\ n.tipo = "nenhum" /\ n.tem = {} /\ n.novo = {} /\ ~n.externo
    BY <1>1 DEF Nova, Transacoes, Fases
  <1>3. Livre = [n EXCEPT !.fase = "livre"]
    BY DEF Livre
  <1> HIDE DEF n
  <1> QED
    BY <1>2, <1>3 DEF Transacoes, Fases

LEMMA DoInicio == MigInit => MigIInv
  <1> SUFFICES ASSUME MigInit PROVE MigIInv
    OBVIOUS
  <1> USE DEF MigInit
  <1>1. /\ Livre \in Transacoes /\ Livre.fase = "livre"
        /\ Livre.tem = {} /\ Livre.novo = {}
    <2> DEFINE n == Nova("nenhum", <<>>, {})
    <2>1. <<>> \in Seq(Passos) /\ {} \in SUBSET (Tabelas \X Modos)
      OBVIOUS
    <2>2. n \in Transacoes /\ n.tipo = "nenhum" /\ n.tem = {} /\ n.novo = {} /\ ~n.externo
      BY <2>1 DEF Nova, Transacoes, Fases
    <2>3. Livre = [n EXCEPT !.fase = "livre"]
      BY DEF Livre
    <2> HIDE DEF n
    <2> QED
      BY <2>2, <2>3 DEF Transacoes, Fases
  <1> HIDE DEF MigInit
  <1>2. \A x \in Atores : tr[x] = Livre
    BY DEF MigInit
  <1>3. MigTipos
    BY <1>1, AnterioresAssumption DEF MigTipos, MigInit
  <1>4. Esquema
    BY AnterioresAssumption DEF Esquema, MigInit
  <1>5. Compativeis
    BY <1>1, <1>2 DEF Compativeis
  <1>6. \A x \in Atores : Ator(x)
    BY <1>1, <1>2 DEF Ator, Ativa, Recusada, Completada, Vitimada
  <1> QED
    BY <1>3, <1>4, <1>5, <1>6 DEF MigIInv

-----------------------------------------------------------------------------
(* The steps, one by one.                                                    *)
LEMMA DeCair ==
  ASSUME MigIInv, NEW x \in Atores, Cair(x)
  PROVE  MigIInv'
  <1> DEFINE r == [Livre EXCEPT !.fase = "caiu"]
  <1>1. r \in Transacoes /\ r.fase = "caiu" /\ r.tem = {} /\ r.novo = {}
    BY DeLivre DEF Fases
  <1>2. tr' = [tr EXCEPT ![x] = r] /\ tr[x].fase = "ativa" /\ UNCHANGED <<dialeto, schema>>
    BY DEF Cair, Ativa
  <1> HIDE DEF r
  <1>3. tr'[x] = r
    BY <1>2 DEF MigIInv, MigTipos
  <1>4. Ator(x)'
    BY <1>1, <1>3 DEF Ator, Ativa, Recusada, Completada, Vitimada
  <1> QED
    BY <1>1, <1>2, <1>4, UmPassoSemSchema

LEMMA SemTravas ==
  ASSUME NEW p
  PROVE  Travas(p, 1) = {} /\ ~ForaDesde(p, 1) /\ CriaAte(p, 0) = {}
  BY DEF Travas, ForaDesde, CriaAte

LEMMA DeIniciarSessao ==
  ASSUME MigIInv, NEW s \in Sessoes, IniciarSessao(s)
  PROVE  MigIInv'
  <1>0. PICK tipo \in Tipos :
           \E prog \in Programas(tipo) : tr' = [tr EXCEPT ![s] = Nova(tipo, prog, {})]
    BY DEF IniciarSessao
  <1>1. PICK prog \in Programas(tipo) : tr' = [tr EXCEPT ![s] = Nova(tipo, prog, {})]
    BY <1>0
  <1>2. tr[s] = Livre /\ dialeto = "postgresql" /\ UNCHANGED <<dialeto, schema>>
    BY DEF IniciarSessao, Proxima
  <1>3. DeSessao(prog)
    BY DosProgramas
  <1>4. prog \in Seq(Passos) /\ 1 \in 1..Len(prog)
    BY <1>3 DEF DeSessao
  <1> DEFINE r == Nova(tipo, prog, {})
  <1>5. /\ r \in Transacoes /\ r.fase = "ativa" /\ r.tipo = tipo /\ r.prog = prog /\ r.pc = 1
        /\ r.tem = {} /\ r.novo = {} /\ ~r.externo
    BY <1>4, DeNova
  <1>6. tr' = [tr EXCEPT ![s] = r]
    BY <1>1
  <1> HIDE DEF r
  <1>7. s \in Atores /\ tr'[s] = r
    BY <1>6 DEF MigIInv, MigTipos, Atores
  <1>8. tr[s].fase = "livre"
    BY <1>2 DEF Livre, Nova
  <1>9. Servindo(s)'
    <2>1. /\ dialeto' = "postgresql" /\ tr'[s].tipo = tipo /\ tr'[s].prog = prog
          /\ tr'[s].pc = 1 /\ tr'[s].tem = {} /\ tr'[s].novo = {} /\ ~tr'[s].externo
      BY <1>2, <1>5, <1>7
    <2>2. Travas(prog, 1) = {} /\ ~ForaDesde(prog, 1)
      BY SemTravas
    <2> QED
      BY <1>4, <2>1, <2>2 DEF Servindo
  <1>10. s \notin Migracoes
    BY AtoresAssumption
  <1>11. Ator(s)'
    BY <1>5, <1>7, <1>9, <1>10 DEF Ator, Ativa, Recusada, Vitimada
  <1> QED
    BY <1>2, <1>5, <1>6, <1>7, <1>8, <1>11, UmPassoSemSchema

LEMMA DoMigrar ==
  ASSUME MigTipos, Esquema
  PROVE  /\ dialeto = "postgresql" => Migrar = NoPostgres(schema) /\ Migra(Migrar, schema)
         /\ dialeto # "postgresql" => Avulsa(Migrar, schema)
         /\ Migrar \in Seq(Passos) /\ 1 \in 1..Len(Migrar)
  <1>1. CASE dialeto = "postgresql"
    <2>1. Migrar = NoPostgres(schema)
      BY <1>1 DEF Migrar, NoPostgres
    <2>2. Migra(Migrar, schema)
      BY <2>1, DeMigra DEF MigTipos, Esquema
    <2>3. Migrar \in Seq(Passos) /\ Len(Migrar) > 1
      BY <2>2 DEF Migra
    <2>4. 1 \in 1..Len(Migrar)
      BY <2>3
    <2> QED
      BY <1>1, <2>1, <2>2, <2>3, <2>4
  <1>2. CASE dialeto # "postgresql"
    <2>1. Migrar = CreateAll(schema) \o <<Pragma>>
      BY <1>2 DEF Migrar
    <2>2. Avulsa(Migrar, schema)
      BY <2>1, DaCriacaoAvulsa DEF Esquema
    <2>3. Migrar \in Seq(Passos) /\ Len(Migrar) >= 1
      BY <2>2 DEF Avulsa
    <2>4. 1 \in 1..Len(Migrar)
      BY <2>3
    <2> QED
      BY <1>2, <2>2, <2>3, <2>4
  <1> QED
    BY <1>1, <1>2

LEMMA DeIniciarMigracao ==
  ASSUME MigIInv, NEW m \in Migracoes, IniciarMigracao(m)
  PROVE  MigIInv'
  <1>1. PICK pedido \in {{}, AutenticarAdmin} : tr' = [tr EXCEPT ![m] = Nova("migracao", Migrar, pedido)]
    BY DEF IniciarMigracao
  <1>2. tr[m] = Livre /\ UNCHANGED <<dialeto, schema>>
    BY DEF IniciarMigracao, Proxima
  <1>3. pedido \in SUBSET (Tabelas \X Modos)
    BY DEF AutenticarAdmin, Tabelas, Modos, ModosDeSessao
  <1>4. /\ dialeto = "postgresql" => Migrar = NoPostgres(schema)
        /\ dialeto # "postgresql" => Avulsa(Migrar, schema)
        /\ Migrar \in Seq(Passos) /\ 1 \in 1..Len(Migrar)
    BY DoMigrar DEF MigIInv
  <1> DEFINE r == Nova("migracao", Migrar, pedido)
             p == Migrar
  <1>5. /\ r \in Transacoes /\ r.fase = "ativa" /\ r.tipo = "migracao" /\ r.prog = p /\ r.pc = 1
        /\ r.tem = {} /\ r.novo = {} /\ ~r.externo
    BY <1>3, <1>4, DeNova
  <1>6. tr' = [tr EXCEPT ![m] = r]
    BY <1>1
  <1> HIDE DEF r
  <1>7. m \in Atores /\ tr'[m] = r
    BY <1>6 DEF MigIInv, MigTipos, Atores
  <1>8. tr[m].fase = "livre"
    BY <1>2 DEF Livre, Nova
  <1>9. Migrando(m)'
    <2>1. Travas(p, 1) = {} /\ CriaAte(p, 0) = {}
      BY SemTravas
    <2>2. /\ dialeto = "postgresql" => p = NoPostgres(schema)
          /\ dialeto # "postgresql" => Avulsa(p, schema)
          /\ 1 \in 1..Len(p)
      BY <1>4
    <2> HIDE DEF p
    <2>3. CASE dialeto = "postgresql"
      <3>1. /\ tr'[m].prog = p /\ tr'[m].pc = 1 /\ tr'[m].pc - 1 = 0
            /\ tr'[m].tem = {} /\ tr'[m].novo = {} /\ p = NoPostgres(schema')
        BY <1>2, <1>5, <1>7, <2>2, <2>3
      <3>2. EmDia(m)'
        BY <2>1, <2>2, <3>1 DEF EmDia
      <3> QED
        BY <1>2, <1>5, <1>7, <2>3, <3>2 DEF Migrando
    <2>4. CASE dialeto # "postgresql"
      <3>1. schema' = schema /\ schema \in SUBSET Completo
        BY <1>2 DEF MigIInv, MigTipos
      <3>2. /\ Avulsa(p, schema) /\ schema \union CriaAte(p, 1 - 1) = schema
        BY <2>1, <2>2, <2>4
      <3>3. Aditiva(m)'
        BY <1>5, <1>7, <2>2, <3>1, <3>2 DEF Aditiva
      <3> QED
        BY <1>2, <1>5, <1>7, <2>4, <3>3 DEF Migrando
    <2> QED
      BY <2>3, <2>4
  <1>10. m \notin Sessoes
    BY AtoresAssumption
  <1>11. Ator(m)'
    BY <1>5, <1>7, <1>9, <1>10 DEF Ator, Ativa, Completada, Vitimada
  <1> QED
    BY <1>2, <1>5, <1>6, <1>7, <1>8, <1>11, UmPassoSemSchema

(* What a step adds to the locks, and to what was done outside.              *)
LEMMA TravasMais ==
  ASSUME NEW p, NEW k \in Nat \ {0}
  PROVE  /\ p[k].faz = "comando" =>
               /\ Travas(p, k + 1) = Travas(p, k) \union {<<p[k].t, p[k].modo>>}
               /\ ForaDesde(p, k + 1) <=> ForaDesde(p, k)
         /\ p[k].faz = "fora" => Travas(p, k + 1) = Travas(p, k) /\ ForaDesde(p, k + 1)
         /\ p[k].faz = "commit" => Travas(p, k + 1) = {} /\ ~ForaDesde(p, k + 1)
  <1>1. /\ (k + 1) - 1 = k /\ 1..k = 1..(k - 1) \union {k}
        /\ \A j \in 1..(k - 1) : j..k = j..(k - 1) \union {k}
        /\ k..k = {k} /\ \A j \in 1..k : k \in j..k
    OBVIOUS
  <1> DEFINE T(n) == {i \in 1..(n - 1) : p[i].faz = "comando" /\ \A h \in i..(n - 1) : p[h].faz # "commit"}
  <1>2. CASE p[k].faz = "comando"
    <2>1. T(k + 1) = T(k) \union {k}
      BY <1>1, <1>2
    <2>2. ForaDesde(p, k + 1) <=> ForaDesde(p, k)
      BY <1>1, <1>2 DEF ForaDesde
    <2>3. \A n : Travas(p, n) = {<<p[j].t, p[j].modo>> : j \in T(n)}
      BY DEF Travas
    <2> HIDE DEF T
    <2>4. Travas(p, k + 1) = Travas(p, k) \union {<<p[k].t, p[k].modo>>}
      BY <2>1, <2>3
    <2> QED
      BY <1>2, <2>2, <2>4
  <1>3. CASE p[k].faz = "fora"
    <2>1. T(k + 1) = T(k)
      BY <1>1, <1>3
    <2>2. ForaDesde(p, k + 1)
      BY <1>1, <1>3 DEF ForaDesde
    <2>3. \A n : Travas(p, n) = {<<p[j].t, p[j].modo>> : j \in T(n)}
      BY DEF Travas
    <2> HIDE DEF T
    <2> QED
      BY <1>3, <2>1, <2>2, <2>3
  <1>4. CASE p[k].faz = "commit"
    <2>1. T(k + 1) = {}
      BY <1>1, <1>4
    <2>2. ~ForaDesde(p, k + 1)
      BY <1>1, <1>4 DEF ForaDesde
    <2>3. Travas(p, k + 1) = {<<p[j].t, p[j].modo>> : j \in T(k + 1)}
      BY DEF Travas
    <2> HIDE DEF T
    <2> QED
      BY <1>4, <2>1, <2>2, <2>3
  <1> QED
    BY <1>2, <1>3, <1>4

(* The steps a request and a migration come to.                              *)
LEMMA DoPassoDeSessao ==
  ASSUME MigIInv, NEW s \in Sessoes, Ativa(s)
  PROVE  /\ tr[s] \in Transacoes /\ Servindo(s) /\ DeSessao(tr[s].prog)
         /\ tr[s].pc \in Nat \ {0} /\ tr[s].pc <= Len(tr[s].prog) /\ Len(tr[s].prog) \in Nat
         /\ Passo(s) \in ComandosDeSessao \union {Fora, Commit}
         /\ Passo(s) # Commit => tr[s].pc + 1 \in 1..Len(tr[s].prog)
         /\ Passo(s) \in Passos
  <1>1. tr[s] \in Transacoes /\ Servindo(s)
    BY DEF MigIInv, MigTipos, Atores, Ator
  <1>2. DeSessao(tr[s].prog)
    BY <1>1, DosProgramas DEF Servindo
  <1>3. tr[s].pc \in 1..Len(tr[s].prog)
    BY <1>1 DEF Servindo
  <1>4. /\ tr[s].prog \in Seq(Passos) /\ tr[s].prog[Len(tr[s].prog)] = Commit
        /\ \A i \in 1..Len(tr[s].prog) : tr[s].prog[i] \in ComandosDeSessao \union {Fora, Commit}
    BY <1>2 DEF DeSessao
  <1>5. Len(tr[s].prog) \in Nat
    BY <1>4
  <1> QED
    BY <1>1, <1>2, <1>3, <1>4, <1>5 DEF Passo

LEMMA DoPassoDeMigracao ==
  ASSUME MigIInv, NEW m \in Migracoes, Ativa(m)
  PROVE  /\ tr[m] \in Transacoes /\ Migrando(m)
         /\ tr[m].pc \in Nat \ {0} /\ tr[m].pc <= Len(tr[m].prog) /\ Len(tr[m].prog) \in Nat
         /\ Passo(m) \in Comandos \union {Pragma, Commit} /\ Passo(m) \in Passos
         /\ dialeto = "postgresql" => Passo(m) # Pragma
         /\ dialeto = "postgresql" /\ EmDia(m) => Migra(tr[m].prog, schema)
         /\ Passo(m) \in Comandos /\ (dialeto = "postgresql" => EmDia(m)) =>
               tr[m].pc + 1 \in 1..Len(tr[m].prog)
         /\ Passo(m) \in {Pragma, Commit} =>
               tr[m].pc = Len(tr[m].prog) /\ (dialeto = "postgresql" => EmDia(m))
  <1>1. tr[m] \in Transacoes /\ Migrando(m) /\ MigTipos /\ Esquema
    BY DEF MigIInv, MigTipos, Atores, Ator
  <1>2. tr[m].prog \in Seq(Passos) /\ Len(tr[m].prog) \in Nat
    BY <1>1 DEF Transacoes
  <1>3. Pragma # Commit /\ \A c \in Comandos : c # Pragma /\ c # Commit
    BY FazDosPassos
  <1>4. CASE dialeto = "postgresql" /\ EmDia(m)
    <2>1. Migra(tr[m].prog, schema)
      BY <1>1, <1>4, DeMigra DEF EmDia, MigTipos, Esquema
    <2>2. /\ tr[m].prog[Len(tr[m].prog)] = Commit
          /\ \A i \in 1..(Len(tr[m].prog) - 1) : tr[m].prog[i] \in Comandos
      BY <2>1 DEF Migra, Passa
    <2>3. tr[m].pc \in 1..Len(tr[m].prog)
      BY <1>4 DEF EmDia
    <2>4. CASE tr[m].pc = Len(tr[m].prog)
      <3>1. Passo(m) = Commit
        BY <2>2, <2>4 DEF Passo
      <3>2. tr[m].pc \in Nat \ {0} /\ tr[m].pc <= Len(tr[m].prog)
        BY <1>2, <2>3
      <3> QED
        BY <1>1, <1>2, <1>3, <1>4, <2>1, <2>4, <3>1, <3>2 DEF Passos
    <2>5. CASE tr[m].pc # Len(tr[m].prog)
      <3>1. tr[m].pc \in 1..(Len(tr[m].prog) - 1) /\ tr[m].pc + 1 \in 1..Len(tr[m].prog)
        BY <1>2, <2>3, <2>5
      <3> QED
        BY <1>1, <1>2, <1>3, <1>4, <2>1, <2>2, <2>3, <3>1 DEF Passo, Passos
    <2> QED
      BY <2>4, <2>5
  <1>5. CASE dialeto = "postgresql" /\ ~EmDia(m)
    <2>1. Atrasada(m)
      BY <1>1, <1>5 DEF Migrando
    <2>2. tr[m].pc = 1 /\ 1 \in 1..Len(tr[m].prog) /\ tr[m].prog[1] \in Comandos
      BY <2>1 DEF Atrasada
    <2> QED
      BY <1>1, <1>2, <1>3, <1>5, <2>2 DEF Passo, Passos
  <1>6. CASE dialeto # "postgresql"
    <2>1. PICK base : Avulsa(tr[m].prog, base)
      BY <1>1, <1>6 DEF Migrando, Aditiva
    <2>2. tr[m].pc \in 1..Len(tr[m].prog)
      BY <1>1, <1>6 DEF Migrando, Aditiva
    <2>3. /\ tr[m].prog[Len(tr[m].prog)] \in {Pragma, Commit}
          /\ \A i \in 1..(Len(tr[m].prog) - 1) : tr[m].prog[i] \in Comandos
      BY <2>1 DEF Avulsa, Soma
    <2>4. CASE tr[m].pc = Len(tr[m].prog)
      BY <1>1, <1>2, <1>3, <1>6, <2>2, <2>3, <2>4 DEF Passo, Passos
    <2>5. CASE tr[m].pc # Len(tr[m].prog)
      <3>1. tr[m].pc \in 1..(Len(tr[m].prog) - 1) /\ tr[m].pc + 1 \in 1..Len(tr[m].prog)
        BY <1>2, <2>2, <2>5
      <3> QED
        BY <1>1, <1>2, <1>3, <1>6, <2>2, <2>3, <3>1 DEF Passo, Passos
    <2> QED
      BY <2>4, <2>5
  <1> QED
    BY <1>4, <1>5, <1>6

LEMMA SemComuns == Migracoes \intersect Sessoes = {} /\ Atores = Migracoes \union Sessoes
  BY AtoresAssumption DEF Atores

LEMMA DeFazerFora ==
  ASSUME MigIInv, NEW x \in Atores, FazerFora(x)
  PROVE  MigIInv'
  <1> DEFINE r == [tr[x] EXCEPT !.pc = @ + 1, !.externo = TRUE]
  <1>1. /\ tr' = [tr EXCEPT ![x] = r] /\ UNCHANGED <<dialeto, schema>>
        /\ Ativa(x) /\ Passo(x).faz = "fora"
    BY DEF FazerFora
  <1>2. x \in Sessoes /\ x \notin Migracoes
    <2>1. x \notin Migracoes
      <3> SUFFICES ASSUME x \in Migracoes PROVE FALSE
        OBVIOUS
      <3>1. Passo(x) \in Comandos \union {Pragma, Commit}
        BY <1>1, DoPassoDeMigracao
      <3> QED
        BY <1>1, <3>1, FazDosPassos
    <2> QED
      BY <2>1, SemComuns
  <1>3. /\ tr[x] \in Transacoes /\ Servindo(x)
        /\ tr[x].pc \in Nat \ {0} /\ (Passo(x) # Commit => tr[x].pc + 1 \in 1..Len(tr[x].prog))
    BY <1>1, <1>2, DoPassoDeSessao
  <1>4. tr[x].pc + 1 \in 1..Len(tr[x].prog)
    BY <1>1, <1>3, FazDosPassos
  <1>5. /\ r \in Transacoes /\ r.fase = tr[x].fase /\ r.prog = tr[x].prog /\ r.tipo = tr[x].tipo
        /\ r.pc = tr[x].pc + 1 /\ r.tem = tr[x].tem /\ r.novo = tr[x].novo /\ r.externo
    <2> DEFINE k == tr[x].pc + 1
    <2>1. k \in Nat /\ r = [tr[x] EXCEPT !.pc = k, !.externo = TRUE]
      BY <1>3
    <2> HIDE DEF k, r
    <2>2. /\ r \in Transacoes /\ r.fase = tr[x].fase /\ r.prog = tr[x].prog /\ r.tipo = tr[x].tipo
          /\ r.pc = k /\ r.tem = tr[x].tem /\ r.novo = tr[x].novo /\ r.externo
      BY <1>3, <2>1 DEF Transacoes
    <2> QED
      BY <2>2 DEF k
  <1> HIDE DEF r
  <1>6. tr'[x] = r
    BY <1>1 DEF MigIInv, MigTipos
  <1>7. tr[x].fase = "ativa"
    BY <1>1 DEF Ativa
  <1>8. /\ Travas(tr[x].prog, tr[x].pc + 1) = Travas(tr[x].prog, tr[x].pc)
        /\ ForaDesde(tr[x].prog, tr[x].pc + 1)
    BY <1>1, <1>3, TravasMais DEF Passo
  <1>9. Servindo(x)'
    <2>1. \A j \in 1..((tr[x].pc + 1) - 1) : tr[x].prog[j].faz = "comando" => tr[x].prog[j].t \in schema
      <3>1. \A j \in 1..((tr[x].pc + 1) - 1) : j \in 1..(tr[x].pc - 1) \/ j = tr[x].pc
        BY <1>3
      <3>2. tr[x].prog[tr[x].pc].faz = "fora"
        BY <1>1 DEF Passo
      <3> QED
        BY <1>3, <3>1, <3>2 DEF Servindo
    <2> QED
      BY <1>1, <1>3, <1>4, <1>5, <1>6, <1>8, <2>1 DEF Servindo
  <1>10. Ator(x)'
    BY <1>2, <1>5, <1>6, <1>7, <1>9 DEF Ator, Ativa, Recusada, Vitimada
  <1>11. \A y \in Atores \ {x} : \A a \in r.tem, b \in tr[y].tem : a[1] = b[1] => b[2] \notin Conflita(a[2])
    BY <1>5 DEF MigIInv, Compativeis
  <1> QED
    BY <1>1, <1>5, <1>7, <1>10, <1>11, UmPassoSemSchema

LEMMA DeLerColunas ==
  ASSUME MigIInv, NEW x \in Atores, LerColunas(x)
  PROVE  MigIInv'
  <1> DEFINE q == FaltaAdicionar(schema)
             r == [tr[x] EXCEPT !.prog = q, !.pc = 1]
  <1>1. /\ tr' = [tr EXCEPT ![x] = r] /\ UNCHANGED <<dialeto, schema>>
        /\ Ativa(x) /\ Passo(x).faz = "pragma"
    BY DEF LerColunas
  <1>2. x \in Migracoes /\ x \notin Sessoes
    <2>1. x \notin Sessoes
      <3> SUFFICES ASSUME x \in Sessoes PROVE FALSE
        OBVIOUS
      <3>1. Passo(x) \in ComandosDeSessao \union {Fora, Commit}
        BY <1>1, DoPassoDeSessao
      <3> QED
        BY <1>1, <3>1, FazDosPassos DEF ComandosDeSessao
    <2> QED
      BY <2>1, SemComuns
  <1>3. /\ tr[x] \in Transacoes /\ Migrando(x) /\ Passo(x) \in Comandos \union {Pragma, Commit}
        /\ (dialeto = "postgresql" => Passo(x) # Pragma)
        /\ (Passo(x) \in {Pragma, Commit} => tr[x].pc = Len(tr[x].prog))
    BY <1>1, <1>2, DoPassoDeMigracao
  <1>4. Passo(x) = Pragma /\ dialeto # "postgresql" /\ tr[x].pc = Len(tr[x].prog) /\ Pragma # Commit
    BY <1>1, <1>3, FazDosPassos
  <1>5. Aditiva(x) /\ schema \in SUBSET Completo
    BY <1>3, <1>4 DEF Migrando, MigIInv, MigTipos
  <1>6. Tabelas \subseteq schema
    <2>1. PICK base : /\ Avulsa(tr[x].prog, base)
                      /\ base \union CriaAte(tr[x].prog, tr[x].pc - 1) \subseteq schema
      BY <1>5 DEF Aditiva
    <2>2. tr[x].prog[Len(tr[x].prog)] = Pragma
      BY <1>4 DEF Passo
    <2>3. Tabelas \subseteq base \union CriaAte(tr[x].prog, Len(tr[x].prog) - 1)
      BY <1>4, <2>1, <2>2 DEF Avulsa
    <2> QED
      BY <1>4, <2>1, <2>3
  <1>7. Avulsa(q, schema)
    BY <1>6, DeFaltaAdicionar
  <1> HIDE DEF q
  <1>8. q \in Seq(Passos) /\ 1 \in 1..Len(q)
    BY <1>7 DEF Avulsa
  <1>9. /\ r \in Transacoes /\ r.fase = tr[x].fase /\ r.prog = q /\ r.tipo = tr[x].tipo
        /\ r.pc = 1 /\ r.tem = tr[x].tem /\ r.novo = tr[x].novo
    BY <1>3, <1>8 DEF Transacoes
  <1> HIDE DEF r
  <1>10. tr'[x] = r
    BY <1>1 DEF MigIInv, MigTipos
  <1>11. tr[x].fase = "ativa"
    BY <1>1 DEF Ativa
  <1>12. Aditiva(x)'
    <2>1. schema \union CriaAte(q, 1 - 1) = schema
      BY SemTravas
    <2>2. tr[x].tem = {} /\ tr[x].novo = {}
      BY <1>5 DEF Aditiva
    <2>3. schema' = schema
      BY <1>1
    <2> QED
      BY <1>5, <1>7, <1>8, <1>9, <1>10, <2>1, <2>2, <2>3 DEF Aditiva
  <1>13. Migrando(x)'
    BY <1>1, <1>3, <1>4, <1>9, <1>10, <1>12 DEF Migrando
  <1>14. Ator(x)'
    BY <1>2, <1>9, <1>10, <1>11, <1>13 DEF Ator, Ativa, Completada, Vitimada
  <1>15. \A y \in Atores \ {x} : \A a \in r.tem, b \in tr[y].tem : a[1] = b[1] => b[2] \notin Conflita(a[2])
    BY <1>9 DEF MigIInv, Compativeis
  <1> QED
    BY <1>1, <1>9, <1>11, <1>14, <1>15, UmPassoSemSchema

(* A statement fails.                                                        *)
LEMMA DeFalhar ==
  ASSUME MigIInv, NEW x \in Atores, Ativa(x), NEW faltou \in SUBSET Completo, Falhar(x, faltou),
         UNCHANGED <<dialeto, schema>>,
         x \in Sessoes /\ tr[x].externo =>
            \/ tr[x].tipo = "emissao" /\ faltou = {"protocolo"}
            \/ tr[x].tipo = "poller" /\ faltou = {"webhook_logs"}
            \/ tr[x].tipo = "certificado",
         x \in Migracoes =>
            \E outra \in Migracoes \ {x} :
               tr[outra].fase # "livre" /\ (dialeto = "postgresql" => tr[outra].fase = "ok")
  PROVE  MigIInv'
  <1> DEFINE r == [tr[x] EXCEPT !.fase = "erro", !.prog = <<>>, !.pc = 1,
                                !.tem = {}, !.pedido = {}, !.novo = {}, !.faltou = faltou]
  <1>1. tr' = [tr EXCEPT ![x] = r]
    BY DEF Falhar
  <1>2. tr[x] \in Transacoes /\ tr[x].fase = "ativa" /\ MigTipos
    BY DEF MigIInv, MigTipos, Ativa
  <1>3. /\ r \in Transacoes /\ r.fase = "erro" /\ r.tem = {} /\ r.novo = {} /\ r.faltou = faltou
        /\ r.externo = tr[x].externo /\ r.tipo = tr[x].tipo
    <2> DEFINE f == "erro"
               q == <<>>
    <2>1. f \in Fases /\ q \in Seq(Passos)
      BY DEF Fases
    <2>2. r = [tr[x] EXCEPT !.fase = f, !.prog = q, !.pc = 1,
                            !.tem = {}, !.pedido = {}, !.novo = {}, !.faltou = faltou]
      OBVIOUS
    <2> HIDE DEF f, q, r
    <2>3. /\ r \in Transacoes /\ r.fase = f /\ r.tem = {} /\ r.novo = {} /\ r.faltou = faltou
          /\ r.externo = tr[x].externo /\ r.tipo = tr[x].tipo
      BY <1>2, <2>1, <2>2 DEF Transacoes
    <2> QED
      BY <2>3 DEF f
  <1> HIDE DEF r
  <1>4. tr'[x] = r /\ \A y \in Atores \ {x} : tr'[y] = tr[y]
    BY <1>1, <1>2 DEF MigTipos
  <1>5. x \in Sessoes => Recusada(x)'
    BY <1>3, <1>4 DEF Recusada
  <1>6. x \in Migracoes => Completada(x)'
    <2> SUFFICES ASSUME x \in Migracoes PROVE Completada(x)'
      OBVIOUS
    <2>1. PICK outra \in Migracoes \ {x} :
             tr[outra].fase # "livre" /\ (dialeto = "postgresql" => tr[outra].fase = "ok")
      OBVIOUS
    <2>2. tr'[outra] = tr[outra]
      BY <1>4, <2>1, SemComuns
    <2>3. dialeto' = dialeto
      OBVIOUS
    <2> QED
      BY <1>3, <1>4, <2>1, <2>2, <2>3 DEF Completada
  <1>7. Ator(x)'
    BY <1>3, <1>4, <1>5, <1>6 DEF Ator, Ativa, Vitimada
  <1>8. \A y \in Atores \ {x} : \A a \in r.tem, b \in tr[y].tem : a[1] = b[1] => b[2] \notin Conflita(a[2])
    BY <1>3
  <1> QED
    BY <1>1, <1>2, <1>3, <1>7, <1>8, UmPassoSemSchema

(* What a request has authenticated is there to be used.                     *)
LEMMA DaAutenticada ==
  ASSUME MigIInv, NEW s \in Sessoes, Ativa(s), Autenticada(tr[s].prog, tr[s].pc)
  PROVE  {"api_clients", "empresas", "notas_fiscais"} \subseteq schema
  <1>1. Servindo(s) /\ tr[s].pc \in Nat \ {0}
    BY DoPassoDeSessao
  <1>2. 1 \in 1..(tr[s].pc - 1) /\ tr[s].prog[1].faz = "comando" /\ tr[s].prog[1].t = "api_clients"
    BY <1>1 DEF Autenticada
  <1>3. "api_clients" \in schema
    BY <1>1, <1>2 DEF Servindo
  <1> QED
    BY <1>1, <1>3 DEF Servindo, MigIInv, Esquema, DeUso

LEMMA DoErroDeSessao ==
  ASSUME MigIInv, NEW s \in Sessoes, EmComando(s), tr[s].externo, NEW faltou,
         \/ SemNome(s) /\ faltou = {Passo(s).t}
         \/ /\ ~SemNome(s) /\ faltou = Passo(s).requer \ Visivel(s)
            /\ ~(Passo(s).requer \subseteq Visivel(s))
  PROVE  \/ tr[s].tipo = "emissao" /\ faltou = {"protocolo"}
         \/ tr[s].tipo = "poller" /\ faltou = {"webhook_logs"}
         \/ tr[s].tipo = "certificado"
  <1> DEFINE p == tr[s].prog
             k == tr[s].pc
             c == Passo(s)
  <1>1. /\ Ativa(s) /\ c.faz = "comando"
    BY DEF EmComando
  <1>2. /\ tr[s] \in Transacoes /\ Servindo(s) /\ DeSessao(p) /\ k \in Nat \ {0} /\ k <= Len(p)
        /\ Len(p) \in Nat /\ c \in ComandosDeSessao \union {Fora, Commit}
    BY <1>1, DoPassoDeSessao
  <1>3. c \in ComandosDeSessao /\ ~c.nova
    BY <1>1, <1>2, FazDosPassos DEF ComandosDeSessao
  <1>4. Visivel(s) = schema
    BY <1>2 DEF Visivel, Servindo
  <1>5. SemNome(s) <=> c.t \notin schema
    BY <1>3, <1>4 DEF SemNome
  <1>6. /\ tr[s].tipo \in Tipos /\ p \in Programas(tr[s].tipo) /\ ForaDesde(p, k)
        /\ \A j \in 1..(k - 1) : p[j].faz = "comando" => p[j].t \in schema
    BY <1>2 DEF Servindo
  <1>7. k \in 1..Len(p) /\ c = p[k]
    BY <1>2 DEF Passo
  <1>8. /\ tr[s].tipo = "emissao" => Emite(p)
        /\ tr[s].tipo = "evento" => Registra(p)
        /\ tr[s].tipo = "poller" => Decide(p)
    BY <1>6, DosProgramas
  <1>9. Autenticada(p, k) => {"api_clients", "empresas", "notas_fiscais"} \subseteq schema
    BY <1>1, DaAutenticada
  <1> HIDE DEF p, k, c
  <1>10. CASE tr[s].tipo = "emissao"
    <2>1. /\ Autenticada(p, k) /\ c.t \in {"empresas", "notas_fiscais"}
          /\ c.requer \subseteq {"empresas", "notas_fiscais", "protocolo"}
      BY <1>1, <1>6, <1>7, <1>8, <1>10 DEF Emite
    <2>2. ~SemNome(s)
      BY <1>5, <1>9, <2>1
    <2>3. faltou = c.requer \ schema /\ ~(c.requer \subseteq schema)
      BY <1>4, <2>2 DEF c
    <2>4. faltou = {"protocolo"}
      BY <1>9, <2>1, <2>3
    <2> QED
      BY <1>10, <2>4
  <1>11. CASE tr[s].tipo = "evento"
    <2>1. Autenticada(p, k) /\ c.t = "notas_fiscais" /\ c.requer = {"notas_fiscais"}
      BY <1>1, <1>6, <1>7, <1>8, <1>11 DEF Registra
    <2>2. ~SemNome(s) /\ c.requer \subseteq schema
      BY <1>5, <1>9, <2>1
    <2> QED
      BY <1>4, <2>2 DEF c
  <1>12. CASE tr[s].tipo = "poller"
    <2>1. /\ k > 2 /\ p[1].faz = "comando" /\ p[2].faz = "comando"
          /\ p[1].t = "notas_fiscais" /\ p[2].t = "empresas"
          /\ c.t \in {"empresas", "notas_fiscais", "webhook_logs"} /\ c.requer = {c.t}
      BY <1>1, <1>6, <1>7, <1>8, <1>12 DEF Decide
    <2>2. 1 \in 1..(k - 1) /\ 2 \in 1..(k - 1)
      BY <1>7, <2>1, <1>2 DEF k
    <2>3. "notas_fiscais" \in schema /\ "empresas" \in schema
      BY <1>6, <2>1, <2>2
    <2>4. \/ SemNome(s) /\ faltou = {c.t}
          \/ ~SemNome(s) /\ faltou = c.requer \ schema /\ ~(c.requer \subseteq schema)
      BY <1>4 DEF c
    <2>5. c.t \notin schema /\ faltou = {c.t}
      BY <1>5, <2>1, <2>4
    <2> QED
      BY <1>12, <2>1, <2>3, <2>5
  <1> QED
    BY <1>6, <1>10, <1>11, <1>12 DEF Tipos

(* A migration that is up to date fails at nothing.                          *)
LEMMA DoEmDia ==
  ASSUME MigIInv, NEW m \in Migracoes, EmComando(m), dialeto = "postgresql", EmDia(m)
  PROVE  /\ ~SemNome(m) /\ Passo(m).requer \subseteq Visivel(m)
         /\ tr[m].pc \in 1..(Len(tr[m].prog) - 1)
         /\ Passa(Passo(m), Visivel(m), schema)
  <1>1. Ativa(m) /\ Passo(m).faz = "comando"
    BY DEF EmComando
  <1>2. /\ tr[m].pc \in Nat \ {0} /\ Len(tr[m].prog) \in Nat
        /\ Passo(m) \in Comandos \union {Pragma, Commit} /\ Migra(tr[m].prog, schema)
        /\ (Passo(m) \in Comandos /\ (dialeto = "postgresql" => EmDia(m)) =>
               tr[m].pc + 1 \in 1..Len(tr[m].prog))
    BY <1>1, DoPassoDeMigracao
  <1>3. Passo(m) \in Comandos
    BY <1>1, <1>2, FazDosPassos
  <1>4. tr[m].pc \in 1..(Len(tr[m].prog) - 1)
    BY <1>2, <1>3
  <1>5. Visivel(m) = schema \union CriaAte(tr[m].prog, tr[m].pc - 1)
    BY DEF Visivel, EmDia
  <1>6. Passa(Passo(m), Visivel(m), schema)
    BY <1>2, <1>4, <1>5 DEF Migra, Passo
  <1>7. schema \subseteq Visivel(m)
    BY <1>5
  <1> QED
    BY <1>4, <1>6, <1>7 DEF Passa, SemNome

LEMMA DoErroDeMigracao ==
  ASSUME MigIInv, NEW m \in Migracoes, EmComando(m),
         SemNome(m) \/ ~(Passo(m).requer \subseteq Visivel(m))
  PROVE  \E outra \in Migracoes \ {m} :
            tr[outra].fase # "livre" /\ (dialeto = "postgresql" => tr[outra].fase = "ok")
  <1>1. Ativa(m) /\ Passo(m).faz = "comando"
    BY DEF EmComando
  <1>2. /\ Migrando(m) /\ tr[m].pc \in Nat \ {0} /\ tr[m].pc <= Len(tr[m].prog)
        /\ Len(tr[m].prog) \in Nat /\ Passo(m) \in Comandos \union {Pragma, Commit}
        /\ (Passo(m) \in Comandos /\ (dialeto = "postgresql" => EmDia(m)) =>
               tr[m].pc + 1 \in 1..Len(tr[m].prog))
    BY <1>1, DoPassoDeMigracao
  <1>3. Passo(m) \in Comandos
    BY <1>1, <1>2, FazDosPassos
  <1>4. CASE dialeto = "postgresql"
    <2>1. ~EmDia(m)
      BY <1>4, DoEmDia
    <2>2. Atrasada(m)
      BY <1>2, <1>4, <2>1 DEF Migrando
    <2>3. PICK outra \in Migracoes \ {m} : tr[outra].fase = "ok"
      BY <2>2 DEF Atrasada
    <2>4. tr[outra].fase # "livre"
      BY <2>3
    <2> QED
      BY <2>3, <2>4
  <1>5. CASE dialeto # "postgresql"
    <2>1. Aditiva(m)
      BY <1>2, <1>5 DEF Migrando
    <2> DEFINE p == tr[m].prog
               k == tr[m].pc
               c == Passo(m)
    <2>2. PICK base \in SUBSET Completo :
             /\ Avulsa(p, base) /\ base \union CriaAte(p, k - 1) \subseteq schema
             /\ Sozinha(m) => schema = base \union CriaAte(p, k - 1)
      BY <2>1 DEF Aditiva
    <2>3. k \in 1..(Len(p) - 1)
      BY <1>2, <1>3, <1>5
    <2>4. Soma(c, base \union CriaAte(p, k - 1))
      BY <2>2, <2>3 DEF Avulsa, Passo
    <2>5. Visivel(m) = schema
      BY <2>1 DEF Visivel, Aditiva
    <2> HIDE DEF p, k, c
    <2>6. c.requer \subseteq schema /\ (~c.nova => c.t \in schema)
      BY <2>2, <2>4 DEF Soma
    <2>7. c.nova /\ c.cria \intersect schema # {}
      BY <2>5, <2>6 DEF SemNome, c
    <2>8. ~Sozinha(m)
      BY <2>2, <2>4, <2>7 DEF Soma
    <2> QED
      BY <1>5, <2>8 DEF Sozinha
  <1> QED
    BY <1>4, <1>5

(* A lock is taken when nothing held conflicts with it.                      *)
LEMMA DaTravaNova ==
  ASSUME MigIInv, NEW x \in Atores, EmComando(x), ~SemNome(x), Espera(x) = {},
         NEW y \in Atores \ {x},
         NEW a \in tr[x].tem \union {<<Passo(x).t, Passo(x).modo>>}, NEW b \in tr[y].tem, a[1] = b[1]
  PROVE  b[2] \notin Conflita(a[2])
  <1>1. CASE a \in tr[x].tem
    BY <1>1 DEF MigIInv, Compativeis
  <1>2. CASE a = <<Passo(x).t, Passo(x).modo>>
    <2>1. Segura(tr[y].tem, x) = {}
      BY DEF Espera
    <2> QED
      BY <1>2, <2>1 DEF Segura
  <1> QED
    BY <1>1, <1>2

(* What a record becomes when its statement is done.                         *)
Feito(r, t, c) ==
    r = [t EXCEPT !.pc = @ + 1, !.tem = @ \union {<<c.t, c.modo>>}, !.novo = @ \union c.cria]

LEMMA DoFeito ==
  ASSUME NEW t \in Transacoes, NEW c \in Comandos, NEW r, Feito(r, t, c)
  PROVE  /\ r \in Transacoes /\ r.fase = t.fase /\ r.prog = t.prog /\ r.tipo = t.tipo
         /\ r.pc = t.pc + 1 /\ r.tem = t.tem \union {<<c.t, c.modo>>}
         /\ r.novo = t.novo \union c.cria /\ r.externo = t.externo
  <1> DEFINE k == t.pc + 1
             tem == t.tem \union {<<c.t, c.modo>>}
             novo == t.novo \union c.cria
  <1>1. t.pc \in Nat /\ t.tem \in SUBSET (Tabelas \X Modos) /\ t.novo \in SUBSET Completo
    BY DEF Transacoes
  <1>2. c.t \in Tabelas /\ c.modo \in Modos /\ c.cria \in SUBSET Completo
    BY DEF Comandos
  <1>3. k \in Nat /\ tem \in SUBSET (Tabelas \X Modos) /\ novo \in SUBSET Completo
    BY <1>1, <1>2
  <1>4. r = [t EXCEPT !.pc = k, !.tem = tem, !.novo = novo]
    BY DEF Feito
  <1> HIDE DEF k, tem, novo
  <1>5. /\ r \in Transacoes /\ r.fase = t.fase /\ r.prog = t.prog /\ r.tipo = t.tipo
        /\ r.pc = k /\ r.tem = tem /\ r.novo = novo /\ r.externo = t.externo
    BY <1>3, <1>4 DEF Transacoes
  <1> QED
    BY <1>5 DEF k, tem, novo

LEMMA DeExecutarSessao ==
  ASSUME MigIInv, NEW s \in Sessoes, EmComando(s), ~SemNome(s), Passo(s).requer \subseteq Visivel(s),
         NEW r, tr'[s] = r, UNCHANGED <<dialeto, schema>>, Feito(r, tr[s], Passo(s))
  PROVE  r \in Transacoes /\ Ator(s)'
  <1>1. Ativa(s) /\ Passo(s).faz = "comando" /\ tr[s].fase = "ativa"
    BY DEF EmComando, Ativa
  <1>2. /\ tr[s] \in Transacoes /\ Servindo(s) /\ tr[s].pc \in Nat \ {0}
        /\ Passo(s) \in ComandosDeSessao \union {Fora, Commit}
        /\ (Passo(s) # Commit => tr[s].pc + 1 \in 1..Len(tr[s].prog))
    BY <1>1, DoPassoDeSessao
  <1>3. Passo(s) \in ComandosDeSessao /\ tr[s].pc + 1 \in 1..Len(tr[s].prog)
    BY <1>1, <1>2, FazDosPassos
  <1>4. Passo(s) \in Comandos /\ Passo(s).cria = {} /\ ~Passo(s).nova
    BY <1>3 DEF ComandosDeSessao
  <1>5. /\ r \in Transacoes /\ r.fase = tr[s].fase /\ r.prog = tr[s].prog /\ r.tipo = tr[s].tipo
        /\ r.pc = tr[s].pc + 1 /\ r.tem = tr[s].tem \union {<<Passo(s).t, Passo(s).modo>>}
        /\ r.novo = tr[s].novo \union Passo(s).cria /\ r.externo = tr[s].externo
    <2>1. tr[s] \in Transacoes /\ Passo(s) \in Comandos
      BY <1>2, <1>4
    <2> QED
      BY <2>1, DoFeito
  <1>6. /\ Travas(tr[s].prog, tr[s].pc + 1)
             = Travas(tr[s].prog, tr[s].pc) \union {<<Passo(s).t, Passo(s).modo>>}
        /\ ForaDesde(tr[s].prog, tr[s].pc + 1) <=> ForaDesde(tr[s].prog, tr[s].pc)
    BY <1>1, <1>2, TravasMais DEF Passo
  <1>7. Passo(s).t \in schema
    BY <1>2, <1>4 DEF SemNome, Visivel, Servindo
  <1>8. \A j \in 1..((tr[s].pc + 1) - 1) : tr[s].prog[j].faz = "comando" => tr[s].prog[j].t \in schema
    <2>1. \A j \in 1..((tr[s].pc + 1) - 1) : j \in 1..(tr[s].pc - 1) \/ j = tr[s].pc
      BY <1>2
    <2> QED
      BY <1>2, <1>7, <2>1 DEF Servindo, Passo
  <1>9. Servindo(s)'
    <2>1. /\ dialeto' = dialeto /\ schema' = schema /\ r.novo = {}
          /\ r.tem = Travas(r.prog, r.pc) /\ (r.externo <=> ForaDesde(r.prog, r.pc))
      BY <1>2, <1>4, <1>5, <1>6 DEF Servindo
    <2> QED
      BY <1>2, <1>3, <1>5, <1>8, <2>1 DEF Servindo
  <1>10. s \notin Migracoes
    BY SemComuns
  <1> QED
    BY <1>1, <1>5, <1>9, <1>10 DEF Ator, Ativa, Recusada, Vitimada

LEMMA DeExecutarMigracao ==
  ASSUME MigIInv, NEW m \in Migracoes, EmComando(m), ~SemNome(m), dialeto = "postgresql",
         NEW r, tr'[m] = r, UNCHANGED <<dialeto, schema>>, Feito(r, tr[m], Passo(m))
  PROVE  r \in Transacoes /\ Ator(m)'
  <1>1. Ativa(m) /\ Passo(m).faz = "comando" /\ tr[m].fase = "ativa"
    BY DEF EmComando, Ativa
  <1>2. /\ tr[m] \in Transacoes /\ Migrando(m) /\ tr[m].pc \in Nat \ {0}
        /\ Passo(m) \in Comandos \union {Pragma, Commit}
        /\ (Passo(m) \in Comandos /\ (dialeto = "postgresql" => EmDia(m)) =>
               tr[m].pc + 1 \in 1..Len(tr[m].prog))
    BY <1>1, DoPassoDeMigracao
  <1>3. Passo(m) \in Comandos
    BY <1>1, <1>2, FazDosPassos
  <1>4. EmDia(m)
    <2>1. ~Atrasada(m)
      <3> SUFFICES ASSUME Atrasada(m) PROVE FALSE
        OBVIOUS
      <3>1. Passo(m) = tr[m].prog[1]
        BY DEF Atrasada, Passo
      <3> QED
        BY <3>1 DEF Atrasada, SemNome
    <2> QED
      BY <1>2, <2>1 DEF Migrando
  <1>5. tr[m].pc + 1 \in 1..Len(tr[m].prog)
    BY <1>2, <1>3, <1>4
  <1>6. /\ r \in Transacoes /\ r.fase = tr[m].fase /\ r.prog = tr[m].prog /\ r.tipo = tr[m].tipo
        /\ r.pc = tr[m].pc + 1 /\ r.tem = tr[m].tem \union {<<Passo(m).t, Passo(m).modo>>}
        /\ r.novo = tr[m].novo \union Passo(m).cria /\ r.externo = tr[m].externo
    BY <1>2, <1>3, DoFeito
  <1>7. Travas(tr[m].prog, tr[m].pc + 1)
             = Travas(tr[m].prog, tr[m].pc) \union {<<Passo(m).t, Passo(m).modo>>}
    BY <1>1, <1>2, TravasMais DEF Passo
  <1>8. CriaAte(tr[m].prog, (tr[m].pc + 1) - 1) = CriaAte(tr[m].prog, tr[m].pc - 1) \union Passo(m).cria
    <2>1. tr[m].pc - 1 \in Nat /\ (tr[m].pc - 1) + 1 = tr[m].pc /\ (tr[m].pc + 1) - 1 = tr[m].pc
      BY <1>2
    <2>2. CriaAte(tr[m].prog, (tr[m].pc - 1) + 1)
             = CriaAte(tr[m].prog, tr[m].pc - 1) \union tr[m].prog[(tr[m].pc - 1) + 1].cria
      BY <2>1, CriaAteMais
    <2> QED
      BY <2>1, <2>2 DEF Passo
  <1>9. EmDia(m)'
    <2>1. schema' = schema
      OBVIOUS
    <2>2. r.prog = NoPostgres(schema)
      BY <1>4, <1>6 DEF EmDia
    <2>3. r.pc \in 1..Len(r.prog)
      BY <1>5, <1>6
    <2>4. r.tem = Travas(r.prog, r.pc) /\ r.novo = CriaAte(r.prog, r.pc - 1)
      BY <1>4, <1>6, <1>7, <1>8 DEF EmDia
    <2> QED
      BY <2>1, <2>2, <2>3, <2>4 DEF EmDia
  <1>10. m \notin Sessoes
    BY SemComuns
  <1>11. Migrando(m)'
    BY <1>2, <1>6, <1>9 DEF Migrando
  <1> QED
    BY <1>1, <1>6, <1>10, <1>11 DEF Ator, Ativa, Completada, Vitimada

(* On SQLite what it makes is in the schema at once.                         *)
LEMMA DeExecutarNoSqlite ==
  ASSUME MigIInv, NEW m \in Migracoes, EmComando(m), dialeto = "sqlite", dialeto' = dialeto,
         ~SemNome(m), schema' = schema \union Passo(m).cria, tr' = [tr EXCEPT ![m].pc = @ + 1]
  PROVE  MigIInv'
  <1> DEFINE r == [tr[m] EXCEPT !.pc = @ + 1]
             p == tr[m].prog
             k == tr[m].pc
             c == Passo(m)
  <1>1. Ativa(m) /\ c.faz = "comando" /\ tr[m].fase = "ativa" /\ m \in Atores /\ dialeto # "postgresql"
    BY SemComuns DEF EmComando, Ativa
  <1>2. /\ tr[m] \in Transacoes /\ Migrando(m) /\ k \in Nat \ {0}
        /\ c \in Comandos \union {Pragma, Commit}
        /\ (c \in Comandos /\ (dialeto = "postgresql" => EmDia(m)) => k + 1 \in 1..Len(p))
    BY <1>1, DoPassoDeMigracao
  <1>3. c \in Comandos /\ k + 1 \in 1..Len(p)
    BY <1>1, <1>2, FazDosPassos
  <1>4. MigTipos /\ Esquema /\ \A x \in Migracoes : Ator(x)
    BY SemComuns DEF MigIInv
  <1>5. tr' = [tr EXCEPT ![m] = r]
    BY <1>1, <1>4 DEF MigTipos
  <1>6. /\ r \in Transacoes /\ r.fase = "ativa" /\ r.prog = p /\ r.tipo = tr[m].tipo
        /\ r.pc = k + 1 /\ r.tem = tr[m].tem /\ r.novo = tr[m].novo
    <2> DEFINE n == tr[m].pc + 1
    <2>1. n \in Nat /\ r = [tr[m] EXCEPT !.pc = n]
      BY <1>2
    <2> HIDE DEF n, r
    <2>2. /\ r \in Transacoes /\ r.fase = tr[m].fase /\ r.prog = p /\ r.tipo = tr[m].tipo
          /\ r.pc = n /\ r.tem = tr[m].tem /\ r.novo = tr[m].novo
      BY <1>2, <2>1 DEF Transacoes
    <2> QED
      BY <1>1, <2>2 DEF n
  <1> HIDE DEF r
  <1>7. tr'[m] = r
    BY <1>1, <1>4, <1>5 DEF MigTipos
  <1>8. Aditiva(m)
    BY <1>1, <1>2 DEF Migrando
  <1>9. PICK base \in SUBSET Completo :
           /\ Avulsa(p, base) /\ base \union CriaAte(p, k - 1) \subseteq schema
           /\ Sozinha(m) => schema = base \union CriaAte(p, k - 1)
    BY <1>8 DEF Aditiva
  <1>10. Soma(c, base \union CriaAte(p, k - 1))
    <2>1. k \in 1..(Len(p) - 1)
      <3>1. Len(p) \in Nat
        BY <1>2 DEF Transacoes
      <3> QED
        BY <1>2, <1>3, <3>1
    <2> QED
      BY <1>9, <2>1 DEF Avulsa, Passo
  <1>11. CriaAte(p, (k + 1) - 1) = CriaAte(p, k - 1) \union c.cria
    <2>1. k - 1 \in Nat /\ (k - 1) + 1 = k /\ (k + 1) - 1 = k
      BY <1>2
    <2>2. CriaAte(p, (k - 1) + 1) = CriaAte(p, k - 1) \union p[(k - 1) + 1].cria
      BY <2>1, CriaAteMais
    <2> QED
      BY <2>1, <2>2 DEF Passo
  <1> HIDE DEF p, k, c
  <1>12. schema' = schema \union c.cria /\ c.cria \subseteq Completo
    BY <1>3 DEF Comandos, c
  <1>13. /\ base \union CriaAte(p, (k + 1) - 1) \subseteq schema'
         /\ Sozinha(m) => schema' = base \union CriaAte(p, (k + 1) - 1)
    BY <1>9, <1>11, <1>12
  <1>14. Sozinha(m)' => Sozinha(m)
    BY <1>4, <1>5 DEF Sozinha, MigTipos, Atores
  <1>15. Aditiva(m)'
    <2>1. tr[m].tem = {} /\ tr[m].novo = {}
      BY <1>8 DEF Aditiva
    <2>2. r.prog = p /\ r.pc = k + 1 /\ r.tem = {} /\ r.novo = {}
      BY <1>6, <2>1
    <2> QED
      BY <1>3, <1>7, <1>9, <1>13, <1>14, <2>2 DEF Aditiva
  <1>16. Migrando(m)'
    BY <1>1, <1>2, <1>6, <1>7, <1>15 DEF Migrando
  <1>17. m \notin Sessoes
    BY SemComuns
  <1>18. Ator(m)'
    BY <1>6, <1>7, <1>16, <1>17 DEF Ator, Ativa, Completada, Vitimada
  <1>19. Esquema'
    <2>1. \A t \in Tabelas : Traz(t) \intersect c.cria # {} => t \in c.cria \union schema
      BY <1>9, <1>10 DEF Soma
    <2>2. \A t \in Tabelas : Traz(t) \intersect schema # {} => t \in schema
      BY <1>4 DEF Esquema, SoComATabela
    <2>3. SoComATabela(schema')
      BY <1>12, <2>1, <2>2 DEF SoComATabela
    <2>4. dialeto' # "postgresql"
      BY <1>1
    <2> QED
      BY <2>3, <2>4 DEF Esquema
  <1>20. ASSUME NEW o \in Migracoes \ {m}, Ativa(o)
         PROVE  Migrando(o)'
    <2>1. Migrando(o) /\ o \in Migracoes /\ o # m
      BY <1>4, <1>20 DEF Ator
    <2>2. /\ schema \subseteq schema' /\ tr[m].fase \in {"livre", "ativa"} /\ r.fase # "livre"
          /\ schema' = schema \/ (dialeto = "sqlite" /\ m \in Migracoes)
      BY <1>1, <1>6, <1>12
    <2> HIDE DEF MigIInv
    <2> QED
      BY <1>1, <1>4, <1>5, <1>6, <2>1, <2>2, OutraMigracaoFica
  <1>21. \A y \in Atores \ {m} : \A a \in r.tem, b \in tr[y].tem : a[1] = b[1] => b[2] \notin Conflita(a[2])
    <2>1. r.tem = {}
      BY <1>6, <1>8 DEF Aditiva
    <2> QED
      BY <2>1
  <1>22. schema \subseteq schema' /\ schema' \in SUBSET Completo
    BY <1>4, <1>12 DEF MigTipos
  <1> QED
    BY <1>1, <1>5, <1>6, <1>18, <1>19, <1>20, <1>21, <1>22, UmPasso

LEMMA DoComando ==
  ASSUME MigIInv, NEW x \in Atores, EmComando(x)
  PROVE  Passo(x) \in Comandos /\ Passo(x).t \in Completo /\ Passo(x).requer \subseteq Completo
  <1>1. Ativa(x) /\ Passo(x).faz = "comando"
    BY DEF EmComando
  <1>2. Passo(x) \in Passos
    BY <1>1, DoPassoDeSessao, DoPassoDeMigracao, SemComuns
  <1>3. Passo(x) \in Comandos
    BY <1>1, <1>2, FazDosPassos
  <1> QED
    BY <1>3, Conjuntos DEF Comandos

LEMMA DeExecutar ==
  ASSUME MigIInv, NEW x \in Atores, Executar(x)
  PROVE  MigIInv'
  <1>1. EmComando(x) /\ Ativa(x) /\ dialeto' = dialeto /\ tr[x].fase = "ativa"
    BY DEF Executar, EmComando, Ativa
  <1>2. Passo(x) \in Comandos /\ Passo(x).t \in Completo /\ Passo(x).requer \subseteq Completo
    BY <1>1, DoComando
  <1>3. CASE SemNome(x) /\ Falhar(x, {Passo(x).t}) /\ UNCHANGED schema
    <2> DEFINE faltou == {Passo(x).t}
    <2>1. faltou \in SUBSET Completo /\ Falhar(x, faltou) /\ UNCHANGED <<dialeto, schema>>
      BY <1>1, <1>2, <1>3
    <2>2. SemNome(x) /\ faltou = {Passo(x).t}
      BY <1>3
    <2> HIDE DEF faltou
    <2>3. x \in Sessoes /\ tr[x].externo =>
            \/ tr[x].tipo = "emissao" /\ faltou = {"protocolo"}
            \/ tr[x].tipo = "poller" /\ faltou = {"webhook_logs"}
            \/ tr[x].tipo = "certificado"
      BY <1>1, <2>2, DoErroDeSessao
    <2>4. x \in Migracoes =>
            \E outra \in Migracoes \ {x} :
               tr[outra].fase # "livre" /\ (dialeto = "postgresql" => tr[outra].fase = "ok")
      BY <1>1, <2>2, DoErroDeMigracao
    <2> QED
      BY <1>1, <2>1, <2>3, <2>4, DeFalhar
  <1>4. CASE /\ ~SemNome(x)
             /\ ~(Passo(x).requer \subseteq Visivel(x))
             /\ Falhar(x, Passo(x).requer \ Visivel(x)) /\ UNCHANGED schema
    <2> DEFINE faltou == Passo(x).requer \ Visivel(x)
    <2>1. faltou \in SUBSET Completo /\ Falhar(x, faltou) /\ UNCHANGED <<dialeto, schema>>
      BY <1>1, <1>2, <1>4
    <2>2. /\ ~SemNome(x) /\ faltou = Passo(x).requer \ Visivel(x)
          /\ ~(Passo(x).requer \subseteq Visivel(x))
      BY <1>4
    <2> HIDE DEF faltou
    <2>3. x \in Sessoes /\ tr[x].externo =>
            \/ tr[x].tipo = "emissao" /\ faltou = {"protocolo"}
            \/ tr[x].tipo = "poller" /\ faltou = {"webhook_logs"}
            \/ tr[x].tipo = "certificado"
      BY <1>1, <2>2, DoErroDeSessao
    <2>4. x \in Migracoes =>
            \E outra \in Migracoes \ {x} :
               tr[outra].fase # "livre" /\ (dialeto = "postgresql" => tr[outra].fase = "ok")
      BY <1>1, <2>2, DoErroDeMigracao
    <2> QED
      BY <1>1, <2>1, <2>3, <2>4, DeFalhar
  <1>5. CASE /\ ~SemNome(x) /\ dialeto = "sqlite" /\ schema' = schema \union Passo(x).cria
             /\ tr' = [tr EXCEPT ![x].pc = @ + 1]
    <2>1. x \in Migracoes
      <3> SUFFICES ASSUME x \in Sessoes PROVE FALSE
        BY SemComuns
      <3>1. dialeto = "postgresql"
        BY <1>1, DoPassoDeSessao DEF Servindo
      <3> QED
        BY <1>5, <3>1
    <2> QED
      BY <1>1, <1>5, <2>1, DeExecutarNoSqlite
  <1>6. CASE /\ ~SemNome(x) /\ Espera(x) = {} /\ Passo(x).requer \subseteq Visivel(x)
             /\ dialeto # "sqlite" /\ UNCHANGED schema
             /\ tr' = [tr EXCEPT
                         ![x] = [tr[x] EXCEPT
                                   !.pc = @ + 1,
                                   !.tem = @ \union {<<Passo(x).t, Passo(x).modo>>},
                                   !.novo = @ \union Passo(x).cria]]
    <2> DEFINE r == [tr[x] EXCEPT !.pc = @ + 1,
                                  !.tem = @ \union {<<Passo(x).t, Passo(x).modo>>},
                                  !.novo = @ \union Passo(x).cria]
    <2>1. tr' = [tr EXCEPT ![x] = r] /\ Feito(r, tr[x], Passo(x))
      BY <1>6 DEF Feito
    <2> HIDE DEF r
    <2>2. UNCHANGED <<dialeto, schema>> /\ tr'[x] = r /\ dialeto = "postgresql"
      BY <1>1, <1>6, <2>1 DEF MigIInv, MigTipos
    <2>3. r \in Transacoes /\ Ator(x)'
      <3>1. CASE x \in Sessoes
        BY <1>1, <1>6, <2>1, <2>2, <3>1, DeExecutarSessao
      <3>2. CASE x \in Migracoes
        BY <1>1, <1>6, <2>1, <2>2, <3>2, DeExecutarMigracao
      <3> QED
        BY <3>1, <3>2, SemComuns
    <2>4. r.fase = "ativa" /\ r.tem = tr[x].tem \union {<<Passo(x).t, Passo(x).modo>>}
      <3>1. tr[x] \in Transacoes
        BY DEF MigIInv, MigTipos
      <3> QED
        BY <1>1, <1>2, <2>1, <3>1, DoFeito
    <2>5. \A y \in Atores \ {x} : \A a \in r.tem, b \in tr[y].tem :
             a[1] = b[1] => b[2] \notin Conflita(a[2])
      BY <1>1, <1>6, <2>4, DaTravaNova
    <2> QED
      BY <1>1, <2>1, <2>2, <2>3, <2>4, <2>5, UmPassoSemSchema
  <1>7. Espera(x) \union EsperaPedido(x) = {} => Espera(x) = {}
    OBVIOUS
  <1> QED
    BY <1>3, <1>4, <1>5, <1>6, <1>7 DEF Executar

(* On Postgres the first lock keeps all other migrations out.                *)
LEMMA DaPrimeira ==
  ASSUME MigIInv, NEW m \in Migracoes, Ativa(m), dialeto = "postgresql", EmDia(m), tr[m].pc > 1
  PROVE  <<NoPostgres(schema)[1].t, "ALTER">> \in tr[m].tem
  <1> DEFINE p == NoPostgres(schema)
             k == tr[m].pc
  <1>1. Migra(p, schema) /\ k \in Nat /\ k <= Len(p) /\ Len(p) \in Nat
    BY DoPassoDeMigracao DEF EmDia
  <1>2. \A h \in 1..(k - 1) : p[h].faz = "comando"
    <2> TAKE h \in 1..(k - 1)
    <2>1. h \in 1..(Len(p) - 1)
      BY <1>1
    <2>2. p[h] \in Comandos
      BY <1>1, <2>1 DEF Migra, Passa
    <2> QED
      BY <2>2, FazDosPassos
  <1>3. p[1].modo = "ALTER"
    BY <1>1 DEF Migra
  <1>4. 1 \in 1..(k - 1)
    BY <1>1
  <1>5. tr[m].tem = Travas(p, k)
    BY DEF EmDia
  <1> HIDE DEF p, k
  <1>6. p[1].faz = "comando" /\ \A h \in 1..(k - 1) : p[h].faz # "commit"
    BY <1>2, <1>4
  <1>7. <<p[1].t, p[1].modo>> \in Travas(p, k)
    BY <1>1, <1>4, <1>6, DaTrava
  <1> QED
    BY <1>3, <1>5, <1>7 DEF p

LEMMA SoUmaMigra ==
  ASSUME MigIInv, dialeto = "postgresql", NEW m \in Migracoes, NEW o \in Migracoes, m # o,
         Ativa(m), Ativa(o), EmDia(m), EmDia(o), tr[m].pc > 1, tr[o].pc > 1
  PROVE  FALSE
  <1> DEFINE l == <<NoPostgres(schema)[1].t, "ALTER">>
  <1>1. l \in tr[m].tem /\ l \in tr[o].tem
    BY DaPrimeira
  <1>2. l[2] \notin Conflita(l[2])
    BY <1>1, SemComuns DEF MigIInv, Compativeis
  <1> QED
    BY <1>2, Conflitos DEF Modos

LEMMA DaIgualdade ==
  ASSUME NEW s, NEW u, Tabelas \subseteq s, Tabelas \subseteq u
  PROVE  NoPostgres(s) = NoPostgres(u)
  <1>1. \A t \in Tabelas : CriarSeFalta(t, s) = <<>> /\ CriarSeFalta(t, u) = <<>>
    BY DEF CriarSeFalta
  <1>2. CreateAll(s) = CreateAll(u)
    BY <1>1 DEF CreateAll, Tabelas
  <1> QED
    BY <1>2 DEF NoPostgres

(* What the record of one that commits becomes.                              *)
Confirmado(r, t) == r = [t EXCEPT !.pc = @ + 1, !.tem = {}, !.externo = FALSE]

LEMMA DoConfirmado ==
  ASSUME NEW t \in Transacoes, NEW r, Confirmado(r, t)
  PROVE  /\ r \in Transacoes /\ r.fase = t.fase /\ r.prog = t.prog /\ r.tipo = t.tipo
         /\ r.pc = t.pc + 1 /\ r.tem = {} /\ r.novo = t.novo /\ ~r.externo
  <1> DEFINE k == t.pc + 1
  <1>1. k \in Nat
    BY DEF Transacoes
  <1>2. r = [t EXCEPT !.pc = k, !.tem = {}, !.externo = FALSE]
    BY DEF Confirmado
  <1> HIDE DEF k
  <1>3. /\ r \in Transacoes /\ r.fase = t.fase /\ r.prog = t.prog /\ r.tipo = t.tipo
        /\ r.pc = k /\ r.tem = {} /\ r.novo = t.novo /\ ~r.externo
    BY <1>1, <1>2 DEF Transacoes
  <1> QED
    BY <1>3 DEF k

LEMMA DeConfirmarSessao ==
  ASSUME MigIInv, NEW s \in Sessoes, Confirmar(s)
  PROVE  MigIInv'
  <1>1. /\ Ativa(s) /\ Passo(s).faz = "commit" /\ schema' = Visivel(s) /\ dialeto' = dialeto
        /\ tr[s].fase = "ativa" /\ s \in Atores /\ s \notin Migracoes
    BY SemComuns DEF Confirmar, Ativa
  <1>2. /\ tr[s] \in Transacoes /\ Servindo(s) /\ tr[s].pc \in Nat \ {0}
        /\ tr[s].pc <= Len(tr[s].prog) /\ Len(tr[s].prog) \in Nat
    BY <1>1, DoPassoDeSessao
  <1>3. schema' = schema
    BY <1>1, <1>2 DEF Visivel, Servindo
  <1>4. CASE tr[s].pc = Len(tr[s].prog)
    <2> DEFINE r == [Livre EXCEPT !.fase = "ok"]
    <2>1. tr' = [tr EXCEPT ![s] = r]
      BY <1>4 DEF Confirmar
    <2>2. r \in Transacoes /\ r.fase = "ok" /\ r.tem = {} /\ r.novo = {}
      BY DeLivre DEF Fases
    <2> HIDE DEF r
    <2>3. tr'[s] = r
      BY <1>1, <2>1 DEF MigIInv, MigTipos
    <2>4. Ator(s)'
      BY <1>1, <2>2, <2>3 DEF Ator, Ativa, Recusada, Vitimada
    <2> QED
      BY <1>1, <1>3, <2>1, <2>2, <2>4, UmPassoSemSchema
  <1>5. CASE tr[s].pc # Len(tr[s].prog)
    <2> DEFINE r == [tr[s] EXCEPT !.pc = @ + 1, !.tem = {}, !.externo = FALSE]
    <2>1. tr' = [tr EXCEPT ![s] = r] /\ Confirmado(r, tr[s])
      BY <1>5 DEF Confirmar, Confirmado
    <2> HIDE DEF r
    <2>2. /\ r \in Transacoes /\ r.fase = tr[s].fase /\ r.prog = tr[s].prog /\ r.tipo = tr[s].tipo
          /\ r.pc = tr[s].pc + 1 /\ r.tem = {} /\ r.novo = tr[s].novo /\ ~r.externo
      BY <1>2, <2>1, DoConfirmado
    <2>3. tr'[s] = r
      BY <1>1, <2>1 DEF MigIInv, MigTipos
    <2>4. /\ Travas(tr[s].prog, tr[s].pc + 1) = {} /\ ~ForaDesde(tr[s].prog, tr[s].pc + 1)
      BY <1>1, <1>2, TravasMais DEF Passo
    <2>5. tr[s].pc + 1 \in 1..Len(tr[s].prog)
      BY <1>2, <1>5
    <2>6. \A j \in 1..((tr[s].pc + 1) - 1) : tr[s].prog[j].faz = "comando" => tr[s].prog[j].t \in schema
      <3>1. \A j \in 1..((tr[s].pc + 1) - 1) : j \in 1..(tr[s].pc - 1) \/ j = tr[s].pc
        BY <1>2
      <3>2. tr[s].prog[tr[s].pc].faz = "commit"
        BY <1>1 DEF Passo
      <3> QED
        BY <1>2, <3>1, <3>2 DEF Servindo
    <2>7. Servindo(s)'
      BY <1>1, <1>2, <1>3, <2>2, <2>3, <2>4, <2>5, <2>6 DEF Servindo
    <2>8. Ator(s)'
      BY <1>1, <2>2, <2>3, <2>7 DEF Ator, Ativa, Recusada, Vitimada
    <2>9. r.fase # "livre"
      BY <1>1, <2>2
    <2> QED
      BY <1>1, <1>3, <2>1, <2>2, <2>8, <2>9, UmPassoSemSchema
  <1> QED
    BY <1>4, <1>5

(* A migration says it is done when it left the whole schema.                *)
LEMMA DoSchemaConfirmado ==
  ASSUME MigIInv, NEW m \in Migracoes, Confirmar(m)
  PROVE  /\ tr' = [tr EXCEPT ![m] = [Livre EXCEPT !.fase = "ok"]] /\ dialeto' = dialeto
         /\ dialeto = "postgresql" => schema' = Completo /\ EmDia(m) /\ tr[m].pc > 1
         /\ dialeto = "sqlite" => schema' = schema /\ Completo \ Ampliacoes \subseteq schema
  <1>1. /\ Ativa(m) /\ Passo(m).faz = "commit" /\ schema' = Visivel(m) /\ dialeto' = dialeto
    BY DEF Confirmar
  <1>2. /\ tr[m] \in Transacoes /\ Migrando(m) /\ Passo(m) \in Comandos \union {Pragma, Commit}
        /\ (dialeto = "postgresql" /\ EmDia(m) => Migra(tr[m].prog, schema))
        /\ (Passo(m) \in {Pragma, Commit} =>
               tr[m].pc = Len(tr[m].prog) /\ (dialeto = "postgresql" => EmDia(m)))
    BY <1>1, DoPassoDeMigracao
  <1>3. Passo(m) = Commit /\ Pragma # Commit
    BY <1>1, <1>2, FazDosPassos
  <1>4. tr[m].pc = Len(tr[m].prog) /\ (dialeto = "postgresql" => EmDia(m))
    BY <1>2, <1>3
  <1>5. CASE dialeto = "postgresql"
    <2>1. EmDia(m) /\ Migra(tr[m].prog, schema)
      BY <1>2, <1>4, <1>5
    <2>2. Visivel(m) = schema \union CriaAte(tr[m].prog, Len(tr[m].prog) - 1)
      BY <1>4, <2>1 DEF Visivel, EmDia
    <2>3. Visivel(m) = Completo /\ Len(tr[m].prog) > 1
      BY <2>1, <2>2 DEF Migra
    <2> QED
      BY <1>1, <1>4, <1>5, <2>1, <2>3 DEF Confirmar
  <1>6. CASE dialeto # "postgresql"
    <2>1. Aditiva(m)
      BY <1>2, <1>6 DEF Migrando
    <2>2. PICK base : /\ Avulsa(tr[m].prog, base)
                      /\ base \union CriaAte(tr[m].prog, tr[m].pc - 1) \subseteq schema
      BY <2>1 DEF Aditiva
    <2>3. tr[m].prog[Len(tr[m].prog)] = Commit
      BY <1>3, <1>4 DEF Passo
    <2>4. Tabelas \union Colunas \subseteq base \union CriaAte(tr[m].prog, Len(tr[m].prog) - 1)
      BY <1>3, <2>2, <2>3 DEF Avulsa
    <2>5. Completo \ Ampliacoes \subseteq schema
      BY <1>4, <2>2, <2>4 DEF Completo
    <2>6. schema' = schema
      BY <1>1, <2>1 DEF Visivel, Aditiva
    <2> QED
      BY <1>1, <1>4, <1>6, <2>5, <2>6 DEF Confirmar
  <1> QED
    BY <1>5, <1>6

LEMMA DeConfirmarMigracao ==
  ASSUME MigIInv, NEW m \in Migracoes, Confirmar(m)
  PROVE  MigIInv'
  <1> DEFINE r == [Livre EXCEPT !.fase = "ok"]
  <1>1. /\ tr' = [tr EXCEPT ![m] = r] /\ dialeto' = dialeto
        /\ dialeto = "postgresql" => schema' = Completo /\ EmDia(m) /\ tr[m].pc > 1
        /\ dialeto = "sqlite" => schema' = schema /\ Completo \ Ampliacoes \subseteq schema
    BY DoSchemaConfirmado
  <1>2. r \in Transacoes /\ r.fase = "ok" /\ r.tem = {} /\ r.novo = {}
    BY DeLivre DEF Fases
  <1> HIDE DEF r
  <1>3. /\ MigTipos /\ Esquema /\ m \in Atores /\ m \notin Sessoes
        /\ Ativa(m) /\ tr[m].fase = "ativa" /\ \A x \in Migracoes : Ator(x)
    BY SemComuns DEF MigIInv, Confirmar, Ativa
  <1>4. tr'[m] = r /\ \A y \in Atores \ {m} : tr'[y] = tr[y]
    BY <1>1, <1>3 DEF MigTipos
  <1>5. schema \subseteq Completo /\ dialeto \in {"postgresql", "sqlite"}
    BY <1>3 DEF MigTipos
  <1>6. Completada(m)'
    BY <1>1, <1>2, <1>4, <1>5 DEF Completada
  <1>7. Ator(m)'
    BY <1>2, <1>3, <1>4, <1>6 DEF Ator, Ativa, Vitimada
  <1>8. \A y \in Atores \ {m} : \A a \in r.tem, b \in tr[y].tem : a[1] = b[1] => b[2] \notin Conflita(a[2])
    BY <1>2
  <1>9. CASE dialeto = "sqlite"
    <2>1. UNCHANGED <<dialeto, schema>>
      BY <1>1, <1>9
    <2> QED
      BY <1>1, <1>2, <1>3, <1>7, <1>8, <2>1, UmPassoSemSchema
  <1>10. CASE dialeto = "postgresql"
    <2>1. schema' = Completo /\ EmDia(m) /\ tr[m].pc > 1
      BY <1>1, <1>10
    <2>2. Esquema'
      <3>1. SoComATabela(Completo) /\ DeUso(Completo)
        BY Conjuntos DEF SoComATabela, DeUso, Tabelas
      <3> QED
        BY <2>1, <3>1 DEF Esquema
    <2>3. ASSUME NEW o \in Migracoes \ {m}, Ativa(o)
          PROVE  Migrando(o)'
      <3>1. Migrando(o) /\ o \in Atores
        BY <1>3, <2>3, SemComuns DEF Ator
      <3>2. tr'[o] = tr[o]
        BY <1>4, <3>1
      <3>3. CASE EmDia(o)
        <4>1. ~(tr[o].pc > 1)
          <5> HIDE DEF MigIInv
          <5> QED
            BY <1>3, <1>10, <2>1, <2>3, <3>3, SoUmaMigra
        <4>2. /\ Migra(tr[o].prog, schema) /\ tr[o].pc \in Nat \ {0} /\ Len(tr[o].prog) \in Nat
          BY <1>10, <2>3, <3>3, DoPassoDeMigracao
        <4>3. tr[o].pc = 1 /\ tr[o].pc - 1 = 0 /\ 1 \in 1..Len(tr[o].prog)
          BY <4>1, <4>2 DEF Migra
        <4>4. tr[o].tem = {} /\ tr[o].novo = {}
          BY <3>3, <4>3, SemTravas DEF EmDia
        <4>5. CASE tr[o].prog[1].nova
          <5>1. 1 \in 1..(Len(tr[o].prog) - 1)
            BY <4>2 DEF Migra
          <5>2. tr[o].prog[1] \in Comandos /\ tr[o].prog[1].t \in tr[o].prog[1].cria
            BY <4>2, <4>5, <5>1 DEF Migra, Passa
          <5>3. tr[o].prog[1].cria \intersect schema' # {}
            BY <2>1, <5>2, Conjuntos DEF Comandos
          <5>4. m \in Migracoes \ {o} /\ tr'[m].fase = "ok"
            BY <1>2, <1>4
          <5>5. Atrasada(o)'
            BY <3>2, <4>3, <4>4, <4>5, <5>2, <5>3, <5>4 DEF Atrasada
          <5> QED
            BY <1>1, <1>10, <3>1, <3>2, <5>5 DEF Migrando
        <4>6. CASE ~tr[o].prog[1].nova
          <5>1. Tabelas \subseteq schema /\ Tabelas \subseteq Completo
            BY <4>2, <4>6, Conjuntos DEF Migra
          <5>2. NoPostgres(schema) = NoPostgres(Completo)
            BY <5>1, DaIgualdade
          <5>3. tr[o].prog = NoPostgres(schema')
            BY <2>1, <3>3, <5>2 DEF EmDia
          <5>4. EmDia(o)'
            BY <3>2, <3>3, <5>3 DEF EmDia
          <5> QED
            BY <1>1, <1>10, <3>1, <3>2, <5>4 DEF Migrando
        <4> QED
          BY <4>5, <4>6
      <3>4. CASE Atrasada(o)
        <4>1. PICK outra \in Migracoes \ {o} : tr[outra].fase = "ok"
          BY <3>4 DEF Atrasada
        <4>2. tr'[outra].fase = "ok"
          BY <1>2, <1>4, <4>1, SemComuns
        <4>3. tr[o].prog[1].cria \intersect schema' # {}
          BY <1>5, <2>1, <3>4 DEF Atrasada
        <4>4. Atrasada(o)'
          BY <3>2, <3>4, <4>1, <4>2, <4>3 DEF Atrasada
        <4> QED
          BY <1>1, <1>10, <3>1, <3>2, <4>4 DEF Migrando
      <3> QED
        BY <1>10, <3>1, <3>3, <3>4 DEF Migrando
    <2>4. schema \subseteq schema' /\ schema' \in SUBSET Completo
      BY <1>5, <2>1
    <2> QED
      BY <1>1, <1>2, <1>3, <1>7, <1>8, <2>2, <2>3, <2>4, UmPasso
  <1> QED
    BY <1>5, <1>9, <1>10

LEMMA DeConfirmar ==
  ASSUME MigIInv, NEW x \in Atores, Confirmar(x)
  PROVE  MigIInv'
  BY DeConfirmarSessao, DeConfirmarMigracao, SemComuns

-----------------------------------------------------------------------------
(* Who waits for whom.  Of the migrations only one has locks; a request      *)
(* waits for no request.                                                     *)
LEMMA DaQueTrava ==
  ASSUME MigIInv, NEW m \in Migracoes, tr[m].tem # {}
  PROVE  /\ Ativa(m) /\ dialeto = "postgresql" /\ EmDia(m) /\ tr[m].pc > 1
         /\ tr[m].tipo = "migracao"
  <1>1. Ator(m)
    BY SemComuns DEF MigIInv
  <1>2. Ativa(m) /\ Migrando(m)
    BY <1>1 DEF Ator
  <1>3. dialeto = "postgresql" /\ EmDia(m) /\ tr[m].tipo = "migracao"
    BY <1>2 DEF Migrando, Aditiva, Atrasada
  <1>4. tr[m].pc \in Nat \ {0}
    BY <1>2, DoPassoDeMigracao
  <1>5. tr[m].pc # 1
    BY <1>3, SemTravas DEF EmDia
  <1> QED
    BY <1>2, <1>3, <1>4, <1>5

LEMMA UmaQueTrava ==
  ASSUME MigIInv, NEW m \in Migracoes, NEW o \in Migracoes, tr[m].tem # {}, tr[o].tem # {}
  PROVE  m = o
  <1>1. /\ Ativa(m) /\ dialeto = "postgresql" /\ EmDia(m) /\ tr[m].pc > 1
        /\ Ativa(o) /\ EmDia(o) /\ tr[o].pc > 1
    BY DaQueTrava
  <1> HIDE DEF MigIInv
  <1> QED
    BY <1>1, SoUmaMigra

LEMMA DaTravaDeSessao ==
  ASSUME MigIInv, NEW s \in Sessoes, NEW l \in tr[s].tem
  PROVE  Ativa(s) /\ l[2] \in ModosDeSessao /\ l[1] \in schema
  <1>1. Ator(s)
    BY SemComuns DEF MigIInv
  <1>2. Ativa(s)
    BY <1>1 DEF Ator
  <1>3. Servindo(s) /\ DeSessao(tr[s].prog) /\ tr[s].pc \in Nat \ {0} /\ tr[s].pc <= Len(tr[s].prog)
        /\ Len(tr[s].prog) \in Nat
    BY <1>2, DoPassoDeSessao
  <1>4. l \in Travas(tr[s].prog, tr[s].pc)
    BY <1>3 DEF Servindo
  <1>5. PICK j \in 1..(tr[s].pc - 1) :
           tr[s].prog[j].faz = "comando" /\ l = <<tr[s].prog[j].t, tr[s].prog[j].modo>>
    BY <1>4, DasTravas
  <1>6. tr[s].prog[j] \in ComandosDeSessao \union {Fora, Commit}
    BY <1>3 DEF DeSessao
  <1>7. tr[s].prog[j] \in ComandosDeSessao
    BY <1>5, <1>6, FazDosPassos
  <1>8. tr[s].prog[j].t \in schema
    BY <1>3, <1>5 DEF Servindo
  <1> QED
    BY <1>2, <1>5, <1>7, <1>8 DEF ComandosDeSessao

LEMMA DoComandoDeSessao ==
  ASSUME MigIInv, NEW s \in Sessoes, EmComando(s)
  PROVE  /\ Passo(s) \in ComandosDeSessao
         /\ ~SemNome(s) => Passo(s).t \in schema
  <1>1. Ativa(s) /\ Passo(s).faz = "comando"
    BY DEF EmComando
  <1>2. Servindo(s) /\ Passo(s) \in ComandosDeSessao \union {Fora, Commit}
    BY <1>1, DoPassoDeSessao
  <1>3. Passo(s) \in ComandosDeSessao
    BY <1>1, <1>2, FazDosPassos
  <1> QED
    BY <1>2, <1>3 DEF SemNome, Visivel, Servindo, ComandosDeSessao

LEMMA DeQuemEspera ==
  ASSUME MigIInv, NEW x \in Atores, NEW y \in Espera(x)
  PROVE  /\ EmComando(x) /\ ~SemNome(x) /\ y \in Atores \ {x} /\ tr[y].tem # {}
         /\ \E l \in tr[y].tem : l[1] = Passo(x).t /\ l[2] \in Conflita(Passo(x).modo)
         /\ x \in Sessoes => y \in Migracoes
  <1>1. EmComando(x) /\ ~SemNome(x) /\ y \in Atores \ {x} /\ Segura(tr[y].tem, x) # {}
    BY DEF Espera
  <1>2. PICK l \in tr[y].tem : l[1] = Passo(x).t /\ l[2] \in Conflita(Passo(x).modo)
    BY <1>1 DEF Segura
  <1>3. ASSUME x \in Sessoes, y \in Sessoes
        PROVE  FALSE
    <2>1. l[2] \in ModosDeSessao
      BY <1>2, <1>3, DaTravaDeSessao
    <2>2. Passo(x).modo \in ModosDeSessao
      BY <1>1, <1>3, DoComandoDeSessao DEF ComandosDeSessao
    <2> QED
      BY <1>2, <2>1, <2>2, Conflitos
  <1> QED
    BY <1>1, <1>2, <1>3, SemComuns

(* The least set holds whom x waits for, and is within every closed one.     *)
Fecha(x, S) == \A y \in S \union {x} : Espera(y) \subseteq S

LEMMA DoAlcance ==
  ASSUME NEW x \in Atores
  PROVE  /\ Alcance(x) \subseteq Atores
         /\ \A S \in SUBSET Atores : Fecha(x, S) => Alcance(x) \subseteq S
         /\ Espera(x) \subseteq Alcance(x)
  <1> DEFINE espera == [y \in Atores |-> Espera(y)]
             fecha(S) == \A y \in S \union {x} : espera[y] \subseteq S
  <1>1. Alcance(x) = {y \in Atores : \A S \in SUBSET Atores : fecha(S) => y \in S}
    BY DEF Alcance
  <1>2. \A S \in SUBSET Atores : \A y \in S \union {x} : espera[y] = Espera(y)
    OBVIOUS
  <1>3. \A S \in SUBSET Atores : fecha(S) <=> Fecha(x, S)
    BY <1>2 DEF Fecha
  <1>4. \A S \in SUBSET Atores : Fecha(x, S) => Espera(x) \subseteq S
    BY DEF Fecha
  <1>5. Espera(x) \subseteq Atores
    BY DEF Espera
  <1> HIDE DEF fecha
  <1> QED
    BY <1>1, <1>3, <1>4, <1>5

(* What a migration has locked.                                              *)
LEMMA DaTravaDeMigracao ==
  ASSUME MigIInv, NEW m \in Migracoes, tr[m].tem # {}, NEW l \in tr[m].tem
  PROVE  \E j \in 1..(tr[m].pc - 1) :
            /\ l = <<tr[m].prog[j].t, tr[m].prog[j].modo>> /\ j \in 1..(Len(tr[m].prog) - 1)
            /\ Passa(tr[m].prog[j], schema \union CriaAte(tr[m].prog, j - 1), schema)
  <1>1. Ativa(m) /\ EmDia(m) /\ dialeto = "postgresql"
    BY DaQueTrava
  <1>2. /\ Migra(tr[m].prog, schema) /\ tr[m].pc \in Nat /\ tr[m].pc <= Len(tr[m].prog)
        /\ Len(tr[m].prog) \in Nat
    BY <1>1, DoPassoDeMigracao
  <1>3. l \in Travas(tr[m].prog, tr[m].pc)
    BY <1>1 DEF EmDia
  <1>4. PICK j \in 1..(tr[m].pc - 1) : l = <<tr[m].prog[j].t, tr[m].prog[j].modo>>
    BY <1>3, DasTravas
  <1>5. j \in 1..(Len(tr[m].prog) - 1)
    BY <1>2
  <1> QED
    BY <1>2, <1>4, <1>5 DEF Migra

(* Of a request and a migration that wait for each other, the request has    *)
(* been to the world outside or the migration creates a table.               *)
LEMMA DeQuemSoLe ==
  ASSUME MigIInv, NEW s \in Sessoes, NEW m \in Migracoes, m \in Espera(s), s \in Espera(m),
         Lendo(tr[s].prog, tr[s].pc)
  PROVE  FALSE
  <1> DEFINE p == tr[m].prog
             k == tr[m].pc
             c == Passo(s)
             d == Passo(m)
  <1>1. s \in Atores /\ m \in Atores
    BY SemComuns
  <1>2. /\ EmComando(s) /\ ~SemNome(s) /\ tr[m].tem # {}
        /\ \E l \in tr[m].tem : l[1] = c.t /\ l[2] \in Conflita(c.modo)
    BY <1>1, DeQuemEspera
  <1>3. /\ EmComando(m) /\ \E l \in tr[s].tem : l[1] = d.t /\ l[2] \in Conflita(d.modo)
    BY <1>1, DeQuemEspera
  <1>4. PICK l \in tr[m].tem : l[1] = c.t /\ l[2] \in Conflita(c.modo)
    BY <1>2
  <1>5. PICK h \in tr[s].tem : h[1] = d.t /\ h[2] \in Conflita(d.modo)
    BY <1>3
  <1>6. c.modo = "SELECT" /\ h \in {<<"api_clients", "SELECT">>, <<"empresas", "SELECT">>}
    <2>1. Servindo(s)
      BY <1>2, DoPassoDeSessao DEF EmComando
    <2> QED
      BY <1>5, <2>1 DEF Lendo, Servindo, Passo
  <1>7. c.t \in schema /\ h[1] \in schema
    BY <1>2, DoComandoDeSessao, DaTravaDeSessao
  <1>8. PICK j \in 1..(k - 1) : l = <<p[j].t, p[j].modo>> /\ j \in 1..(Len(p) - 1)
    BY <1>2, DaTravaDeMigracao
  <1>9. /\ Ativa(m) /\ dialeto = "postgresql" /\ EmDia(m)
    BY <1>2, DaQueTrava
  <1>10. Migra(p, schema) /\ k \in 1..(Len(p) - 1) /\ Passa(d, Visivel(m), schema) /\ d = p[k]
    BY <1>3, <1>9, DoPassoDeMigracao, DoEmDia DEF Passo
  <1> HIDE DEF p, k, c, d
  <1>11. p[j].t \in schema /\ p[j].modo = "ALTER"
    BY <1>4, <1>6, <1>7, <1>8, Conflitos
  <1>12. d.modo = "ALTER"
    <2>1. d.modo \in {"REFERIDA", "ALTER"}
      BY <1>10 DEF Passa
    <2>2. h[2] = "SELECT" /\ "SELECT" \notin Conflita("REFERIDA")
      BY <1>6 DEF Conflita
    <2> QED
      BY <1>5, <2>1, <2>2
  <1>13. d.t = "empresas"
    <2>1. d.t \in {"empresas", "notas_fiscais"}
      BY <1>5, <1>7, <1>10, <1>12 DEF Migra
    <2> QED
      BY <1>5, <1>6, <2>1
  <1>14. k > j /\ j \in Nat /\ k \in Nat
    BY <1>10
  <1>15. p[k].t # "empresas"
    BY <1>8, <1>10, <1>11, <1>14 DEF Migra
  <1> QED
    BY <1>10, <1>13, <1>15

(* To write what one reads waits only for a table that refers to it and is   *)
(* being created.                                                            *)
LEMMA DeQuemEscreve ==
  ASSUME MigIInv, NEW s \in Sessoes, NEW m \in Migracoes, m \in Espera(s),
         Passo(s).modo = "ESCRITA", <<Passo(s).t, "SELECT">> \in tr[s].tem
  PROVE  \E u \in Tabelas \ schema : u \in tr[m].novo /\ Refere(u, Passo(s).t)
  <1> DEFINE p == tr[m].prog
             k == tr[m].pc
             c == Passo(s)
  <1>1. s \in Atores /\ m \in Atores /\ s # m
    BY SemComuns
  <1>2. /\ tr[m].tem # {} /\ \E l \in tr[m].tem : l[1] = c.t /\ l[2] \in Conflita(c.modo)
    BY <1>1, DeQuemEspera
  <1>3. PICK l \in tr[m].tem : l[1] = c.t /\ l[2] \in Conflita(c.modo)
    BY <1>2
  <1>4. PICK j \in 1..(k - 1) :
           /\ l = <<p[j].t, p[j].modo>> /\ j \in 1..(Len(p) - 1)
           /\ Passa(p[j], schema \union CriaAte(p, j - 1), schema)
    BY <1>2, DaTravaDeMigracao
  <1>5. EmDia(m) /\ Ativa(m)
    BY <1>2, DaQueTrava
  <1>6. l[2] # "ALTER"
    <2> DEFINE a == <<c.t, "SELECT">>
    <2>1. a \in tr[s].tem /\ a[1] = l[1] /\ a[2] = "SELECT"
      BY <1>3
    <2> HIDE DEF a
    <2>2. l[2] \notin Conflita("SELECT")
      BY <1>1, <2>1 DEF MigIInv, Compativeis
    <2> QED
      BY <2>2, Conflitos
  <1>7. tr[m].novo = CriaAte(p, k - 1)
    BY <1>5 DEF EmDia
  <1>8. k \in Nat
    BY <1>5, DoPassoDeMigracao
  <1> HIDE DEF p, k, c
  <1>9. p[j].modo = "REFERIDA" /\ p[j].t = c.t
    BY <1>3, <1>4, <1>6, Conflitos DEF c
  <1>10. PICK u \in Tabelas \ schema : u \in schema \union CriaAte(p, j - 1) /\ Refere(u, p[j].t)
    BY <1>4, <1>9 DEF Passa
  <1>11. CriaAte(p, j - 1) \subseteq CriaAte(p, k - 1)
    <2>1. j - 1 \in Nat /\ k - 1 \in Nat /\ j - 1 <= k - 1
      BY <1>8
    <2> QED
      BY <2>1, CriaAteCresce
  <1> QED
    BY <1>7, <1>9, <1>10, <1>11 DEF c

(* A deadlock is of the one migration that has locks, with requests.         *)
LEMMA DoImpasse ==
  ASSUME MigIInv, NEW x \in Atores, Espera(x) # {}, NEW z \in Atores, x \in Espera(z),
         x \in Alcance(x)
  PROVE  \E m \in Migracoes :
            /\ tr[m].tem # {} /\ m \in Alcance(x) /\ Alcance(x) \intersect Migracoes = {m}
            /\ Alcance(x) \intersect Sessoes # {}
            /\ x \in Sessoes => m \in Espera(x) /\ x \in Espera(m)
            /\ x \in Migracoes => x = m
  <1>1. tr[x].tem # {}
    BY DeQuemEspera
  <1>2. PICK y \in Espera(x) : TRUE
    OBVIOUS
  <1>3. tr[y].tem # {} /\ y \in Atores \ {x} /\ (x \in Sessoes => y \in Migracoes)
    BY DeQuemEspera
  <1>4. PICK m \in Migracoes : tr[m].tem # {} /\ (x = m \/ (x \in Sessoes /\ y = m))
    BY <1>1, <1>3, SemComuns
  <1> HIDE DEF MigIInv
  <1>5. \A o \in Migracoes : tr[o].tem # {} => o = m
    BY <1>4, UmaQueTrava
  <1>6. \A v \in Atores : Espera(v) \subseteq Sessoes \union {m}
    <2> SUFFICES ASSUME NEW v \in Atores, NEW w \in Espera(v)
                 PROVE  w \in Sessoes \union {m}
      OBVIOUS
    <2>1. tr[w].tem # {} /\ w \in Atores
      BY DeQuemEspera
    <2> QED
      BY <1>5, <2>1, SemComuns
  <1>7. \A v \in Sessoes : Espera(v) \subseteq {m}
    <2> SUFFICES ASSUME NEW v \in Sessoes, NEW w \in Espera(v)
                 PROVE  w = m
      OBVIOUS
    <2>1. v \in Atores
      BY SemComuns
    <2>2. tr[w].tem # {} /\ w \in Migracoes
      BY <2>1, DeQuemEspera
    <2> QED
      BY <1>5, <2>2
  <1> DEFINE com == Alcance(x)
  <1>8. Espera(x) \subseteq com /\ \A S \in SUBSET Atores : Fecha(x, S) => com \subseteq S
    BY DoAlcance
  <1>9. com \subseteq Sessoes \union {m}
    <2>1. Sessoes \union {m} \in SUBSET Atores
      BY SemComuns
    <2>2. Fecha(x, Sessoes \union {m})
      BY <1>6, <2>1 DEF Fecha
    <2> QED
      BY <1>8, <2>1, <2>2
  <1>10. x \in com /\ y \in com
    BY <1>8
  <1> HIDE DEF com
  <1>11. m \in com
    BY <1>4, <1>10
  <1>12. com \intersect Migracoes = {m}
    BY <1>9, <1>11, SemComuns
  <1>13. com \intersect Sessoes # {}
    BY <1>3, <1>4, <1>9, <1>10
  <1>14. ASSUME x \in Sessoes
         PROVE  m \in Espera(x) /\ x \in Espera(m)
    <2>1. y = m /\ x # m
      BY <1>4, <1>14, SemComuns
    <2> DEFINE S == {m} \union Espera(m)
    <2>2. S \in SUBSET Atores
      BY SemComuns DEF Espera
    <2>3. Fecha(x, S)
      <3> SUFFICES ASSUME NEW v \in S \union {x}
                   PROVE  Espera(v) \subseteq S
        BY DEF Fecha
      <3>1. CASE v = m
        BY <3>1
      <3>2. CASE v # m
        <4>1. m \in Atores
          BY SemComuns
        <4>2. Espera(m) \subseteq Sessoes
          <5>1. m \notin Espera(m)
            BY DEF Espera
          <5> QED
            BY <1>6, <4>1, <5>1
        <4>3. v \in Sessoes
          BY <1>14, <3>2, <4>2
        <4> QED
          BY <1>7, <4>3
      <3> QED
        BY <3>1, <3>2
    <2>4. x \in S
      BY <1>8, <1>10, <2>2, <2>3
    <2> QED
      BY <2>1, <2>4
  <1>15. x \in Migracoes => x = m
    BY <1>4, SemComuns
  <1> QED
    BY <1>4, <1>11, <1>12, <1>13, <1>14, <1>15 DEF com

(* What is then true of the one that is ended.                               *)
LEMMA DaVitima ==
  ASSUME MigIInv, NEW s \in Sessoes, NEW m \in Migracoes, m \in Espera(s), s \in Espera(m)
  PROVE  /\ Ativa(s)
         /\ tr[s].tipo = "emissao" => tr[s].externo
         /\ tr[s].tipo = "evento" /\ tr[s].externo => "webhook_logs" \in tr[m].novo
         /\ tr[s].tipo = "certificado" =>
               tr[m].novo \intersect {"gdpr_solicitacoes", "webhook_logs"} # {}
  <1> DEFINE p == tr[s].prog
             k == tr[s].pc
  <1>1. EmComando(s)
    BY DeQuemEspera, SemComuns
  <1>2. Ativa(s) /\ Passo(s).faz = "comando"
    BY <1>1 DEF EmComando
  <1>3. /\ Servindo(s) /\ k \in Nat \ {0} /\ k <= Len(p) /\ Len(p) \in Nat
    BY <1>2, DoPassoDeSessao
  <1>4. /\ tr[s].tipo \in Tipos /\ p \in Programas(tr[s].tipo)
        /\ (tr[s].externo <=> ForaDesde(p, k)) /\ tr[s].tem = Travas(p, k)
    BY <1>3 DEF Servindo
  <1>5. /\ tr[s].tipo = "emissao" => Emite(p)
        /\ tr[s].tipo = "evento" => Registra(p)
        /\ tr[s].tipo = "certificado" => Guarda(p)
    BY <1>4, DosProgramas
  <1>6. k \in 1..Len(p) /\ p[k].faz = "comando" /\ Passo(s) = p[k]
    BY <1>2, <1>3 DEF Passo
  <1>7. ~Lendo(p, k)
    BY DeQuemSoLe
  <1>8. Autenticada(p, k) => {"api_clients", "empresas", "notas_fiscais"} \subseteq schema
    BY <1>2, DaAutenticada
  <1>9. Passo(s).modo = "ESCRITA" /\ <<Passo(s).t, "SELECT">> \in tr[s].tem =>
           \E u \in Tabelas \ schema : u \in tr[m].novo /\ Refere(u, Passo(s).t)
    BY DeQuemEscreve
  <1> HIDE DEF p, k, MigIInv
  <1>10. tr[s].tipo = "emissao" => tr[s].externo
    BY <1>4, <1>5, <1>6, <1>7 DEF Emite
  <1>11. ASSUME tr[s].tipo = "evento", tr[s].externo
         PROVE  "webhook_logs" \in tr[m].novo
    <2>1. /\ p[k].t = "notas_fiscais" /\ p[k].modo = "ESCRITA"
          /\ <<"notas_fiscais", "SELECT">> \in Travas(p, k)
      BY <1>4, <1>5, <1>6, <1>11 DEF Registra
    <2>2. PICK u \in Tabelas \ schema : u \in tr[m].novo /\ Refere(u, "notas_fiscais")
      BY <1>4, <1>6, <1>9, <2>1
    <2> QED
      BY <2>2 DEF Refere
  <1>12. ASSUME tr[s].tipo = "certificado"
         PROVE  tr[m].novo \intersect {"gdpr_solicitacoes", "webhook_logs"} # {}
    <2>1. /\ Autenticada(p, k) /\ p[k].t = "empresas" /\ p[k].modo = "ESCRITA"
          /\ <<"empresas", "SELECT">> \in Travas(p, k)
      BY <1>5, <1>6, <1>7, <1>12 DEF Guarda
    <2>2. PICK u \in Tabelas \ schema : u \in tr[m].novo /\ Refere(u, "empresas")
      BY <1>4, <1>6, <1>9, <2>1
    <2>3. u \in {"gdpr_solicitacoes", "webhook_logs"}
      BY <1>8, <2>1, <2>2 DEF Refere
    <2> QED
      BY <2>2, <2>3
  <1> QED
    BY <1>2, <1>10, <1>11, <1>12

LEMMA DeAbortar ==
  ASSUME MigIInv, NEW x \in Atores, Abortar(x)
  PROVE  MigIInv'
  <1> DEFINE com == Alcance(x)
             criando == UNION {tr[y].novo : y \in com}
             r == [tr[x] EXCEPT !.fase = "vitima", !.prog = <<>>, !.pc = 1, !.tem = {},
                                !.pedido = {}, !.novo = {}, !.com = com, !.criando = criando]
  <1>1. /\ Espera(x) # {} /\ x \in Alcance(x) /\ \E z \in Atores : x \in Espera(z)
        /\ tr' = [tr EXCEPT ![x] = r] /\ UNCHANGED <<dialeto, schema>>
    BY DEF Abortar
  <1>2. PICK z \in Atores : x \in Espera(z)
    BY <1>1
  <1>3. PICK m \in Migracoes :
            /\ tr[m].tem # {} /\ m \in Alcance(x) /\ Alcance(x) \intersect Migracoes = {m}
            /\ Alcance(x) \intersect Sessoes # {}
            /\ (x \in Sessoes => m \in Espera(x) /\ x \in Espera(m))
            /\ (x \in Migracoes => x = m)
    BY <1>1, <1>2, DoImpasse
  <1>4. tr[x].fase = "ativa"
    <2>1. PICK y \in Espera(x) : TRUE
      BY <1>1
    <2>2. EmComando(x)
      BY <2>1, DeQuemEspera
    <2> QED
      BY <2>2 DEF EmComando, Ativa
  <1>5. com \in SUBSET Atores /\ criando \in SUBSET Completo
    <2>1. com \subseteq Atores
      BY DoAlcance
    <2>2. \A y \in Atores : tr[y].novo \subseteq Completo
      BY DEF MigIInv, MigTipos, Transacoes
    <2> QED
      BY <2>1, <2>2
  <1>6. tr[m].novo \subseteq criando
    BY <1>3
  <1> HIDE DEF com, criando
  <1>7. /\ r \in Transacoes /\ r.fase = "vitima" /\ r.tem = {} /\ r.novo = {} /\ r.com = com
        /\ r.criando = criando /\ r.tipo = tr[x].tipo /\ r.externo = tr[x].externo
    <2> DEFINE f == "vitima"
               q == <<>>
    <2>1. f \in Fases /\ q \in Seq(Passos)
      BY DEF Fases
    <2>2. r = [tr[x] EXCEPT !.fase = f, !.prog = q, !.pc = 1, !.tem = {},
                            !.pedido = {}, !.novo = {}, !.com = com, !.criando = criando]
      OBVIOUS
    <2>3. tr[x] \in Transacoes
      BY DEF MigIInv, MigTipos
    <2> HIDE DEF f, q, r
    <2>4. /\ r \in Transacoes /\ r.fase = f /\ r.tem = {} /\ r.novo = {} /\ r.com = com
          /\ r.criando = criando /\ r.tipo = tr[x].tipo /\ r.externo = tr[x].externo
      BY <1>5, <2>1, <2>2, <2>3 DEF Transacoes
    <2> QED
      BY <2>4 DEF f
  <1> HIDE DEF r
  <1>8. tr'[x] = r
    BY <1>1 DEF MigIInv, MigTipos
  <1>9. Cardinality(com \intersect Migracoes) = 1 /\ com \intersect Sessoes # {}
    BY <1>3, FS_Singleton DEF com
  <1>10. CASE x \in Sessoes
    <2>1. /\ tr[x].tipo = "emissao" => tr[x].externo
          /\ tr[x].tipo = "evento" /\ tr[x].externo => "webhook_logs" \in tr[m].novo
          /\ tr[x].tipo = "certificado" =>
                tr[m].novo \intersect {"gdpr_solicitacoes", "webhook_logs"} # {}
      BY <1>3, <1>10, DaVitima
    <2>2. Vitimada(x)'
      BY <1>6, <1>7, <1>8, <1>9, <2>1 DEF Vitimada
    <2>3. Ator(x)'
      BY <1>7, <1>8, <1>10, <2>2, SemComuns DEF Ator, Ativa, Recusada
    <2>4. \A y \in Atores \ {x} : \A a \in r.tem, b \in tr[y].tem : a[1] = b[1] => b[2] \notin Conflita(a[2])
      BY <1>7
    <2> QED
      BY <1>1, <1>4, <1>7, <2>3, <2>4, UmPassoSemSchema
  <1>11. CASE x \in Migracoes
    <2>1. tr[x].tipo = "migracao"
      BY <1>3, <1>11, DaQueTrava
    <2>2. Vitimada(x)'
      BY <1>7, <1>8, <1>9, <2>1 DEF Vitimada
    <2>3. Ator(x)'
      BY <1>7, <1>8, <1>11, <2>2, SemComuns DEF Ator, Ativa, Completada
    <2>4. \A y \in Atores \ {x} : \A a \in r.tem, b \in tr[y].tem : a[1] = b[1] => b[2] \notin Conflita(a[2])
      BY <1>7
    <2> QED
      BY <1>1, <1>4, <1>7, <2>3, <2>4, UmPassoSemSchema
  <1> QED
    BY <1>10, <1>11, SemComuns

-----------------------------------------------------------------------------
(* The theorems.                                                             *)
LEMMA DoPasso == MigIInv /\ [MigNext]_migVars => MigIInv'
  <1> SUFFICES ASSUME MigIInv, [MigNext]_migVars PROVE MigIInv'
    OBVIOUS
  <1>1. ASSUME NEW m \in Migracoes, IniciarMigracao(m) PROVE MigIInv'
    BY <1>1, DeIniciarMigracao
  <1>2. ASSUME NEW s \in Sessoes, IniciarSessao(s) PROVE MigIInv'
    BY <1>2, DeIniciarSessao
  <1>3. ASSUME NEW x \in Atores, Avancar(x) PROVE MigIInv'
    BY <1>3, DeExecutar, DeFazerFora, DeLerColunas, DeConfirmar DEF Avancar
  <1>4. ASSUME NEW x \in Atores, Abortar(x) PROVE MigIInv'
    BY <1>4, DeAbortar
  <1>5. ASSUME NEW x \in Atores, Cair(x) PROVE MigIInv'
    BY <1>5, DeCair
  <1>6. CASE UNCHANGED migVars
    <2>1. dialeto' = dialeto /\ schema' = schema /\ tr' = tr
      BY <1>6 DEF migVars
    <2>2. MigTipos' /\ Esquema' /\ Compativeis'
      BY <2>1 DEF MigIInv, MigTipos, Esquema, Compativeis
    <2>3. \A x \in Atores : Ator(x)'
      <3> TAKE x \in Atores
      <3>1. Ator(x)
        BY DEF MigIInv
      <3>2. Ativa(x)' = Ativa(x) /\ Servindo(x)' = Servindo(x) /\ Migrando(x)' = Migrando(x)
        BY <2>1 DEF Ativa, Servindo, Migrando, EmDia, Atrasada, Aditiva, Sozinha
      <3>3. Recusada(x)' = Recusada(x) /\ Completada(x)' = Completada(x) /\ Vitimada(x)' = Vitimada(x)
        BY <2>1 DEF Recusada, Completada, Vitimada
      <3> QED
        BY <2>1, <3>1, <3>2, <3>3 DEF Ator
    <2> QED
      BY <2>2, <2>3 DEF MigIInv
  <1> QED
    BY <1>1, <1>2, <1>3, <1>4, <1>5, <1>6 DEF MigNext

(* Types, locks that never conflict, and of each transaction how it stands   *)
(* to its program and to the schema, hold always.                            *)
THEOREM MigInvariante == MigSpec => []MigIInv
  BY DoInicio, DoPasso, PTL DEF MigSpec

(* Of any number of migrations (migrate.py:52-67), one that says it is done  *)
(* leaves the whole schema, and one fails only after another.                *)
THEOREM MigracaoCompletaTeorema == MigSpec => []MigracaoCompleta
  <1>1. MigIInv => MigracaoCompleta
    BY SemComuns DEF MigIInv, Ator, Completada, MigracaoCompleta
  <1> QED
    BY <1>1, MigInvariante, PTL

(* Of any number of requests over any older schema, none fails on it once    *)
(* SEFAZ registered what it asks, but an emission whose protocol does not    *)
(* fit the column.                                                           *)
THEOREM ErroAntesDaSefazTeorema == MigSpec => []ErroAntesDaSefaz
  <1>1. MigIInv => ErroAntesDaSefaz
    BY SemComuns DEF MigIInv, Ator, Recusada, ErroAntesDaSefaz
  <1> QED
    BY <1>1, MigInvariante, PTL

(* However many migrations and requests there are, a deadlock is of one      *)
(* migration with requests, and ends an emission only after SEFAZ answered.  *)
THEOREM VitimasDoImpasseTeorema == MigSpec => []VitimasDoImpasse
  <1>1. MigIInv => VitimasDoImpasse
    BY DEF MigIInv, Ator, Vitimada, VitimasDoImpasse
  <1> QED
    BY <1>1, MigInvariante, PTL

(* The schema on Postgres comes whole, in the one commit of a migration      *)
(* (engine.begin, migrate.py:52), and on no engine is anything taken away.   *)
THEOREM MigracaoAtomicaTeorema == MigSpec => MigracaoAtomica
  <1> DEFINE A == schema' # schema => /\ schema \subseteq schema'
                                      /\ dialeto = "postgresql" => schema' = Completo
  <1>1. ASSUME MigIInv, [MigNext]_migVars
        PROVE  A
    <2>1. ASSUME NEW x \in Atores, Executar(x) PROVE A
      <3>1. schema' # schema => dialeto = "sqlite" /\ schema' = schema \union Passo(x).cria
        BY <2>1 DEF Executar
      <3> QED
        BY <3>1
    <2>2. ASSUME NEW s \in Sessoes, Confirmar(s) PROVE A
      <3>1. Servindo(s)
        BY <1>1, <2>2, DoPassoDeSessao DEF Confirmar
      <3>2. schema' = schema
        BY <2>2, <3>1 DEF Confirmar, Visivel, Servindo
      <3> QED
        BY <3>2
    <2>3. ASSUME NEW m \in Migracoes, Confirmar(m) PROVE A
      <3>1. schema' = Visivel(m)
        BY <2>3 DEF Confirmar
      <3>2. /\ dialeto = "postgresql" => schema' = Completo
            /\ dialeto = "sqlite" => schema' = schema
        BY <1>1, <2>3, DoSchemaConfirmado
      <3> QED
        BY <3>1, <3>2 DEF Visivel
    <2>4. ASSUME NEW x \in Atores, Avancar(x) PROVE A
      BY <2>1, <2>2, <2>3, <2>4, SemComuns DEF Avancar, FazerFora, LerColunas
    <2> QED
      BY <1>1, <2>4 DEF MigNext, migVars, IniciarMigracao, IniciarSessao, Abortar, Cair
  <1>2. MigIInv /\ [MigNext]_migVars => [A]_migVars
    BY <1>1
  <1> QED
    BY <1>2, MigInvariante, PTL DEF MigSpec, MigracaoAtomica
=============================================================================
