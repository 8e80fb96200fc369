---------------------------- MODULE Requisicoes ----------------------------
(***************************************************************************)
(* The requests the API serves and the database sessions they run in.  A    *)
(* request is a coroutine: between two of its awaits the others run, and    *)
(* each has its own transaction, so its phases interleave with theirs.  The *)
(* modules that extend this one add the operations, one action per stretch  *)
(* of code between two awaits that the others can tell apart.  req[p] says  *)
(* what was asked, where the request is and, in the end, how it was         *)
(* answered (the HTTP status); each identifier is used once.                *)
(***************************************************************************)
EXTENDS FiniteSets, Integers, Sequences

CONSTANTS
    Pedidos,  \* the requests, which also name the rows they insert
    Antes,    \* the requests answered before: a function over some of them
    MaxComConsulta  \* bound: the requests made, if one of them is a query

ASSUME AntesAssumption == DOMAIN Antes \subseteq Pedidos

VARIABLE req

Livre == [op |-> "nenhuma", fase |-> "livre"]

Feitos == {p \in Pedidos : req[p] # Livre} \ DOMAIN Antes

Novo(p) ==
    /\ req[p] = Livre
    /\ (\E q \in Feitos : req[q].op = "consulta") => Cardinality(Feitos) < MaxComConsulta

Em(p, op, fase) == req[p].op = op /\ req[p].fase = fase

Fica(p, r) == req' = [req EXCEPT ![p] = r]

Segue(p, fase) == req' = [req EXCEPT ![p].fase = fase]

(* The answers.                                                              *)
Finais == {"200", "201", "400", "401", "404", "409", "500"}

EmCurso(p) == req[p].fase \notin Finais \union {"livre"}

ReqInit == req = [p \in Pedidos |-> IF p \in DOMAIN Antes THEN Antes[p] ELSE Livre]

(* What the request awaited raised, or its function was killed: the session  *)
(* is closed, and what it has not committed is rolled back.  (A query goes    *)
(* on in several coroutines, and says itself how each ends.)                 *)
Interromper(p) == EmCurso(p) /\ req[p].op # "consulta" /\ Segue(p, "500")
=============================================================================
