----------------------------- MODULE CicloDaNota -----------------------------
(***************************************************************************)
(* What the life of a note promises its owner, whatever runs concurrently:  *)
(* a note is recorded once, decided at most once, and once cancelled it     *)
(* stays cancelled.  One transaction may move several notes.                *)
(***************************************************************************)
CONSTANT Notas

VARIABLE status         \* status[n]: the committed status of note n

Todos == {"AUSENTE", "PROCESSANDO", "AUTORIZADA", "REJEITADA", "DENEGADA",
          "CANCELADA"}

Init == status = [n \in Notas |-> "AUSENTE"]

(* The moves a note may make: recorded, decided by the poller, cancelled.    *)
Movimento ==
    ({"AUSENTE"} \X {"PROCESSANDO", "AUTORIZADA", "REJEITADA"})
      \union ({"PROCESSANDO"} \X {"AUTORIZADA", "REJEITADA", "DENEGADA"})
      \union ({"PROCESSANDO", "AUTORIZADA"} \X {"CANCELADA"})

Next ==
    /\ status' \in [Notas -> Todos]
    /\ \A n \in Notas : status'[n] = status[n]
                          \/ <<status[n], status'[n]>> \in Movimento

Spec == Init /\ [][Next]_status

=============================================================================
