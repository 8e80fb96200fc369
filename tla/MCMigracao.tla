------------------------------ MODULE MCMigracao ------------------------------
(* Instance of Migracao for TLC: an empty database, one from before the last *)
(* tables, one from before the columns, and a complete one.                  *)
EXTENDS Migracao

CONSTANTS m1, m2, s1, s2

MCMigracoes == {m1, m2}
MCSessoes   == {s1, s2}

Antigo == {"empresas", "api_clients", "notas_fiscais", "gtin_consultas"}
MCAnteriores ==
    {{}, Antigo \union Colunas, Antigo \union {"gdpr_solicitacoes", "webhook_logs"},
     Completo}
=============================================================================
