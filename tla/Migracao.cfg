CONSTANTS
    m1 = m1
    m2 = m2
    s1 = s1
    s2 = s2
    Migracoes <- MCMigracoes
    Sessoes <- MCSessoes
    Anteriores <- MCAnteriores
    MaxTransacoes = 3
SPECIFICATION MigSpec
INVARIANTS
    MigracaoCompleta
    VitimasDoImpasse
    ErroAntesDaSefaz
PROPERTIES
    MigracaoAtomica
    TodosTerminam
CHECK_DEADLOCK FALSE
