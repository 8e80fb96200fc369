CONSTANTS
    n1 = n1
    n2 = n2
    n3 = n3
    p1 = p1
    p2 = p2
    Livre = Livre
    Notas <- MCTres
    Pollers <- MCPollers
    Desfechos <- MCUmDesfecho
    ComUrl <- MCComUrl
    MaxSeq = 1
    LoteMaximo = 2
    MaxTentativas = 2
    MaxInterrupcoes = 1
SPECIFICATION Spec
INVARIANTS
    TypeOK
    StatusDoProtocolo
    AvisoAntesDoStatus
    LogFiel
PROPERTIES
    DecisaoEstavel
CHECK_DEADLOCK FALSE
SYMMETRY MCSimetria
