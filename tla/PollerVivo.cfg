CONSTANTS
    n1 = n1
    n2 = n2
    n3 = n3
    p1 = p1
    p2 = p2
    Livre = Livre
    Notas <- MCDuas
    Pollers <- MCPollers
    Desfechos <- MCUmDesfecho
    ComUrl <- MCComUrl
    MaxSeq = 1
    LoteMaximo = 1
    MaxTentativas = 3
    MaxInterrupcoes = 2
SPECIFICATION SpecJusta
PROPERTIES
    TodaPendenteDecidida
CHECK_DEADLOCK FALSE
