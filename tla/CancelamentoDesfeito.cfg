CONSTANTS
    n1 = n1
    n2 = n2
    p1 = p1
    p2 = p2
    r1 = r1
    r2 = r2
    Livre = Livre
    Notas <- MCDuas
    Pollers <- MCPollers
    Pedidos <- MCUmPedido
    Desfechos <- MCSem150
    ComUrl <- MCDuas
    MaxSeq = 1
    ReciboMax = 2
    LoteMaximo = 2
    MaxTentativas = 1
    MaxInterrupcoes = 0
SPECIFICATION SistemaSpec
PROPERTIES
    CanceladaPermanece
CHECK_DEADLOCK FALSE
