CONSTANTS
    n1 = n1
    n2 = n2
    p1 = p1
    p2 = p2
    r1 = r1
    r2 = r2
    Livre = Livre
    Notas <- MCUma
    Pollers <- MCPollers
    Pedidos <- MCPedidos
    Desfechos <- MCSem150
    ComUrl <- MCNenhuma
    MaxSeq = 2
    ReciboMax = 2
    LoteMaximo = 2
    MaxTentativas = 1
    MaxInterrupcoes = 1
SPECIFICATION SistemaSpec
INVARIANTS
    AutorizadaTemProtocolo
CHECK_DEADLOCK FALSE
