CONSTANTS
    n1 = n1
    n2 = n2
    p1 = p1
    p2 = p2
    r1 = r1
    r2 = r2
    Livre = Livre
    Notas <- MCDuas
    Pollers <- MCPollers
    Pedidos <- MCPedidos
    Desfechos <- MCSem150
    ComUrl <- MCNenhuma
    MaxSeq = 2
    ReciboMax = 2
    LoteMaximo = 2
    MaxTentativas = 1
    MaxInterrupcoes = 1
SPECIFICATION SistemaSpec
INVARIANTS
    StatusConfirmado
    RejeitadaNaoAutorizada
    ProcessamentoExclusivo
    PendenteTemLote
    EventosRegistrados
    CartasSequenciais
PROPERTIES
    ImplementaCiclo
CHECK_DEADLOCK FALSE
SYMMETRY MCSimetria
