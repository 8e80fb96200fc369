CONSTANTS
    r1 = r1
    r2 = r2
    r3 = r3
    r4 = r4
    Pedidos <- MCPedidos
    Segundo = 2
    Minuto = 2
    Dia = 4
    PorMinuto = 1
    PorDia = 2
    Atraso = 2
    Fim = 8
SPECIFICATION Spec
INVARIANTS
    JanelaRecente
    EsperaBasta
PROPERTIES
    RecusaJusta
CHECK_DEADLOCK FALSE
SYMMETRY MCSimetria
