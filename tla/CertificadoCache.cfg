CONSTANTS
    c1 = c1
    c2 = c2
    p1 = p1
    p2 = p2
    p3 = p3
    Nenhum = Nenhum
    Certs <- MCCerts
    Processos <- MCProcessos
    TTL = 2
    Atraso = 2
SPECIFICATION SpecJusta
INVARIANTS
    ObsoletoLimitado
PROPERTIES
    CacheConverge
CHECK_DEADLOCK FALSE
