CONSTANTS
    a = a
    b = b
    ta = ta
    tb = tb
    p1 = p1
    p2 = p2
    p3 = p3
    cnpjA = cnpjA
    cnpjB = cnpjB
    cnpjC = cnpjC
    k1 = k1
    k2 = k2
    cpf = cpf
    cpfFormatado = cpfFormatado
    g1 = g1
    g2 = g2
    uf = uf
    SemCliente = SemCliente
    Processo = Processo
    Pedidos <- MCPedidos
    Antes <- MCAntes
    Cnpjs <- MCCnpjs
    Prefixos <- MCPrefixos
    Documentos <- MCDocumentos
    EmDigitos <- MCEmDigitos
    Classes <- MCClasses
    Gtins <- MCGtins
    Ufs <- MCUfs
    Prazo <- MCPrazo
    Atraso = 1
    MaxComConsulta = 2
SPECIFICATION ApiSpec
SYMMETRY Simetria
INVARIANTS
    EmpresaUnica
    LoginDoDono
    SoDaEmpresa
    AnonimizacaoRegistrada
    RespostaRecente
    DocumentoProprio
    BlocoIsolado
PROPERTIES
    RemocaoDaClasse
CHECK_DEADLOCK FALSE
