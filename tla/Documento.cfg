CONSTANTS
    Opcoes <- MCOpcoes
    Itens <- MCItens
    Oferta <- MCOferta
    Serializadores <- MCSerializadores
    Codigos <- MCCodigos
    Prefixo <- MCPrefixo
    Consultadas <- MCConsultadas
    Destinos <- MCDestinos
    MaxItens = 2
    MaxSerializacoes = 2
SPECIFICATION TransSpec
INVARIANTS
    GruposConformes
    TotaisDosItens
    ValorDaNota
    ChaveDoDocumento
    EnderecoDoPedido
    ContingenciaEmOutraAutoridade
    CadastroDaUf
    HomologacaoIsolada
PROPERTIES
    ChaveEstavel
CHECK_DEADLOCK FALSE
