CONSTANTS
    client = client
    server = server
    clientAddr = clientAddr
    serverAddr = serverAddr
    Endpoint <- MCEndpoint
    Peer <- MCPeer
    Address <- MCAddress
    AddressSize <- MCAddressSize
    Payload <- MCPayload
    Options <- ShortServer
    UserSizes = {0}
    InfoSizes = {8}
    Arriving = {}
    MaxInFlight = 2
    MaxMessages <- NineFromServer
    MaxSessions = 2
    MaxLosses = 1
    Disconnector = {client}
SPECIFICATION LinkSpec
CHECK_DEADLOCK FALSE
INVARIANTS LinkTypeOK SequencesCountMessages ClientSessionIsShared
PROPERTY ImplementsService
