CONSTANTS
    client = client
    server = server
    clientAddr = clientAddr
    serverAddr = serverAddr
    Endpoint <- MCEndpoint
    Peer <- MCPeer
    Address <- MCAddress
    AddressSize <- MCAddressSize
    Payload <- MCPayload
    Options <- SmallWindows
    UserSizes = {0}
    InfoSizes = {100, 101}
    Arriving = {}
    MaxInFlight = 2
    MaxMessages <- ThreeAndTwo
    MaxSessions = 2
    MaxLosses = 0
    Disconnector = {client, server}
SPECIFICATION FairSpec
CHECK_DEADLOCK FALSE
INVARIANTS SenderWithinReceiver ReceiverNotOverrun NothingRejected QuiescentAgreement
PROPERTIES ConnectCompletes DisconnectCompletes WindowReopens
