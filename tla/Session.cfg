CONSTANTS
    clientAddr = clientAddr
    serverAddr = serverAddr
    otherAddr = otherAddr
    client = client
    server = server
    data = data
    Address <- MCAddress
    AddressSize <- MCAddressSize
    Payload <- MCPayload
    Endpoint = {client, server}
    Options <- MCOptions
    UserSizes = {0, 5}
    InfoSizes = {8, 200}
    Arriving <- MCArriving
SPECIFICATION OneSpec
INVARIANTS TypeOK FreshOutsideSession HandshakeRoles WindowRespected ServerWithinCapability
PROPERTY LimitsFixedInSession
