CONSTANTS
    Address <- MCAddress
    AddressSize <- MCAddressSize
    Payload <- MCPayload
    Built <- MCBuilt
    Handed <- MCHanded
    Exposed <- MCExposed
    Foreign <- MCForeign
    LimitsOfCodec <- MCLimits
    Rooms = {0, 9, 12, 40}
    MaxFlips = 2
SPECIFICATION TransferSpec
CHECK_DEADLOCK FALSE
INVARIANTS WrittenWithinBounds OwnFramesAccepted ArrivesUnchanged DamageDetected DocumentedFieldsRead
