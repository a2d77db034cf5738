CONSTANTS
    Transmission <- MCTransmission
    NoisePolicy = {"IgnoreUntilOpeningFlag", "ReportError"}
    Limits <- MCLimits
    Rooms = {0, 1}
    NoiseOctet = {126, 255}
    MaxDisturbances = 2
SPECIFICATION StreamSpec
CHECK_DEADLOCK FALSE
INVARIANTS StreamTypeOK BufferBounded InOrderOnce ExactUntilDisturbed
