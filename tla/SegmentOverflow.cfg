CONSTANTS
    meter = meter
    spare = spare
    meterUI = meterUI
    meterAddr = meterAddr
    spareAddr = spareAddr
    I = I
    U = U
    Source <- MCSource
    Origin <- MCOrigin
    Kind <- MCKind
    Script <- MCRaised
    MaximumReassembled = 4
    SizeModulus = 65536
    Rooms = {64}
    MaxDisturbances = 1
SPECIFICATION SegmentationSpec
CHECK_DEADLOCK FALSE
INVARIANT WithinMaximum
