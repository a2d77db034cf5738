CONSTANTS
    meter = meter
    spare = spare
    meterUI = meterUI
    meterAddr = meterAddr
    spareAddr = spareAddr
    I = I
    U = U
    Source <- MCSource
    Origin <- MCOrigin
    Kind <- MCKind
    Script <- MCScript
    MaximumReassembled = 4
    SizeModulus = 65536
    Rooms = {3, 4}
    MaxDisturbances = 2
SPECIFICATION SegmentationSpec
CHECK_DEADLOCK FALSE
INVARIANTS SegmentationTypeOK NeverMixed BytesInOrder DamageContained WithinMaximum
