SPECIFICATION LiveSpec
CONSTANTS
    OpcodeMap <- MCOpcodeMap
    Images <- UnlistedImages
    PowerUpBytes = {0}
    DeviceBytes = {0}
    MaxDepth = 2
    MaxPinChanges = 0
    Waived = {}
PROPERTY Progress
