SPECIFICATION LiveSpec
CONSTANTS
    OpcodeMap <- MCOpcodeMap
    Images <- ShortImages
    PowerUpBytes = {0}
    DeviceBytes = {0}
    MaxDepth = 2
    MaxPinChanges = 0
    Waived = {}
PROPERTIES Progress IRQServed
