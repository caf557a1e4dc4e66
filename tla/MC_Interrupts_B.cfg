SPECIFICATION MCSpec
CONSTANTS
    OpcodeMap <- MCOpcodeMap
    Images <- BRKImages
    PowerUpBytes = {0}
    DeviceBytes = {0}
    MaxDepth = 2
    MaxPinChanges = 1
    Waived = {}
CONSTRAINT Bounded
PROPERTY IRQPushesBClear
