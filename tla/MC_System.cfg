SPECIFICATION MCSpec
CONSTANTS
    OpcodeMap <- MCOpcodeMap
    Images <- MCImages
    PowerUpBytes = {0}
    DeviceBytes <- Byte
    Size = 80
    PowerUpRegisters <- MCPowerUpRegisters
    PowerUpLCDs <- MCPowerUpLCDs
    PowerUpStatus = {{}, {"RDRF", "OVRN"}}
    MaxTyped = 2
    Delay = 1
INVARIANTS Answered AllPrinted
PROPERTIES PollsBeforeReading ImplementsTerminal Echoed KeepsDiscipline HelloShown
