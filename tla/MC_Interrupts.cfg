SPECIFICATION MCSpec
CONSTANTS
    OpcodeMap <- MCOpcodeMap
    Images <- MCImages
    PowerUpBytes = {0, 2}
    DeviceBytes = {0}
    MaxDepth = 2
    MaxPinChanges = 4
    Waived = {"ReturnB", "InterruptB", "NMIMask"}
CONSTRAINT Bounded
INVARIANTS OnCourse Sequencing FetchesAtPC CycleInRange IRQFrameUnmasked
PROPERTIES ImplementsISA Transparent HandlersGiveBack HungForGood
