SPECIFICATION ExecSpec
CONSTANTS
    OpcodeMap <- MCOpcodeMap
    Images <- NoImages
    PowerUpBytes = {0}
    DeviceBytes = {0}
    TestOps = {"ASL"}
    Waived = {"ShiftFlags", "NoOverflow", "Decimal", "PointerCarry", "PointerWrap", "JumpIndirect", "CountZPX", "BVS", "ReturnB", "InterruptB", "NMIMask"}
CONSTRAINT OneInstruction
PROPERTY FollowsISA
