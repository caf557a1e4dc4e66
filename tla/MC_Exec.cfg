SPECIFICATION ExecSpec
CONSTANTS
    OpcodeMap <- MCOpcodeMap
    Images <- NoImages
    PowerUpBytes = {0}
    DeviceBytes = {165}
    TestOps = {}
    Waived = {"StickyCarry", "ShiftFlags", "NoOverflow", "Decimal", "PointerCarry", "PointerWrap", "JumpIndirect", "CountZPX", "BVS", "ReturnB", "InterruptB", "NMIMask"}
CONSTRAINT OneInstruction
INVARIANTS ArithmeticExact CompareIsSubtract RotatesInvert BitwiseExact TypeOK OnCourse CodeInMemory
PROPERTY FollowsISA
