SPECIFICATION Spec
CONSTANTS
    Observer = {o1, o2}
    MaxStarts = 3
    MaxMoves = 3
INVARIANTS ClockTypeOK QuietAfterUnregister OneLoop StopReaches
PROPERTIES Alternates Ticks StopHonoured
CHECK_DEADLOCK FALSE
