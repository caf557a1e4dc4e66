SPECIFICATION HalfWrittenSpec
CONSTANTS
    MaxTyped = 2
    PowerUpStatus = {{}}
INVARIANT KeyReady
CHECK_DEADLOCK FALSE
