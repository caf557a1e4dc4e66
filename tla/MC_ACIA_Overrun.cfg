SPECIFICATION WrittenSpec
CONSTANTS
    MaxTyped = 2
    PowerUpStatus = {{}}
INVARIANT LossIsFlagged
CHECK_DEADLOCK FALSE
