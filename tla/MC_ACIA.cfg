SPECIFICATION ACIASpec
CONSTANTS
    MaxTyped = 3
    PowerUpStatus = {{}, {"RDRF"}, {"OVRN"}, {"RDRF", "OVRN"}}
INVARIANTS ACIATypeOK NothingForgotten
PROPERTY DestructorReturns
CHECK_DEADLOCK FALSE
