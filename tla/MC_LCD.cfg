SPECIFICATION MCSpec
CONSTANTS
    Size = 2
    PowerUpRegisters <- MCPowerUpRegisters
    PowerUpLCDs <- MCPowerUpLCDs
    ControlBytes = {0, 64, 192, 128, 32, 160}
    DataBytes = {1, 2, 14, 56}
    Directions = {0, 224}
INVARIANTS VIATypeOK StoresInside
PROPERTY ImplementsBoard
