SPECIFICATION Spec
CONSTANTS
    Width = 4
    Height = 4
    TILE_SIZE = 3
    Colors = {0, 1}
    Screens <- MCScreens
    MaxQueue = 2
INVARIANTS TypeOK InStep StaleOnlyInside
