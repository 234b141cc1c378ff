SPECIFICATION Spec
CONSTANTS
    Grid <- MCGrid
    Assumed <- MCAssumed
    Screens <- MCScreens
    Buttons = {"Left"}
    Keys = {"Backspace", "A", "F1"}
    MaxBacklog = 1
INVARIANTS TypeOK PointerNear ButtonsMirror KeysFaithful
