SPECIFICATION FairSpec
CONSTANTS
    gui = gui
    other = other
    Windows = {gui, other}
    Noise = {2}
    MaxLines = 4
    MaxLinks = 2
    PipeCap = 2
    SendCap = 3
INVARIANTS
    RowsAreARun
PROPERTIES
    EofEnds
    PlaceIsFreed
