SPECIFICATION Spec
CONSTANTS
    Shapes <- MCShapes
    Areas <- MCAreas
    HistoryLen = 2
    Page = 2
    Wheel = 3
    Far = 3
    MaxLines = 3
    MaxTicks = 3
    None = None
CONSTRAINT OneOfThem
INVARIANTS
    WindowFits
    ScrollInText
    ShownHasSeries
