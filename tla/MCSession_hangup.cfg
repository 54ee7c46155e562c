\* The terminal of the TUI goes away.
SPECIFICATION SessionSpec
CONSTANTS
    Pids = {p1, p2, p3}
    Clients = {tui}
    Tuis = {tui}
    Tui = tui
    Roots = {tui}
    Ops = {"start"}
    None = None
    Empty = Empty
    Failing = {}
    Serial = TRUE
    Prompt = TRUE
    Disciplined = FALSE
    StartPolls = 2
    StopPolls = 2
    EnablePolls = 1
    MaxOps = 1
    MaxCrashes = 0
    MaxReboots = 0
    MaxReuses = 0
PROPERTIES ClosingStopsNothing
CHECK_DEADLOCK FALSE
