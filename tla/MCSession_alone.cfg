\* A TUI of root that runs transient daemons, and a user without root.
SPECIFICATION SessionSpec
CONSTANTS
    Pids = {p1, p2, p3}
    Clients = {tui, usr}
    Tuis = {tui}
    Tui = tui
    Roots = {tui}
    Ops = {"start", "stop", "status"}
    None = None
    Empty = Empty
    Failing = {"spawn", "kill"}
    Serial = TRUE
    Prompt = TRUE
    Disciplined = FALSE
    StartPolls = 2
    StopPolls = 2
    EnablePolls = 1
    MaxOps = 4
    MaxCrashes = 1
    MaxReboots = 1
    MaxReuses = 1
SYMMETRY PidSymmetry
INVARIANTS SessionTypeOK DaemonReachable StoppedStaysStopped StopLeavesNothing OneRecorder SomebodyRecords LoggerIsOwn
CHECK_DEADLOCK FALSE
