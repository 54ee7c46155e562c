\* All operations, one at a time, with no transient daemon mixed with a unit.
SPECIFICATION Spec
CONSTANTS
    Pids = {p1, p2, p3}
    Clients = {tui, cli, usr}
    Tuis = {tui}
    Roots = {tui, cli}
    Ops = {"start", "stop", "enable", "disable", "status"}
    None = None
    Empty = Empty
    Failing = {"spawn", "kill", "writeUnit", "enableUnit", "startUnit", "d_reload"}
    Serial = TRUE
    Prompt = TRUE
    Disciplined = TRUE
    StartPolls = 2
    StopPolls = 2
    EnablePolls = 1
    MaxOps = 4
    MaxCrashes = 1
    MaxReboots = 1
    MaxReuses = 1
SYMMETRY PidSymmetry
INVARIANTS AtMostOneDaemon DisabledIsDown DisableLeavesNothing ModeIsDaemons
CHECK_DEADLOCK FALSE
