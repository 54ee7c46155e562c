\* disable while a transient daemon runs.
SPECIFICATION Spec
CONSTANTS
    Pids = {p1, p2, p3}
    Clients = {cli}
    Tuis = {}
    Roots = {cli}
    Ops = {"start", "disable"}
    None = None
    Empty = Empty
    Failing = {}
    Serial = TRUE
    Prompt = TRUE
    Disciplined = FALSE
    StartPolls = 2
    StopPolls = 2
    EnablePolls = 1
    MaxOps = 2
    MaxCrashes = 0
    MaxReboots = 0
    MaxReuses = 0
SYMMETRY PidSymmetry
INVARIANTS DisabledIsDown
CHECK_DEADLOCK FALSE
