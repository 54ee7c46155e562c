\* Overlapping operations under fairness: two callers with root and one without.
SPECIFICATION FairSpec
CONSTANTS
    Pids = {1, 2, 3}
    Clients = {tui, cli, usr}
    Tuis = {tui}
    Roots = {tui, cli}
    Ops = {"start", "stop", "enable", "disable"}
    None = None
    Empty = Empty
    Failing = {"kill", "forceKill", "writeUnit", "startUnit", "stopUnit", "rmPid", "d_reload"}
    Serial = FALSE
    Prompt = FALSE
    Disciplined = FALSE
    StartPolls = 2
    StopPolls = 2
    EnablePolls = 1
    MaxOps = 2
    MaxCrashes = 1
    MaxReboots = 0
    MaxReuses = 0
INVARIANTS StopOkTargetDown
PROPERTIES OperationsReturn PersistentRecovers
ACTION_CONSTRAINT InOrder
CHECK_DEADLOCK FALSE
