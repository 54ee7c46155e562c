\* Kills and power failures; the TUI and daemons, one at a time.
SPECIFICATION Spec
CONSTANTS
    None = None
    Empty = Empty
    A = A
    B = B
    pair = pair
    Lists = {A, B}
    Names = {pair}
    DefaultNs = pair
    Flags = {"nohz_full"}
    Default <- KillDefault
    Forms <- LeanForms
    Within <- Apart
    Ranges = {}
    Original <- NoParams
    Procs = {"tui", "daemon"}
    Serial = TRUE
    Prompt = TRUE
    Bare = TRUE
    Elsewhere = {}
    Faults = {"kill"}
    KernelUpdates = FALSE
INVARIANTS GrubBaseline FlagsMatchIsolcpus SysctlBaseline TeardownUndoesForm
PROPERTIES LastApplyHolds
