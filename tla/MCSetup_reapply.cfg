\* The same setup twice.
SPECIFICATION Spec
CONSTANTS
    None = None
    Empty = Empty
    A = A
    B = B
    pair = pair
    Lists = {A, B}
    Names = {pair}
    DefaultNs = pair
    Flags = {"nohz_full"}
    Default <- MCDefault
    Forms = {}
    Within <- Apart
    Ranges = {}
    Original <- NoParams
    Procs = {"tui"}
    Serial = TRUE
    Prompt = TRUE
    Bare = FALSE
    Elsewhere = {}
    Faults = {}
    KernelUpdates = FALSE
INVARIANTS SetupIsIdempotent
