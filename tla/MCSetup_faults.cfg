\* Kills, a failing update-grub and kernel updates, on a machine with isolated cores of
\* its own, whose list occurs in that of the form.
SPECIFICATION Spec
CONSTANTS
    None = None
    Empty = Empty
    A = A
    B = B
    pair = pair
    Lists = {A, B}
    Names = {pair}
    DefaultNs = pair
    Flags = {}
    Default <- FaultDefault
    Forms = {}
    Within <- Nested
    Ranges = {B}
    Original <- OwnRange
    Procs = {"tui"}
    Serial = TRUE
    Prompt = TRUE
    Bare = FALSE
    Elsewhere = {B}
    Faults = {"kill", "update", "smt", "nogrub"}
    KernelUpdates = TRUE
INVARIANTS TeardownUntunes SetupPasses
