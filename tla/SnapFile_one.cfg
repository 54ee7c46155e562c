\* One daemon, which fails, dies and comes back, and two clients.
SPECIFICATION Spec
CONSTANTS
    Writers = {w1}
    Readers = {r1, r2}
    Inodes = {i1, i2, i3, i4}
    N = 2
    None = None
    MaxVersion = 3
INVARIANTS NoTornRead
PROPERTIES IsRegister
CHECK_DEADLOCK FALSE
