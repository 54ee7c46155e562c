SPECIFICATION Spec
CONSTANTS
    MaxFd = 10
    Cpus <- MCCpus
    Siblings <- SiblingsLast
    Events = {perf, freq}
    Denied = {freq}
    Ifaces = {eth, usb}
    Veths = {veth}
    Counters = {rx, tx}
    RxBytes = rx
    Disks = {sda}
    MaxCores = 2
    MaxNets = 2
    MaxDisks = 1
    None = None
INVARIANTS
    Owned
    NoLeak
    NothingMissed
    AllCoresRead
