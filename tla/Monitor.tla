------------------------------- MODULE Monitor -------------------------------
(***************************************************************************)
(* The monitor library (src/monitor.c): the descriptors that               *)
(* benchmon_monitor_init() opens, that benchmon_snapshot() reads and that  *)
(* benchmon_monitor_destroy() closes, in a process that has descriptors of *)
(* its own and that creates and drops monitors again and again, as the TUI *)
(* does with each refresh (refresh_verify() in tui/src/app.rs, Monitor in  *)
(* tui/src/ffi.rs).  Meanwhile interfaces come and go, and cores are       *)
(* switched off by "echo off > smt/control".                               *)
(*                                                                         *)
(* The C struct is a function from its descriptor fields to descriptors;   *)
(* the table is the kernel's.  (Foo_Bug is a wrong version of Foo.)        *)
(***************************************************************************)
EXTENDS Integers, FiniteSets

CONSTANTS
    MaxFd,      \* the highest descriptor of the process
    Cpus,       \* the cores of the machine, numbered from 0
    Siblings,   \* those that are offline when SMT is off
    Events,     \* what is opened for each core: perf events and the frequency
    Ifaces,     \* interfaces in the namespace of the process
    Veths,      \* interfaces in namespaces, reached through a process in there
    Counters,   \* the statistics of an interface
    RxBytes,    \* the one that is opened first
    Denied,     \* events that this machine, or this user, does not have
    Disks,      \* block devices
    MaxCores, MaxNets, MaxDisks,    \* 64, 8 and 8
    None

Fds == 0..MaxFd
Bad == -1
Nets == Ifaces \cup Veths

(* The descriptor fields of struct benchmon_monitor, and the files.        *)
MemField    == <<"mem", 0, "meminfo">>
CoreFields  == {"core"} \X (0..(MaxCores - 1)) \X Events
NetFields   == {"net"} \X (0..(MaxNets - 1)) \X (Counters \cup {"passthru"})
DiskFields  == {"disk"} \X (0..(MaxDisks - 1)) \X {"stat"}
Fields      == {MemField} \cup CoreFields \cup NetFields \cup DiskFields

File(kind, of, what) == [kind |-> kind, of |-> of, what |-> what]
Stdin   == File("process", 0, "stdin")
Own     == File("process", 0, "log")
Dir     == File("dir", 0, "entries")
MemFile == File("mem", 0, "meminfo")
Files   == [kind : {"process", "dir", "mem", "core", "net", "disk"},
            of : Nat \cup Nets \cup Disks,
            what : Events \cup Counters \cup {"stdin", "log", "entries", "meminfo", "stat", "passthru"}]

ASSUME MonitorAssumption ==
    /\ MaxFd \in Nat /\ MaxCores \in Nat /\ MaxNets \in Nat /\ MaxDisks \in Nat
    /\ Cpus \subseteq Nat /\ IsFiniteSet(Cpus) /\ Siblings \subseteq Cpus
    /\ IsFiniteSet(Nets) /\ Ifaces \cap Veths = {}
    /\ RxBytes \in Counters /\ "passthru" \notin Counters /\ Denied \subseteq Events
    /\ None \notin Files

VARIABLES
    table,      \* the descriptors of the process: the open file, or None
    fd,         \* the descriptor fields of the monitor
    count,      \* core_count, net_count and disk_count
    name,       \* the interface in each slot of nets, the device in each of disks
    at,         \* how far benchmon_monitor_init() has come
    todo,       \* the fields it is about to open
    entries,    \* what is left to read of the directory, or of the pair of veths
    cur,        \* the interface whose counters it opens
    up,         \* interfaces that exist
    online,     \* cores that are online
    full,       \* history: an open() has failed for want of a descriptor
    stayed,     \* history: the interfaces and the cores that were there when
                \* the init began and have been since
    racing      \* history: interfaces that appeared while an init was running

vars == <<table, fd, count, name, at, todo, entries, cur, up, online, full, stayed, racing>>
world == <<up, online, stayed, racing>>

Free     == {f \in Fds : table[f] = None}
NetSlot(n)  == {s \in NetFields : s[2] = n}
Counted  == {MemField}
            \cup {s \in CoreFields : s[2] < count.core}
            \cup {s \in NetFields : s[2] < count.net}
            \cup {s \in DiskFields : s[2] < count.disk}

Stages == {"null", "cores", "netdir", "net", "netns", "veth", "diskdir", "disks", "ready"}

TypeOK ==
    /\ table \in [Fds -> {None} \cup Files]
    /\ fd \in [Fields -> Fds \cup {Bad}]
    /\ count \in [core : 0..MaxCores, net : 0..MaxNets, disk : 0..MaxDisks]
    /\ name \in [net  : [0..(MaxNets - 1) -> Nets \cup {None}],
                disk : [0..(MaxDisks - 1) -> Disks \cup {None}]]
    /\ at \in Stages /\ todo \subseteq Fields /\ entries \subseteq Nets \cup Disks
    /\ cur \in Nets \cup {None} /\ up \subseteq Nets /\ racing \subseteq Nets
    /\ online \in {Cpus, Cpus \ Siblings} /\ full \in BOOLEAN
    /\ stayed \in [net : SUBSET Nets, core : SUBSET Cpus]

(* calloc(): every field is 0, which is a descriptor of the process.       *)
Zeroed == [s \in Fields |-> 0]
NoNames == [net  |-> [n \in 0..(MaxNets - 1) |-> None],
            disk |-> [n \in 0..(MaxDisks - 1) |-> None]]

Init ==
    /\ table = [f \in Fds |-> IF f = 0 THEN Stdin ELSE None]
    /\ fd = Zeroed /\ count = [core |-> 0, net |-> 0, disk |-> 0] /\ name = NoNames
    /\ at = "null" /\ todo = {} /\ entries = {} /\ cur = None
    /\ up \in SUBSET Nets /\ online = Cpus /\ full = FALSE
    /\ stayed = [net |-> {}, core |-> {}] /\ racing = {}

-----------------------------------------------------------------------------
(* open(): the lowest free descriptor; -1 when there is no such file, or no *)
(* descriptor left.                                                        *)
Open(s, file, there) ==
    \/ /\ there
       /\ \E f \in Free : /\ \A g \in Free : f <= g
                          /\ table' = [table EXCEPT ![f] = file]
                          /\ fd' = [fd EXCEPT ![s] = f]
       /\ UNCHANGED full
    \/ /\ ~there \/ Free = {}
       /\ fd' = [fd EXCEPT ![s] = Bad]
       /\ full' = (full \/ there)
       /\ UNCHANGED table

(* opendir() takes a descriptor as well; without one there is nothing to   *)
(* read.                                                                   *)
OpenDir(found) ==
    \/ \E f \in Free : /\ \A g \in Free : f <= g
                       /\ table' = [table EXCEPT ![f] = Dir]
                       /\ entries' = found /\ UNCHANGED full
    \/ Free = {} /\ full' = TRUE /\ entries' = {} /\ UNCHANGED table

CloseDir ==
    /\ table' = [f \in Fds |-> IF table[f] = Dir THEN None ELSE table[f]]
    /\ entries' = {}

-----------------------------------------------------------------------------
(* benchmon_monitor_init(), as Monitor::new(0x0F) calls it: all cores, all *)
(* subsystems.                                                             *)

(* A count is taken for the last index.                                    *)
CoreCount_OneLess == IF Cardinality(online) > MaxCores THEN MaxCores ELSE Cardinality(online) - 1

CoreCount == IF Cardinality(online) > MaxCores THEN MaxCores ELSE Cardinality(online)

(* calloc() and /proc/meminfo; and as many cores as are online.            *)
New ==
    /\ at = "null"
    /\ at' = "cores"
    /\ Open(MemField, MemFile, TRUE)
    /\ count' = [core |-> CoreCount, net |-> 0, disk |-> 0]
    /\ todo' = {s \in CoreFields : s[2] < CoreCount}
    /\ stayed' = [net |-> up, core |-> online]
    /\ UNCHANGED <<name, entries, cur, up, online, racing>>

(* The three perf events and the frequency of core 0, of core 1, ...       *)
OpenCore ==
    /\ at = "cores"
    /\ \E s \in todo :
        /\ \A t \in todo : s[2] <= t[2]
        /\ Open(s, File("core", s[2], s[3]), s[2] \in online /\ s[3] \notin Denied)
        /\ todo' = todo \ {s}
    /\ UNCHANGED <<count, name, at, entries, cur, world>>

(* Interfaces are taken from the directory one by one, while there is room.*)
OpenNetDir ==
    /\ at = "cores" /\ todo = {}
    /\ at' = "netdir"
    /\ OpenDir(up \cap Ifaces)
    /\ UNCHANGED <<fd, count, name, todo, cur, world>>

(* passthru_fd is left 0.                                                  *)
Cleared_AllZero(n) == [s \in Fields |-> IF s \in NetSlot(n) THEN 0 ELSE fd[s]]

(* memset() and passthru_fd = -1.                                          *)
Cleared(n) == [s \in Fields |-> IF s \notin NetSlot(n) THEN fd[s]
                                ELSE IF s[3] = "passthru" THEN Bad ELSE 0]

(* init_net_ctx() and init_net_ctx_via_procfs() fill the next free slot.   *)
BeginNet(i, stage) ==
    /\ at' = stage /\ cur' = i
    /\ fd' = Cleared(count.net)
    /\ name' = [name EXCEPT !.net[count.net] = i]
    /\ todo' = {s \in NetSlot(count.net) : s[3] # "passthru"}

(* The last slot stays empty.                                              *)
Room_OneLess == count.net + 1 < MaxNets

Room == count.net < MaxNets

ReadNetDir ==
    /\ at = "netdir" /\ Room
    /\ \E i \in entries : BeginNet(i, "net") /\ entries' = entries \ {i}
    /\ UNCHANGED <<table, count, world, full>>

(* rx_bytes comes first.                                                   *)
OpenCounter ==
    /\ at \in {"net", "veth"}
    /\ \E s \in todo :
        /\ s[3] = RxBytes \/ \A t \in todo : t[3] # RxBytes
        /\ Open(s, File("net", cur, s[3]), cur \in up)
        /\ todo' = todo \ {s}
    /\ UNCHANGED <<count, name, at, entries, cur, world>>

(* The slot is kept if rx_bytes could be opened; the next interface takes  *)
(* it otherwise.                                                           *)
Kept(n) == fd[<<"net", n, RxBytes>>] # Bad

EndNet ==
    /\ at \in {"net", "veth"} /\ todo = {}
    /\ count' = [count EXCEPT !.net = IF Kept(@) THEN @ + 1 ELSE @]
    /\ at' = IF at = "net" THEN "netdir" ELSE "netns"
    /\ cur' = None
    /\ UNCHANGED <<table, fd, name, todo, entries, world, full>>

CloseNetDir ==
    /\ at = "netdir" /\ (entries = {} \/ ~Room)
    /\ at' = "netns"
    /\ table' = [f \in Fds |-> IF table[f] = Dir THEN None ELSE table[f]]
    /\ entries' = Veths
    /\ UNCHANGED <<fd, count, name, todo, cur, world, full>>

(* discover_netns_interfaces(), the pair in either order: a veth without a *)
(* process in its namespace is passed over, and so it is when popen() does *)
(* not get the two descriptors of its pipe.                                *)
Pipe == \E f, g \in Free : f # g

FindVeth ==
    /\ at = "netns"
    /\ \E i \in entries :
        /\ entries' = entries \ {i}
        /\ IF Room /\ i \in up /\ Pipe
           THEN BeginNet(i, "veth") /\ UNCHANGED full
           ELSE full' = (full \/ ~Pipe) /\ UNCHANGED <<at, cur, fd, name, todo>>
    /\ UNCHANGED <<table, count, world>>

(* loop, ram and dm- devices are not among Disks.                          *)
OpenDiskDir ==
    /\ at = "netns" /\ entries = {}
    /\ at' = "diskdir"
    /\ OpenDir(Disks)
    /\ UNCHANGED <<fd, count, name, todo, cur, world>>

(* The device may have gone since readdir() named it: the next one takes   *)
(* its slot then.                                                          *)
OpenDisk ==
    LET n == count.disk IN
    /\ at = "diskdir" /\ n < MaxDisks
    /\ \E d \in entries, there \in BOOLEAN :
        /\ entries' = entries \ {d}
        /\ name' = [name EXCEPT !.disk[n] = d]
        /\ Open(<<"disk", n, "stat">>, File("disk", d, "stat"), there)
    /\ at' = "disks"
    /\ UNCHANGED <<count, todo, cur, world>>

EndDisk ==
    LET n == count.disk IN
    /\ at = "disks"
    /\ count' = [count EXCEPT !.disk = IF fd[<<"disk", n, "stat">>] # Bad THEN n + 1 ELSE n]
    /\ at' = "diskdir"
    /\ UNCHANGED <<table, fd, name, todo, entries, cur, world, full>>

CloseDiskDir ==
    /\ at = "diskdir" /\ (entries = {} \/ count.disk = MaxDisks)
    /\ at' = "ready"
    /\ CloseDir
    /\ UNCHANGED <<fd, count, name, todo, cur, world, full>>

-----------------------------------------------------------------------------
(* benchmon_monitor_destroy()                                              *)

(* The counts are off by one: the last slot of each array is not closed.   *)
Closed_NotLast == {fd[s] : s \in {t \in Counted : t[1] = "net" => t[2] < count.net - 1}} \ {Bad}

Closed == {fd[s] : s \in Counted} \ {Bad}

Drop ==
    /\ at = "ready" /\ at' = "null"
    /\ table' = [f \in Fds |-> IF f \in Closed THEN None ELSE table[f]]
    /\ fd' = Zeroed /\ count' = [core |-> 0, net |-> 0, disk |-> 0] /\ name' = NoNames
    /\ full' = FALSE
    /\ UNCHANGED <<todo, entries, cur, world>>

-----------------------------------------------------------------------------
(* The process opens and closes a file of its own between two calls; the   *)
(* world changes.  (SMT is switched by setup, which this process runs, or a *)
(* daemon when it starts; never while an init is running.)                 *)

Between == at \in {"null", "ready"}

OpenOwn ==
    /\ Between /\ \A f \in Fds : table[f] # Own
    /\ \E f \in Free : (\A g \in Free : f <= g) /\ table' = [table EXCEPT ![f] = Own]
    /\ UNCHANGED <<fd, count, name, at, todo, entries, cur, world, full>>

CloseOwn ==
    /\ Between
    /\ \E f \in Fds : table[f] = Own /\ table' = [table EXCEPT ![f] = None]
    /\ UNCHANGED <<fd, count, name, at, todo, entries, cur, world, full>>

(* A descriptor of one of its counters stays open and reads nothing more.  *)
IfaceDown ==
    /\ \E i \in up :
        /\ up' = up \ {i} /\ stayed' = [stayed EXCEPT !.net = @ \ {i}]
    /\ UNCHANGED <<table, fd, count, name, at, todo, entries, cur, online, full, racing>>

(* While an init is running, one interface comes up, once: a bound.        *)
IfaceUp ==
    /\ \E i \in Nets \ up :
        /\ Between \/ racing = {}
        /\ up' = up \cup {i}
        /\ racing' = IF Between THEN racing ELSE racing \cup {i}
    /\ UNCHANGED <<table, fd, count, name, at, todo, entries, cur, online, full, stayed>>

SwitchSmt ==
    /\ Between
    /\ online' \in {Cpus, Cpus \ Siblings} /\ online' # online
    /\ stayed' = [stayed EXCEPT !.core = @ \cap online']
    /\ UNCHANGED <<table, fd, count, name, at, todo, entries, cur, up, full, racing>>

Next ==
    \/ New \/ OpenCore \/ OpenNetDir \/ ReadNetDir \/ OpenCounter \/ EndNet \/ CloseNetDir
    \/ FindVeth \/ OpenDiskDir \/ OpenDisk \/ EndDisk \/ CloseDiskDir \/ Drop
    \/ OpenOwn \/ CloseOwn \/ IfaceDown \/ IfaceUp \/ SwitchSmt

Spec == Init /\ [][Next]_vars

-----------------------------------------------------------------------------
(* The file a field stands for.                                            *)
FileOf(s) == CASE s[1] = "mem"  -> MemFile
               [] s[1] = "core" -> File("core", s[2], s[3])
               [] s[1] = "net"  -> File("net", name.net[s[2]], s[3])
               [] s[1] = "disk" -> File("disk", name.disk[s[2]], "stat")

(* When benchmon_monitor_init() returns, each descriptor that destroy()    *)
(* will close is open on the file its field is named for, and no two fields*)
(* have the same: nothing is closed twice, and neither stdin nor a file of *)
(* the process is closed by a field left 0 by calloc() (monitor.c:470).    *)
Owned ==
    at = "ready" =>
      /\ \A s \in Counted : fd[s] # Bad => table[fd[s]] = FileOf(s)
      /\ \A s, t \in Counted : fd[s] = fd[t] /\ fd[s] # Bad => s = t

(* Between monitors, none of the descriptors of one is left: a TUI that    *)
(* refreshes all day does not run out of them.  The exception is the       *)
(* interface that appears between the failed open of its rx_bytes and that *)
(* of another counter: its slot is given up and not closed (monitor.c:115).*)
NoLeak ==
    at = "null" =>
      \A f \in Fds : \/ table[f] \in {None, Stdin, Own}
                     \/ /\ table[f].kind = "net" /\ table[f].what # RxBytes
                        /\ table[f].of \in racing

(* An interface that was there when the init began, and still is, has a    *)
(* slot all of whose counters are good, unless the array or the table of   *)
(* descriptors is full: a skipped interface takes no other with it, and the*)
(* slot of one that vanished goes to the next (monitor.c:191, 251).        *)
NothingMissed ==
    at = "ready" /\ ~full /\ (count.net < MaxNets \/ Cardinality(Nets) <= MaxNets) =>
      \A i \in stayed.net : \E n \in 0..(count.net - 1) :
        \A c \in Counters : LET f == fd[<<"net", n, c>>] IN
            f # Bad /\ table[f] = File("net", i, c)

(* "cores: Array of core IDs to monitor (NULL = all)" (benchmon.h:328): of *)
(* the cores that have been online since the init began, each that is      *)
(* numbered below how many they are is in the snapshot, as far as there is *)
(* room, with the counters that this machine has and not those of another. *)
(* Where hyperthreads are numbered after the cores, this is all of them;   *)
(* otherwise the code misses the rest when SMT is off (monitor.c:330).     *)
AllCoresRead ==
    at = "ready" /\ ~full =>
      \A c \in stayed.core : c < MaxCores /\ c < Cardinality(stayed.core) =>
        /\ c < count.core
        /\ \A e \in Events \ Denied : LET f == fd[<<"core", c, e>>] IN
              f # Bad /\ table[f] = File("core", c, e)

=============================================================================
