-------------------------------- MODULE Service --------------------------------
(***************************************************************************)
(* The life cycle of the benchmon daemon (tui/src/service.rs).             *)
(*                                                                         *)
(* Clients (a one-shot `benchmon service ...` command or the TUI) start,   *)
(* stop, enable and disable a daemon that they know only through the files *)
(* of /var/run/benchmon; every system call of an operation that touches    *)
(* shared state is one step, so that operations, daemons and systemd       *)
(* interleave.  A Pid is one incarnation of a process: a spawn takes an    *)
(* unborn one.                                                             *)
(*                                                                         *)
(* An operator Foo_Bug is a plausible wrong version of Foo; nothing here   *)
(* uses it.  Put in the place of Foo it must break a property.             *)
(***************************************************************************)
EXTENDS Naturals, FiniteSets

CONSTANTS
    Pids,        \* process incarnations
    Clients,     \* callers of the operations
    Tuis,        \* the clients that live on after an operation
    Roots,       \* the clients with uid 0
    Ops,         \* the operations clients invoke
    None,        \* no such file, or no process
    Empty,       \* the content of a PID file opened and not yet written
    Serial,      \* TRUE: an operation begins only when no other is under way
    Prompt,      \* TRUE: a child names itself, a signal arrives, within the polls
    Disciplined, \* TRUE: transient daemons and the unit are not mixed
    Failing,     \* the steps whose command or system call may fail for root
    StartPolls, StopPolls, EnablePolls,           \* iterations of the wait loops
    MaxOps, MaxCrashes, MaxReboots, MaxReuses     \* bounds of the model

AllOps == {"start", "stop", "enable", "disable", "status"}

(* Failures that an operation looks at, or that leave things as they were  *)
(* before it; and those that it ignores and goes on from.                  *)
ReportedSteps == {"spawn", "kill", "writeUnit", "enableUnit", "startUnit", "d_reload"}
IgnoredSteps  == {"forceKill", "rmPid", "rmSnap", "stopUnit", "disableUnit",
                  "d_rmUnit", "d_rmPid", "d_rmSnap", "d_rmMode"}
FailSteps     == ReportedSteps \cup IgnoredSteps

ASSUME PidAssumption == None \notin Pids /\ Empty \notin Pids /\ None # Empty
ASSUME ClientAssumption ==
    /\ Tuis \subseteq Clients /\ Roots \subseteq Clients
    /\ "systemd" \notin Clients /\ "init" \notin Clients
ASSUME OpsAssumption == Ops \subseteq AllOps
ASSUME SwitchAssumption == {Serial, Prompt, Disciplined} \subseteq BOOLEAN
ASSUME FailingAssumption == Failing \subseteq FailSteps
ASSUME BoundAssumption ==
    /\ {StartPolls, StopPolls, EnablePolls} \subseteq Nat \ {0}
    /\ {MaxOps, MaxCrashes, MaxReboots, MaxReuses} \subseteq Nat

VARIABLES
    proc,     \* the process table: one record per incarnation
    run,      \* /var/run/benchmon: the PID file, the mode file, snap.bin
    unit,     \* the unit file is installed, and enabled for boot
    systemd,  \* the state of benchmon.service
    client,   \* each client's operation, its next step and its last result
    used      \* how much of each bound of the model is used up

vars == <<proc, run, unit, systemd, client, used>>

LiveStates == {"boot", "naming", "named", "setup", "serve"}
ProbeSteps == {"start", "again", "startPoll", "stop", "stopPoll",
               "enablePoll", "status"}
StopSteps  == {"kill", "forceKill", "rmPid", "rmSnap"}
UnitSteps  == {"writeUnit", "enableUnit", "startUnit", "stopUnit", "stopping",
               "disableUnit", "d_rmUnit", "d_rmPid", "d_rmSnap", "d_rmMode", "d_reload"}
Steps == ProbeSteps \cup StopSteps \cup UnitSteps
         \cup {"idle", "spawn", "unlink", "ok", "err"}
Modes == {"transient", "persistent"}

Process == [st     : LiveStates \cup {"unborn", "zombie", "gone", "foreign"},
            mode   : Modes,
            parent : Clients \cup {"systemd", "init"},
            root   : BOOLEAN,
            sig    : BOOLEAN]   \* a signal is pending
RunDir  == [pid : Pids \cup {None, Empty}, mode : Modes \cup {None}, snap : BOOLEAN]
Client  == [op   : AllOps \cup {"none"},
            at   : Steps,                    \* the next step
            then : ProbeSteps \cup {"idle"}, \* the probe to resume after "unlink"
            pid  : Pids \cup {None},         \* the child, or the process to kill
            left : Nat,                      \* iterations left of a wait loop
            ret  : {"none", "ok", "err"}]    \* the last result

TypeOK ==
    /\ proc \in [Pids -> Process]
    /\ run \in RunDir
    /\ unit \in [file : BOOLEAN, enabled : BOOLEAN]
    /\ systemd \in {"inactive", "starting", "active", "stopping"}
    /\ client \in [Clients -> Client]
    /\ used \in [ops : 0..MaxOps, crashes : 0..MaxCrashes,
                 reboots : 0..MaxReboots, reuses : 0..MaxReuses]

Unborn == [st |-> "unborn", mode |-> "transient", parent |-> "init",
           root |-> FALSE, sig |-> FALSE]
Idle == [op |-> "none", at |-> "idle", then |-> "idle", pid |-> None,
         left |-> 0, ret |-> "none"]

Init ==
    /\ proc = [p \in Pids |-> Unborn]
    /\ run = [pid |-> None, mode |-> None, snap |-> FALSE]
    /\ unit = [file |-> FALSE, enabled |-> FALSE]
    /\ systemd = "inactive"
    /\ client = [c \in Clients |-> Idle]
    /\ used = [ops |-> 0, crashes |-> 0, reboots |-> 0, reuses |-> 0]

-----------------------------------------------------------------------------
(* Processes, and what daemon_pid() makes of the PID file.                 *)

Live(p) == proc[p].st \in LiveStates

(* A liveness test that trusts nothing but a serving daemon.               *)
InProc_ServingOnly(p) == proc[p].st = "serve"

(* /proc/<p> exists: also for a zombie, and for a stranger given the pid.  *)
InProc(p) == Live(p) \/ proc[p].st \in {"zombie", "foreign"}

(* The three outcomes of daemon_pid(): Some, None, and None after the      *)
(* removal of a stale file.  A PID file caught between open and write does *)
(* not parse.                                                              *)
Running == run.pid \in Pids /\ InProc(run.pid)
Absent  == run.pid \in {None, Empty}
Stale   == run.pid \in Pids /\ ~InProc(run.pid)

(* The process table once p has exited: its parent, while it lives, never  *)
(* waits for it.                                                           *)
Exited(p) ==
    [proc EXCEPT ![p].st = IF proc[p].parent \in Clients THEN "zombie" ELSE "gone",
                 ![p].sig = FALSE]

(* Without Restart=always.                                                 *)
AfterExit_NoRestart(p) ==
    IF proc[p].parent = "systemd" /\ systemd = "stopping" THEN "inactive" ELSE systemd

(* Restart=always: systemd restarts a main process that exits, unless it   *)
(* is stopping the unit.                                                   *)
AfterExit(p) ==
    IF proc[p].parent # "systemd" THEN systemd
    ELSE IF systemd = "stopping" THEN "inactive" ELSE "starting"

Spawned(p, by, mode, root) ==
    [proc EXCEPT ![p] = [st |-> "boot", mode |-> mode, parent |-> by,
                         root |-> root, sig |-> FALSE]]

(* The process table once client c has exited: init adopts its children    *)
(* and reaps the zombies among them.                                       *)
Orphaned(c) ==
    [p \in Pids |->
        IF proc[p].parent # c THEN proc[p]
        ELSE [proc[p] EXCEPT !.parent = "init",
                             !.st = IF @ = "zombie" THEN "gone" ELSE @]]

(* The signal goes to a wrong process.                                     *)
Signalled_Lost(c, p) == proc

(* kill(1) of pid p by client c: only root may signal the daemon, and a    *)
(* process that has exited has nothing to receive.                         *)
Signalled(c, p) ==
    IF c \in Roots /\ (Live(p) \/ proc[p].st = "foreign")
    THEN [proc EXCEPT ![p].sig = TRUE]
    ELSE proc

-----------------------------------------------------------------------------
(* The control flow of the operations around daemon_pid().                 *)

FirstStep_NoSystemctlStop(op) ==
    CASE op = "enable"  -> "writeUnit"
      [] op = "disable" -> "disableUnit"
      [] OTHER          -> op

FirstStep(op) ==
    CASE op = "enable"  -> "writeUnit"
      [] op = "disable" -> "stopUnit"
      [] OTHER          -> op

(* start() that does not look before it spawns.                            *)
IfRunning_StartAnyway(step) ==
    CASE step = "start" -> "spawn"
      [] step = "again" -> "err"
      [] step = "stop"  -> "kill"
      [] step = "stopPoll" -> "stopPoll"
      [] OTHER -> "ok"

(* The step that follows daemon_pid() = Some; the step itself: poll again. *)
IfRunning(step) ==
    CASE step = "start" -> "again"
      [] step = "again" -> "err"
      [] step = "stop"  -> "kill"
      [] step = "stopPoll" -> "stopPoll"
      [] OTHER -> "ok"

(* stop() that returns as soon as the daemon is gone.                      *)
IfDown_KeepsSnapshot(step) ==
    CASE step = "start"    -> "spawn"
      [] step \in {"again", "stop"} -> "err"
      [] step \in {"stopPoll", "status"} -> "ok"
      [] OTHER -> step

(* The step that follows daemon_pid() = None.                              *)
IfDown(step) ==
    CASE step = "start"    -> "spawn"
      [] step \in {"again", "stop"} -> "err"
      [] step = "stopPoll" -> "rmSnap"
      [] step = "status"   -> "ok"
      [] OTHER -> step

(* The step that follows a wait loop which ran out.                        *)
IfTimeout(step) ==
    CASE step = "startPoll" -> "err"
      [] step = "stopPoll"  -> "forceKill"
      [] OTHER -> "ok"

(* A wait loop that does not count.                                        *)
Resumed_Endless(r, step, next) ==
    [r EXCEPT !.at = next, !.then = "idle"]

(* Client record r resumed from probe `step', when `next' follows it.      *)
Resumed(r, step, next) ==
    IF next # step THEN [r EXCEPT !.at = next, !.then = "idle"]
    ELSE IF r.left > 1 THEN [r EXCEPT !.at = step, !.then = "idle", !.left = @ - 1]
    ELSE [r EXCEPT !.at = IfTimeout(step), !.then = "idle"]

(* The last poll of `start' finds the child already named or dead, the     *)
(* last poll of `stop' finds the signal delivered.  An assumption on       *)
(* timing, in force when Prompt holds.                                     *)
InTime(r, step) ==
    (Prompt /\ r.left <= 1 /\ r.pid \in Pids) =>
        /\ step = "startPoll" => proc[r.pid].st \notin {"boot", "naming"}
        /\ step = "stopPoll"  => ~proc[r.pid].sig

At(c, step) == client[c].at = step
Goto(c, step) == client' = [client EXCEPT ![c].at = step]

-----------------------------------------------------------------------------
(* Operations: beginning, probing, returning.                              *)

(* Proper use: `start' with no unit installed, `enable' and `disable' with *)
(* no transient daemon about.  An assumption on the user, in force when    *)
(* Disciplined.                                                            *)
Proper(op) ==
    /\ op = "start" => ~unit.file
    /\ op \in {"enable", "disable"} =>
        \A p \in Pids : Live(p) => proc[p].mode = "persistent"

(* A caller invokes op; require_root() turns others than root away.  The   *)
(* results of earlier operations are forgotten.                            *)
Begin(c, op) ==
    /\ At(c, "idle") /\ used.ops < MaxOps
    /\ Serial => \A d \in Clients : At(d, "idle")
    /\ Disciplined => Proper(op)
    /\ client' = [d \in Clients |->
                    IF d = c
                    THEN [Idle EXCEPT !.op = op,
                                      !.at = IF op \in {"enable", "disable"} /\ c \notin Roots
                                             THEN "err" ELSE FirstStep(op)]
                    ELSE IF At(d, "idle") THEN Idle ELSE client[d]]
    /\ used' = [used EXCEPT !.ops = @ + 1]
    /\ UNCHANGED <<proc, run, unit, systemd>>

(* daemon_pid() reads the PID file and looks for the process in /proc, in  *)
(* one step: a pid once gone stays gone, so taking the two calls apart     *)
(* adds only the case of a second daemon that overwrites the file between  *)
(* them.                                                                   *)
DaemonPid(c) ==
    LET r == client[c] IN
    /\ r.at \in ProbeSteps
    /\ InTime(r, r.at)
    /\ \/ /\ Running
          /\ client' = [client EXCEPT ![c] =
                          Resumed(IF r.at = "stop" THEN [r EXCEPT !.pid = run.pid,
                                                                  !.left = StopPolls]
                                  ELSE r, r.at, IfRunning(r.at))]
       \/ /\ Absent
          /\ client' = [client EXCEPT ![c] = Resumed(r, r.at, IfDown(r.at))]
       \/ /\ Stale
          /\ client' = [client EXCEPT ![c].at = "unlink", ![c].then = r.at]
    /\ UNCHANGED <<proc, run, unit, systemd, used>>

(* daemon_pid() removes the file it found stale, whatever it holds by now. *)
Unlink(c) ==
    LET r == client[c] IN
    /\ At(c, "unlink")
    /\ run' = IF c \in Roots THEN [run EXCEPT !.pid = None] ELSE run
    /\ client' = [client EXCEPT ![c] = Resumed(r, r.then, IfDown(r.then))]
    /\ UNCHANGED <<proc, unit, systemd, used>>

(* The operation returns: a command exits, the TUI goes on.                *)
Return(c) ==
    /\ client[c].at \in {"ok", "err"}
    /\ client' = [client EXCEPT ![c].at = "idle", ![c].ret = client[c].at]
    /\ proc' = IF c \in Tuis THEN proc ELSE Orphaned(c)
    /\ UNCHANGED <<run, unit, systemd, used>>

(* The TUI quits.                                                          *)
TuiExit(c) ==
    /\ c \in Tuis /\ At(c, "idle")
    /\ \E p \in Pids : proc[p].parent = c
    /\ proc' = Orphaned(c)
    /\ UNCHANGED <<run, unit, systemd, client, used>>

-----------------------------------------------------------------------------
(* start() and stop().                                                     *)

Spawn(c) ==
    /\ At(c, "spawn")
    /\ \E p \in Pids :
        /\ proc[p].st = "unborn"
        /\ proc' = Spawned(p, c, "transient", c \in Roots)
        /\ client' = [client EXCEPT ![c].at = "startPoll", ![c].pid = p,
                                    ![c].left = StartPolls]
    /\ UNCHANGED <<run, unit, systemd, used>>

(* `kill -TERM', then `kill -KILL' once the polls have run out: the exit   *)
(* status of either is not looked at.                                      *)
Kill(c) ==
    /\ client[c].at \in {"kill", "forceKill"}
    /\ proc' = Signalled(c, client[c].pid)
    /\ Goto(c, IF At(c, "kill") THEN "stopPoll" ELSE "rmPid")
    /\ UNCHANGED <<run, unit, systemd, used>>

(* remove_file() of a file of /var/run/benchmon, its result ignored.       *)
Removed(c, step) ==
    IF c \notin Roots THEN run
    ELSE IF step \in {"rmPid", "d_rmPid"} THEN [run EXCEPT !.pid = None]
    ELSE IF step \in {"rmSnap", "d_rmSnap"} THEN [run EXCEPT !.snap = FALSE]
    ELSE [run EXCEPT !.mode = None]

AfterRemove_KeepsMode(step) ==
    CASE step = "rmPid"   -> "rmSnap"
      [] step = "d_rmPid" -> "d_rmSnap"
      [] step = "d_rmSnap" -> "d_reload"
      [] OTHER -> "ok"

AfterRemove(step) ==
    CASE step = "rmPid"    -> "rmSnap"
      [] step = "d_rmPid"  -> "d_rmSnap"
      [] step = "d_rmSnap" -> "d_rmMode"
      [] step = "d_rmMode" -> "d_reload"
      [] OTHER -> "ok"

Remove(c) ==
    /\ client[c].at \in {"rmPid", "rmSnap", "d_rmPid", "d_rmSnap", "d_rmMode"}
    /\ run' = Removed(c, client[c].at)
    /\ Goto(c, AfterRemove(client[c].at))
    /\ UNCHANGED <<proc, unit, systemd, used>>

-----------------------------------------------------------------------------
(* enable() and disable().                                                 *)

(* The steps of either that leave files of the unit: the unit file, and    *)
(* the link of `systemctl enable', which takes a unit file.  The           *)
(* daemon-reload before that link changes nothing here.                    *)
UnitAfter(step) ==
    CASE step = "writeUnit"   -> [unit EXCEPT !.file = TRUE]
      [] step = "enableUnit"  -> [unit EXCEPT !.enabled = unit.file]
      [] step = "disableUnit" -> [unit EXCEPT !.enabled = FALSE]
      [] OTHER                -> [unit EXCEPT !.file = FALSE]

AfterUnit(step) ==
    CASE step = "writeUnit"   -> "enableUnit"
      [] step = "enableUnit"  -> "startUnit"
      [] step = "disableUnit" -> "d_rmUnit"
      [] OTHER                -> "d_rmPid"

ChangeUnit(c) ==
    /\ client[c].at \in {"writeUnit", "enableUnit", "disableUnit", "d_rmUnit"}
    /\ unit' = UnitAfter(client[c].at)
    /\ Goto(c, AfterUnit(client[c].at))
    /\ UNCHANGED <<proc, run, systemd, used>>

(* `systemctl start': nothing to do for a unit that is up or missing; a    *)
(* unit being stopped is started once it is down.                          *)
StartUnit(c) ==
    /\ At(c, "startUnit") /\ systemd # "stopping"
    /\ systemd' = IF systemd = "inactive" /\ unit.file THEN "starting" ELSE systemd
    /\ client' = [client EXCEPT ![c].at = "enablePoll", ![c].left = EnablePolls]
    /\ UNCHANGED <<proc, run, unit, used>>

(* `systemctl stop' signals the main process and waits for its exit.       *)
StopUnit(c) ==
    /\ At(c, "stopUnit")
    /\ proc' = [p \in Pids |-> IF Live(p) /\ proc[p].parent = "systemd"
                               THEN [proc[p] EXCEPT !.sig = TRUE] ELSE proc[p]]
    /\ systemd' = IF systemd \in {"active", "stopping"} THEN "stopping" ELSE "inactive"
    /\ Goto(c, "stopping")
    /\ UNCHANGED <<run, unit, used>>

UnitStopped(c) ==
    /\ At(c, "stopping") /\ systemd # "stopping"
    /\ Goto(c, "disableUnit")
    /\ UNCHANGED <<proc, run, unit, systemd, used>>

(* The daemon-reload at the end of disable().                              *)
Reload(c) ==
    /\ At(c, "d_reload") /\ Goto(c, "ok")
    /\ UNCHANGED <<proc, run, unit, systemd, used>>

-----------------------------------------------------------------------------
(* Failing commands and system calls.                                      *)

(* Where the operation goes on.  An error of fs::write(), or of a command  *)
(* that cannot be run, is returned; the exit status of a command that was  *)
(* run is looked at nowhere, and stop() and disable() try their last steps *)
(* and forget what came of them.                                           *)
FailsTo(step) ==
    CASE step = "enableUnit" -> {"err", "startUnit"}
      [] step = "startUnit"  -> {"err", "enablePoll"}
      [] step = "forceKill"  -> {"rmPid"}
      [] step = "stopUnit"   -> {"disableUnit"}
      [] step \in {"disableUnit", "d_rmUnit"} -> {AfterUnit(step)}
      [] step \in {"rmPid", "rmSnap", "d_rmPid", "d_rmSnap", "d_rmMode"} -> {AfterRemove(step)}
      [] OTHER -> {"err"}

(* A step of client c fails: it leaves everything as it was but where the  *)
(* operation goes on.                                                      *)
StepFails(c) ==
    /\ client[c].at \in Failing
    /\ \E next \in FailsTo(client[c].at) :
        client' = [client EXCEPT ![c].at = next,
                                 ![c].left = IF next = "enablePoll" THEN EnablePolls ELSE @]
    /\ UNCHANGED <<proc, run, unit, systemd, used>>

-----------------------------------------------------------------------------
(* The daemon: run_daemon().                                               *)

(* fs::write(PID_FILE) truncates before it writes; without root neither    *)
(* the directory nor the file can be made, and the process returns.        *)
OpenPidFile(p) ==
    /\ proc[p].st = "boot" /\ proc[p].root
    /\ proc' = [proc EXCEPT ![p].st = "naming"]
    /\ run' = [run EXCEPT !.pid = Empty]
    /\ UNCHANGED <<unit, systemd, client, used>>

NotRoot(p) ==
    /\ proc[p].st = "boot" /\ ~proc[p].root
    /\ proc' = Exited(p)
    /\ UNCHANGED <<run, unit, systemd, client, used>>

WritePid(p) ==
    /\ proc[p].st = "naming"
    /\ proc' = [proc EXCEPT ![p].st = "named"]
    /\ run' = [run EXCEPT !.pid = p]
    /\ UNCHANGED <<unit, systemd, client, used>>

(* The mode is written once per boot of the machine.                       *)
WriteMode_Once(p) ==
    /\ proc[p].st = "named"
    /\ proc' = [proc EXCEPT ![p].st = "setup"]
    /\ run' = [run EXCEPT !.mode = IF @ = None THEN proc[p].mode ELSE @]
    /\ UNCHANGED <<unit, systemd, client, used>>

WriteMode(p) ==
    /\ proc[p].st = "named"
    /\ proc' = [proc EXCEPT ![p].st = "setup"]
    /\ run' = [run EXCEPT !.mode = proc[p].mode]
    /\ UNCHANGED <<unit, systemd, client, used>>

(* run_setup() has returned and Monitor::new() has succeeded.              *)
MonitorReady(p) ==
    /\ proc[p].st = "setup"
    /\ proc' = [proc EXCEPT ![p].st = "serve"]
    /\ UNCHANGED <<run, unit, systemd, client, used>>

(* Monitor::new() has failed: the daemon removes the PID file, whoever     *)
(* wrote it, and returns.  Counted with the crashes.                       *)
MonitorFails(p) ==
    /\ proc[p].st = "setup" /\ used.crashes < MaxCrashes
    /\ run' = [run EXCEPT !.pid = None]
    /\ proc' = Exited(p)
    /\ systemd' = AfterExit(p)
    /\ used' = [used EXCEPT !.crashes = @ + 1]
    /\ UNCHANGED <<unit, client>>

(* The main loop renames a new snapshot over snap.bin.                     *)
Publish(p) ==
    /\ proc[p].st = "serve"
    /\ run' = [run EXCEPT !.snap = TRUE]
    /\ UNCHANGED <<proc, unit, systemd, client, used>>

(* A signal is delivered: SIGTERM has its default action.                  *)
Die(p) ==
    /\ proc[p].sig
    /\ proc' = Exited(p)
    /\ systemd' = AfterExit(p)
    /\ UNCHANGED <<run, unit, client, used>>

Crash(p) ==
    /\ Live(p) /\ used.crashes < MaxCrashes
    /\ proc' = Exited(p)
    /\ systemd' = AfterExit(p)
    /\ used' = [used EXCEPT !.crashes = @ + 1]
    /\ UNCHANGED <<run, unit, client>>

-----------------------------------------------------------------------------
(* The environment.                                                        *)

(* systemd runs ExecStart: after `systemctl start', at boot, or RestartSec *)
(* after the exit of the main process.                                     *)
SystemdSpawn ==
    /\ systemd = "starting"
    /\ systemd' = "active"
    /\ \E p \in Pids :
        /\ proc[p].st = "unborn"
        /\ proc' = Spawned(p, "systemd", "persistent", TRUE)
    /\ UNCHANGED <<run, unit, client, used>>

(* The machine restarts: /var/run is empty, an enabled unit is started.    *)
Reboot ==
    /\ used.reboots < MaxReboots
    /\ used' = [used EXCEPT !.reboots = @ + 1]
    /\ proc' = [p \in Pids |-> IF proc[p].st = "unborn" THEN proc[p]
                               ELSE [Unborn EXCEPT !.st = "gone"]]
    /\ run' = [pid |-> None, mode |-> None, snap |-> FALSE]
    /\ systemd' = IF unit.file /\ unit.enabled THEN "starting" ELSE "inactive"
    /\ client' = [c \in Clients |-> Idle]
    /\ UNCHANGED unit

(* The kernel gives the pid of a process that is gone to a stranger.       *)
PidReused(p) ==
    /\ proc[p].st = "gone" /\ used.reuses < MaxReuses
    /\ proc' = [proc EXCEPT ![p] = [Unborn EXCEPT !.st = "foreign"]]
    /\ used' = [used EXCEPT !.reuses = @ + 1]
    /\ UNCHANGED <<run, unit, systemd, client>>

-----------------------------------------------------------------------------
ClientStep(c) ==
    \/ DaemonPid(c) \/ Unlink(c) \/ Return(c)
    \/ Spawn(c) \/ Kill(c) \/ Remove(c)
    \/ ChangeUnit(c) \/ StartUnit(c) \/ StopUnit(c) \/ UnitStopped(c) \/ Reload(c)
    \/ StepFails(c)

DaemonStep(p) ==
    \/ OpenPidFile(p) \/ NotRoot(p) \/ WritePid(p) \/ WriteMode(p)
    \/ MonitorReady(p)

Next ==
    \/ \E c \in Clients :
        \/ \E op \in Ops : Begin(c, op)
        \/ ClientStep(c)
        \/ TuiExit(c)
    \/ \E p \in Pids :
        \/ DaemonStep(p) \/ MonitorFails(p) \/ Publish(p)
        \/ Die(p) \/ Crash(p) \/ PidReused(p)
    \/ SystemdSpawn
    \/ Reboot

Spec == Init /\ [][Next]_vars

(* Every client, daemon and pending signal makes progress; nobody has to   *)
(* invoke an operation, to quit, to crash or to reboot.                    *)
Fairness ==
    /\ \A c \in Clients : WF_vars(ClientStep(c))
    /\ \A p \in Pids : WF_vars(DaemonStep(p)) /\ WF_vars(Die(p))
    /\ WF_vars(SystemdSpawn)

FairSpec == Spec /\ Fairness

-----------------------------------------------------------------------------
(* Properties.                                                             *)

(* A process on its way to serving; without root it never gets there.      *)
Daemon(p) == Live(p) /\ proc[p].root

(* At no time do two daemons run: nothing but the probe of start() and the *)
(* PID file keeps a second one from being spawned (service.rs:109), and    *)
(* two daemons would write the same snap.tmp.                              *)
AtMostOneDaemon == \A p, q \in Pids : Daemon(p) /\ Daemon(q) => p = q

(* A daemon that has named itself is the one the PID file names, so that   *)
(* status, stop and the TUI can reach it (service.rs:305-310): no probe,   *)
(* crash or removal ever orphans a running daemon.                         *)
DaemonReachable ==
    \A p \in Pids : proc[p].st \in {"named", "setup", "serve"} => run.pid = p

(* Results count until the next operation begins.                          *)
Returned(c, op) == At(c, "idle") /\ client[c].op = op /\ client[c].ret = "ok"

(* Once stop() has returned Ok to root, the daemon it found is dead or is  *)
(* about to die of a signal, whatever else runs at the same time           *)
(* (service.rs:135, main.rs:57 "Daemon stopped.").                         *)
StopOkTargetDown ==
    \A c \in Roots :
        Returned(c, "stop") => ~Live(client[c].pid) \/ proc[client[c].pid].sig

(* Once stop() has returned Ok to root, no daemon runs until somebody      *)
(* starts one or the machine reboots (app.rs:715 "daemon will restart on   *)
(* next boot").                                                            *)
StoppedStaysStopped ==
    \A c \in Roots : Returned(c, "stop") => \A p \in Pids : ~Daemon(p)

(* Once disable() has returned Ok, no daemon runs and no unit is left to   *)
(* bring one back (main.rs:8 "Remove systemd unit + stop daemon").         *)
DisabledIsDown ==
    \A c \in Clients :
        Returned(c, "disable") =>
            /\ \A p \in Pids : ~Daemon(p)
            /\ ~unit.file /\ ~unit.enabled
            /\ systemd = "inactive"

(* What stop() and disable() leave behind in /var/run/benchmon             *)
(* (service.rs:149, 158-159, 232-235): no PID file, and no snapshot that   *)
(* the next reader would take for live data.                               *)
StopLeavesNothing ==
    \A c \in Roots : Returned(c, "stop") => run.pid = None /\ ~run.snap

(* See StopLeavesNothing; disable() removes the mode file as well.         *)
DisableLeavesNothing ==
    \A c \in Roots :
        Returned(c, "disable") => run = [pid |-> None, mode |-> None, snap |-> FALSE]

(* The mode file, which status_string() prints next to the pid, is that of *)
(* the serving daemon (service.rs:73, 263, 311).                           *)
ModeIsDaemons ==
    \A p \in Pids : proc[p].st \in {"setup", "serve"} => run.mode = proc[p].mode

(* Every operation returns, or the machine reboots under it: each wait is  *)
(* bounded and systemctl stop waits only for a process that was signalled. *)
OperationsReturn == \A c \in Clients : ~At(c, "idle") ~> At(c, "idle")

(* Restart=always and WantedBy=multi-user.target (service.rs:186, 194): a  *)
(* unit that is due to start has a daemon serving again, or is stopped.    *)
PersistentRecovers ==
    systemd = "starting" ~>
        \/ systemd = "inactive"
        \/ \E p \in Pids : proc[p].st = "serve" /\ proc[p].mode = "persistent"

=============================================================================
