----------------------------- MODULE ServiceProofs -----------------------------
(* Theorems about Service, for every set of processes and clients and      *)
(* every value of the bounds.                                              *)
EXTENDS Service, TLAPS

(* ------------------------------ types ---------------------------------- *)

LEMMA InitTypes == Init => TypeOK
<1>1. Unborn \in Process /\ Idle \in Client
  BY DEF Unborn, Process, Modes, Idle, Client, Steps
<1> QED  BY <1>1, BoundAssumption DEF Init, TypeOK, RunDir

LEMMA StepTables ==
    ASSUME NEW step \in Steps
    PROVE  /\ IfRunning(step) \in Steps /\ IfDown(step) \in Steps
           /\ IfTimeout(step) \in Steps /\ AfterRemove(step) \in Steps
           /\ AfterUnit(step) \in Steps
           /\ FailsTo(step) \subseteq Steps
BY DEF IfRunning, IfDown, IfTimeout, AfterRemove, AfterUnit, FailsTo, Steps, ProbeSteps,
       StopSteps, UnitSteps

LEMMA ProcTypes ==
    ASSUME proc \in [Pids -> Process]
    PROVE  /\ \A p \in Pids : Exited(p) \in [Pids -> Process]
           /\ \A c \in Clients : Orphaned(c) \in [Pids -> Process]
           /\ \A c \in Clients, p \in Pids : Signalled(c, p) \in [Pids -> Process]
<1>1. \A p \in Pids : Exited(p) \in [Pids -> Process]
  <2> SUFFICES ASSUME NEW p \in Pids PROVE Exited(p) \in [Pids -> Process]
    OBVIOUS
  <2>1. ASSUME NEW st \in {"zombie", "gone"}
        PROVE  [proc[p] EXCEPT !.st = st, !.sig = FALSE] \in Process
    BY DEF Process
  <2>2. \E st \in {"zombie", "gone"} :
          Exited(p) = [proc EXCEPT ![p] = [proc[p] EXCEPT !.st = st, !.sig = FALSE]]
    BY DEF Exited
  <2> QED  BY <2>1, <2>2
<1>2. \A c \in Clients : Orphaned(c) \in [Pids -> Process]
  BY DEF Orphaned, Process
<1>3. \A c \in Clients, p \in Pids : Signalled(c, p) \in [Pids -> Process]
  BY DEF Signalled, Process
<1> QED  BY <1>1, <1>2, <1>3

LEMMA SpawnedType ==
    ASSUME proc \in [Pids -> Process], NEW p \in Pids, NEW by \in Clients \cup {"systemd"},
           NEW mode \in Modes, NEW root \in BOOLEAN
    PROVE  Spawned(p, by, mode, root) \in [Pids -> Process]
<1>1. [st |-> "boot", mode |-> mode, parent |-> by, root |-> root, sig |-> FALSE] \in Process
  BY DEF Process, LiveStates
<1> QED  BY <1>1 DEF Spawned

LEMMA ResumedType ==
    ASSUME NEW r \in Client, NEW step \in Steps, NEW next \in Steps
    PROVE  Resumed(r, step, next) \in Client
<1>1. ASSUME NEW at \in Steps, NEW left \in Nat
      PROVE  [r EXCEPT !.at = at, !.then = "idle", !.left = left] \in Client
  BY DEF Client
<1>2. ASSUME NEW at \in Steps
      PROVE  [r EXCEPT !.at = at, !.then = "idle"] \in Client
  BY DEF Client
<1>3. step \in Steps /\ IfTimeout(step) \in Steps
  BY StepTables
<1>4. r.left \in Nat /\ (r.left > 1 => r.left - 1 \in Nat)
  BY DEF Client
<1> QED  BY <1>1, <1>2, <1>3, <1>4 DEF Resumed

LEMMA StepTypes == TypeOK /\ [Next]_vars => TypeOK'
<1> SUFFICES ASSUME TypeOK, [Next]_vars PROVE TypeOK'
  OBVIOUS
<1>1. ASSUME NEW c \in Clients, NEW op \in Ops, Begin(c, op) PROVE TypeOK'
  <2>1. op \in AllOps /\ Idle \in Client
    BY OpsAssumption DEF Idle, Client, Steps
  <2>2. ASSUME NEW at \in Steps PROVE [Idle EXCEPT !.op = op, !.at = at] \in Client
    BY <2>1 DEF Client
  <2>3. FirstStep(op) \in Steps /\ "err" \in Steps
    BY <2>1 DEF FirstStep, AllOps, Steps, ProbeSteps, UnitSteps
  <2>4. client' \in [Clients -> Client]
    BY <1>1, <2>1, <2>2, <2>3 DEF Begin, TypeOK
  <2>5. used' \in [ops : 0..MaxOps, crashes : 0..MaxCrashes,
                   reboots : 0..MaxReboots, reuses : 0..MaxReuses]
    BY <1>1, BoundAssumption DEF Begin, TypeOK
  <2> QED  BY <1>1, <2>4, <2>5 DEF Begin, TypeOK
<1>2. ASSUME NEW c \in Clients, DaemonPid(c) PROVE TypeOK'
  <2> DEFINE r == client[c]
  <2>1. r \in Client /\ r.at \in ProbeSteps /\ r.at \in Steps
    BY <1>2 DEF DaemonPid, TypeOK, Client
  <2>2. run.pid \in Pids => [r EXCEPT !.pid = run.pid, !.left = StopPolls] \in Client
    BY <2>1, BoundAssumption DEF Client
  <2>3. IfRunning(r.at) \in Steps /\ IfDown(r.at) \in Steps
    BY <2>1, StepTables
  <2>4. [r EXCEPT !.at = "unlink", !.then = r.at] \in Client
    BY <2>1 DEF Client, Steps
  <2>5. CASE Running /\ client' = [client EXCEPT ![c] =
                          Resumed(IF r.at = "stop" THEN [r EXCEPT !.pid = run.pid,
                                                                  !.left = StopPolls]
                                  ELSE r, r.at, IfRunning(r.at))]
    <3>1. client'[c] \in Client
      BY <2>1, <2>2, <2>3, <2>5, ResumedType DEF Running, TypeOK
    <3> QED  BY <1>2, <2>5, <3>1 DEF DaemonPid, TypeOK
  <2>6. CASE client' = [client EXCEPT ![c] = Resumed(r, r.at, IfDown(r.at))]
    BY <1>2, <2>1, <2>3, <2>6, ResumedType DEF DaemonPid, TypeOK
  <2>7. CASE client' = [client EXCEPT ![c].at = "unlink", ![c].then = r.at]
    BY <1>2, <2>4, <2>7 DEF DaemonPid, TypeOK
  <2> QED  BY <1>2, <2>5, <2>6, <2>7 DEF DaemonPid
<1>3. ASSUME NEW c \in Clients, Unlink(c) PROVE TypeOK'
  <2> DEFINE r == client[c]
  <2>1. r \in Client /\ r.then \in Steps
    BY DEF TypeOK, Client, Steps
  <2>2. Resumed(r, r.then, IfDown(r.then)) \in Client
    BY <2>1, StepTables, ResumedType
  <2>3. run' \in RunDir
    BY <1>3 DEF Unlink, TypeOK, RunDir
  <2> QED  BY <1>3, <2>2, <2>3 DEF Unlink, TypeOK
<1>4. ASSUME NEW c \in Clients, Return(c) PROVE TypeOK'
  <2> DEFINE r == client[c]
  <2>a. r \in Client /\ r.at \in {"ok", "err"}
    BY <1>4 DEF Return, TypeOK
  <2>b. "idle" \in Steps
    BY DEF Steps
  <2>1. [r EXCEPT !.at = "idle", !.ret = r.at] \in Client
    BY <2>a, <2>b DEF Client
  <2>2. client' \in [Clients -> Client]
    BY <1>4, <2>1 DEF Return, TypeOK
  <2>3. proc' \in [Pids -> Process]
    BY <1>4, ProcTypes DEF Return, TypeOK
  <2> QED  BY <1>4, <2>2, <2>3 DEF Return, TypeOK
<1>5. ASSUME NEW c \in Clients, TuiExit(c) PROVE TypeOK'
  BY <1>5, ProcTypes DEF TuiExit, TypeOK
<1>6. ASSUME NEW c \in Clients, Spawn(c) PROVE TypeOK'
  <2>1. PICK p \in Pids : /\ proc' = Spawned(p, c, "transient", c \in Roots)
                          /\ client' = [client EXCEPT ![c].at = "startPoll", ![c].pid = p,
                                                      ![c].left = StartPolls]
    BY <1>6 DEF Spawn
  <2>2. [client[c] EXCEPT !.at = "startPoll", !.pid = p, !.left = StartPolls] \in Client
    <3>1. client[c] \in Client /\ StartPolls \in Nat /\ "startPoll" \in Steps
      BY BoundAssumption DEF TypeOK, Steps, ProbeSteps
    <3> QED  BY <3>1 DEF Client
  <2>3. proc' \in [Pids -> Process]
    <3>1. (c \in Roots) \in BOOLEAN /\ "transient" \in Modes
      BY DEF Modes
    <3> QED  BY <2>1, <3>1, SpawnedType DEF TypeOK
  <2>4. client' \in [Clients -> Client]
    BY <2>1, <2>2 DEF TypeOK
  <2> QED  BY <1>6, <2>3, <2>4 DEF Spawn, TypeOK
<1>7. ASSUME NEW c \in Clients, NEW step \in Steps, Goto(c, step)
      PROVE  client' \in [Clients -> Client]
  <2>1. [client[c] EXCEPT !.at = step] \in Client
    BY DEF TypeOK, Client
  <2> QED  BY <1>7, <2>1 DEF Goto, TypeOK
<1>8. ASSUME NEW c \in Clients, Kill(c) PROVE TypeOK'
  <2>1. proc' \in [Pids -> Process]
    <3>1. CASE client[c].pid \in Pids
      BY <1>8, <3>1, ProcTypes DEF Kill, TypeOK
    <3>2. CASE client[c].pid \notin Pids
      BY <1>8, <3>2 DEF Kill, TypeOK, Signalled
    <3> QED  BY <3>1, <3>2
  <2>2. client' \in [Clients -> Client]
    BY <1>8, <1>7 DEF Kill, Steps, ProbeSteps, StopSteps
  <2> QED  BY <1>8, <2>1, <2>2 DEF Kill, TypeOK
<1>9. ASSUME NEW c \in Clients, Remove(c) PROVE TypeOK'
  <2>1. client[c].at \in Steps
    BY DEF TypeOK, Client
  <2>2. client' \in [Clients -> Client]
    BY <1>9, <1>7, <2>1, StepTables DEF Remove
  <2>3. run' \in RunDir
    BY <1>9 DEF Remove, Removed, TypeOK, RunDir
  <2> QED  BY <1>9, <2>2, <2>3 DEF Remove, TypeOK
<1>10. ASSUME NEW c \in Clients, ChangeUnit(c) PROVE TypeOK'
  <2>1. client[c].at \in Steps
    BY DEF TypeOK, Client
  <2>2. client' \in [Clients -> Client]
    BY <1>10, <1>7, <2>1, StepTables DEF ChangeUnit
  <2>3. unit' \in [file : BOOLEAN, enabled : BOOLEAN]
    BY <1>10 DEF ChangeUnit, UnitAfter, TypeOK
  <2> QED  BY <1>10, <2>2, <2>3 DEF ChangeUnit, TypeOK
<1>11. ASSUME NEW c \in Clients, StartUnit(c) PROVE TypeOK'
  <2>1. [client[c] EXCEPT !.at = "enablePoll", !.left = EnablePolls] \in Client
    <3>1. client[c] \in Client /\ EnablePolls \in Nat /\ "enablePoll" \in Steps
      BY BoundAssumption DEF TypeOK, Steps, ProbeSteps
    <3> QED  BY <3>1 DEF Client
  <2> QED  BY <1>11, <2>1 DEF StartUnit, TypeOK
<1>12. ASSUME NEW c \in Clients, StopUnit(c) PROVE TypeOK'
  <2>1. \A p \in Pids : [proc[p] EXCEPT !.sig = TRUE] \in Process
    BY DEF TypeOK, Process
  <2>2. client' \in [Clients -> Client]
    BY <1>12, <1>7 DEF StopUnit, Steps, UnitSteps
  <2> QED  BY <1>12, <2>1, <2>2 DEF StopUnit, TypeOK
<1>13. ASSUME NEW c \in Clients, UnitStopped(c) PROVE TypeOK'
  <2>1. client' \in [Clients -> Client]
    BY <1>13, <1>7 DEF UnitStopped, Steps, UnitSteps
  <2> QED  BY <1>13, <2>1 DEF UnitStopped, TypeOK
<1>23. ASSUME NEW c \in Clients, Reload(c) PROVE TypeOK'
  <2>1. client' \in [Clients -> Client]
    BY <1>23, <1>7 DEF Reload, Steps
  <2> QED  BY <1>23, <2>1 DEF Reload, TypeOK
<1>24. ASSUME NEW c \in Clients, StepFails(c) PROVE TypeOK'
  <2>1. client[c].at \in Steps /\ client[c].left \in Nat /\ EnablePolls \in Nat
    BY BoundAssumption DEF TypeOK, Client
  <2>2. PICK next \in FailsTo(client[c].at) :
          client' = [client EXCEPT ![c].at = next,
                                   ![c].left = IF next = "enablePoll" THEN EnablePolls ELSE @]
    BY <1>24 DEF StepFails
  <2>3. next \in Steps
    BY <2>1, StepTables
  <2>4. ASSUME NEW left \in Nat
        PROVE  [client[c] EXCEPT !.at = next, !.left = left] \in Client
    BY <2>3 DEF TypeOK, Client
  <2>5. client' \in [Clients -> Client]
    BY <2>1, <2>2, <2>4 DEF TypeOK
  <2> QED  BY <1>24, <2>5 DEF StepFails, TypeOK
<1>14. ASSUME NEW p \in Pids, NEW st \in LiveStates
       PROVE  [proc EXCEPT ![p].st = st] \in [Pids -> Process]
  <2>1. [proc[p] EXCEPT !.st = st] \in Process
    BY DEF TypeOK, Process
  <2> QED  BY <2>1 DEF TypeOK
<1>15. ASSUME NEW p \in Pids, DaemonStep(p) PROVE TypeOK'
  <2>1. CASE OpenPidFile(p)
    BY <2>1, <1>14 DEF OpenPidFile, TypeOK, RunDir, LiveStates
  <2>2. CASE NotRoot(p)
    BY <2>2, ProcTypes DEF NotRoot, TypeOK
  <2>3. CASE WritePid(p)
    BY <2>3, <1>14 DEF WritePid, TypeOK, RunDir, LiveStates
  <2>4. CASE WriteMode(p)
    <3>1. run' \in RunDir
      BY <2>4 DEF WriteMode, TypeOK, RunDir, Process
    <3> QED  BY <2>4, <3>1, <1>14 DEF WriteMode, TypeOK, LiveStates
  <2>5. CASE MonitorReady(p)
    BY <2>5, <1>14 DEF MonitorReady, TypeOK, LiveStates
  <2> QED  BY <1>15, <2>1, <2>2, <2>3, <2>4, <2>5 DEF DaemonStep
<1>16. ASSUME NEW p \in Pids, MonitorFails(p) \/ Die(p) \/ Crash(p) PROVE TypeOK'
  <2>1. AfterExit(p) \in {"inactive", "starting", "active", "stopping"}
    BY DEF AfterExit, TypeOK
  <2>2. /\ [run EXCEPT !.pid = None] \in RunDir
        /\ used.crashes < MaxCrashes =>
             [used EXCEPT !.crashes = @ + 1]
                \in [ops : 0..MaxOps, crashes : 0..MaxCrashes,
                     reboots : 0..MaxReboots, reuses : 0..MaxReuses]
    BY BoundAssumption DEF TypeOK, RunDir
  <2>3. Exited(p) \in [Pids -> Process]
    BY ProcTypes DEF TypeOK
  <2>4. CASE MonitorFails(p)
    BY <2>1, <2>2, <2>3, <2>4 DEF MonitorFails, TypeOK
  <2>5. CASE Die(p)
    BY <2>1, <2>3, <2>5 DEF Die, TypeOK
  <2>6. CASE Crash(p)
    BY <2>1, <2>2, <2>3, <2>6 DEF Crash, TypeOK
  <2> QED  BY <1>16, <2>4, <2>5, <2>6
<1>17. ASSUME NEW p \in Pids, Publish(p) PROVE TypeOK'
  BY <1>17 DEF Publish, TypeOK, RunDir
<1>18. \A st \in {"gone", "foreign"} : [Unborn EXCEPT !.st = st] \in Process
  BY DEF Unborn, Process, Modes
<1>19. ASSUME NEW p \in Pids, PidReused(p) PROVE TypeOK'
  <2>1. proc' \in [Pids -> Process]
    BY <1>19, <1>18 DEF PidReused, TypeOK
  <2>2. used' \in [ops : 0..MaxOps, crashes : 0..MaxCrashes,
                   reboots : 0..MaxReboots, reuses : 0..MaxReuses]
    BY <1>19, BoundAssumption DEF PidReused, TypeOK
  <2> QED  BY <1>19, <2>1, <2>2 DEF PidReused, TypeOK
<1>20. CASE SystemdSpawn
  <2>1. PICK p \in Pids : proc' = Spawned(p, "systemd", "persistent", TRUE)
    BY <1>20 DEF SystemdSpawn
  <2>2. proc' \in [Pids -> Process]
    BY <2>1, SpawnedType DEF TypeOK, Modes
  <2> QED  BY <1>20, <2>2 DEF SystemdSpawn, TypeOK
<1>21. CASE Reboot
  <2>1. Idle \in Client
    BY DEF Idle, Client, Steps
  <2> QED  BY <1>21, <1>18, <2>1, BoundAssumption DEF Reboot, TypeOK, RunDir
<1>22. CASE UNCHANGED vars
  BY <1>22 DEF vars, TypeOK
<1> QED
  BY <1>1, <1>2, <1>3, <1>4, <1>5, <1>6, <1>8, <1>9, <1>10, <1>11, <1>12, <1>13, <1>15,
     <1>16, <1>17, <1>19, <1>20, <1>21, <1>22, <1>23, <1>24 DEF Next, ClientStep

(* Every variable keeps its type, whatever the operations, the daemons and *)
(* the machine do (service.rs, the whole of it).                           *)
THEOREM Typed == Spec => []TypeOK
<1> QED  BY InitTypes, StepTypes, PTL DEF Spec

(* -------------------- one operation at a time, in order ------------------ *)
(* A user who runs one operation at a time and does not mix transient      *)
(* daemons with the unit, and daemons that start and die in time.          *)

ByHandOps == {"start", "stop", "status"}

Transient == Serial /\ Prompt /\ Failing \subseteq ReportedSteps /\ Ops \subseteq ByHandOps
Orderly   == Serial /\ Prompt /\ Failing \subseteq ReportedSteps
             /\ (Disciplined \/ Ops \subseteq ByHandOps)

StepsOf(op) ==
    CASE op = "start"   -> {"start", "again", "spawn", "startPoll", "unlink"}
      [] op = "stop"    -> {"stop", "stopPoll", "unlink"} \cup StopSteps
      [] op = "enable"  -> {"writeUnit", "enableUnit", "startUnit", "enablePoll", "unlink"}
      [] op = "disable" -> {"stopUnit", "stopping", "disableUnit", "d_rmUnit", "d_rmPid",
                            "d_rmSnap", "d_rmMode", "d_reload"}
      [] op = "status"  -> {"status", "unlink"}
      [] OTHER          -> {}

(* An operation keeps to its own steps.                                    *)
OpSteps ==
    \A c \in Clients :
        /\ client[c].op \in Ops \cup {"none"}
        /\ client[c].at \in StepsOf(client[c].op) \cup {"ok", "err", "idle"}
        /\ client[c].then \in StepsOf(client[c].op) \cup {"idle"}
        /\ At(c, "unlink") => client[c].then # "idle"
        /\ client[c].op = "none" => At(c, "idle")
        /\ client[c].op = "disable" /\ client[c].at \notin {"err", "idle"} => c \in Roots

(* While an operation is under way, nothing is known of the other clients. *)
OneOperation ==
    \A c, d \in Clients : c # d /\ ~At(d, "idle") => client[c] = Idle

(* Only root gets as far as the PID file.                                  *)
NamedIsRoot ==
    \A p \in Pids : proc[p].st \in LiveStates \ {"boot"} => proc[p].root

(* ---- the unit ---- *)

(* A pending signal is for a daemon, or for the stranger with its pid.     *)
Signals ==
    \A p \in Pids :
        /\ proc[p].sig => Live(p) \/ proc[p].st = "foreign"
        /\ proc[p].st = "foreign" => proc[p].parent = "init"

(* The main process of the unit.                                           *)
Managed(p) == Live(p) /\ proc[p].parent = "systemd"

Managing ==
    /\ \A p \in Pids : Live(p) => (proc[p].mode = "persistent" <=> proc[p].parent = "systemd")
    /\ \A p \in Pids : Managed(p) => proc[p].root
    /\ \A p, q \in Pids : Managed(p) /\ Managed(q) => p = q
    /\ systemd \in {"active", "stopping"} <=> \E p \in Pids : Managed(p)

AllManaged == \A p \in Pids : Live(p) => Managed(p)

(* Where a unit is installed there is no transient daemon, and systemd is  *)
(* idle where there is none.                                               *)
Apart ==
    /\ systemd # "inactive" => unit.file
    /\ unit.file => AllManaged /\ "enable" \in Ops
    /\ \A c \in Clients :
        /\ client[c].op = "start" /\ ~At(c, "idle") => ~unit.file
        /\ client[c].op = "enable" /\ client[c].at \notin {"err", "idle"} => AllManaged
        /\ client[c].op = "enable" /\ client[c].at \notin {"writeUnit", "err", "idle"} => unit.file

(* disable() was begun by root and has not failed.                         *)
Disabling(c) ==
    client[c].op = "disable" /\ ~At(c, "err") /\ (At(c, "idle") => client[c].ret = "ok")

(* How far disable() has got.                                              *)
DisableSteady ==
    \A c \in Clients : Disabling(c) =>
        /\ AllManaged
        /\ At(c, "stopping") => systemd \in {"stopping", "inactive"}
        /\ client[c].at \notin {"stopUnit", "stopping"} => systemd = "inactive"
        /\ client[c].at \notin {"stopUnit", "stopping", "disableUnit"} => ~unit.enabled
        /\ client[c].at \in {"d_rmPid", "d_rmSnap", "d_rmMode", "d_reload", "ok", "idle"} =>
                ~unit.file
        /\ c \in Roots =>
            /\ client[c].at \in {"d_rmSnap", "d_rmMode", "d_reload", "ok", "idle"} =>
                    run.pid = None
            /\ client[c].at \in {"d_rmMode", "d_reload", "ok", "idle"} => ~run.snap
            /\ client[c].at \in {"d_reload", "ok", "idle"} => run.mode = None

UnitInv == Signals /\ Managing /\ Apart /\ DisableSteady

(* ---- without a unit ---- *)

(* A daemon that has not named itself is waited for by its start(), and no *)
(* PID file names a process meanwhile.                                     *)
BootIsPolled ==
    \A p \in Pids :
        Daemon(p) /\ proc[p].st \in {"boot", "naming"} =>
            /\ run.pid \notin Pids
            /\ \E c \in Roots : At(c, "startPoll") /\ client[c].pid = p

(* Root finds no daemon running before it spawns one, or removes a file.   *)
NoneBeforeSpawn ==
    \A c \in Roots :
        /\ client[c].at \in {"spawn", "unlink"} => \A p \in Pids : ~Daemon(p)
        /\ At(c, "spawn") => run.pid \notin Pids

StopOk(c) == client[c].op = "stop" /\ (At(c, "ok") \/ Returned(c, "stop"))

(* How far stop() has got with the only daemon there may be.               *)
StopAt(c) ==
    /\ client[c].at \in {"kill", "stopPoll"} =>
            /\ client[c].pid \in Pids /\ run.pid \in {client[c].pid, None}
            /\ \A p \in Pids : Daemon(p) => p = client[c].pid
    /\ At(c, "stopPoll") => \A p \in Pids : Daemon(p) => proc[p].sig
    /\ client[c].at \in {"forceKill", "rmPid", "rmSnap"} => \A p \in Pids : ~Daemon(p)
    /\ At(c, "rmSnap") => run.pid = None
    /\ StopOk(c) => (\A p \in Pids : ~Daemon(p)) /\ run.pid = None /\ ~run.snap

StopSteady == \A c \in Roots : StopAt(c)

ByHand == BootIsPolled /\ DaemonReachable /\ NoneBeforeSpawn /\ StopSteady

OneDaemonInv == TypeOK /\ OneOperation /\ OpSteps /\ NamedIsRoot /\ ByHand

ServiceInv ==
    TypeOK /\ OneOperation /\ OpSteps /\ NamedIsRoot /\ UnitInv /\ (~unit.file => ByHand)

LEMMA ResumedFields ==
    ASSUME NEW r \in Client, NEW step \in Steps, NEW next \in Steps
    PROVE  /\ Resumed(r, step, next).at = IF next # step THEN next
                                          ELSE IF r.left > 1 THEN step ELSE IfTimeout(step)
           /\ Resumed(r, step, next).op = r.op
           /\ Resumed(r, step, next).pid = r.pid
           /\ Resumed(r, step, next).ret = r.ret
           /\ Resumed(r, step, next).then = "idle"
BY DEF Resumed, Client

(* What the two steps of daemon_pid() do to the client that calls it.      *)
LEMMA ProbeStep ==
    ASSUME TypeOK, NEW c \in Clients, DaemonPid(c)
    PROVE  /\ client' = [client EXCEPT ![c] = client'[c]]
           /\ client'[c].op = client[c].op /\ client'[c].ret = client[c].ret
           /\ \/ /\ Running
                 /\ client'[c].at = IF IfRunning(client[c].at) # client[c].at
                                    THEN IfRunning(client[c].at)
                                    ELSE IF client[c].left > 1 THEN client[c].at
                                    ELSE IfTimeout(client[c].at)
                 /\ client'[c].pid = IF At(c, "stop") THEN run.pid ELSE client[c].pid
                 /\ client'[c].then = "idle"
              \/ /\ Absent
                 /\ client'[c].at = IF IfDown(client[c].at) # client[c].at
                                    THEN IfDown(client[c].at)
                                    ELSE IF client[c].left > 1 THEN client[c].at
                                    ELSE IfTimeout(client[c].at)
                 /\ client'[c].pid = client[c].pid
                 /\ client'[c].then = "idle"
              \/ /\ Stale
                 /\ client'[c].at = "unlink" /\ client'[c].then = client[c].at
                 /\ client'[c].pid = client[c].pid
<1> DEFINE r == client[c]
           q == IF r.at = "stop" THEN [r EXCEPT !.pid = run.pid, !.left = StopPolls] ELSE r
<1>1. r \in Client /\ r.at \in ProbeSteps /\ r.at \in Steps
  BY DEF DaemonPid, TypeOK, Client
<1>2. IfRunning(r.at) \in Steps /\ IfDown(r.at) \in Steps
  BY <1>1, StepTables
<1>3. CASE Running /\ client' = [client EXCEPT ![c] = Resumed(q, r.at, IfRunning(r.at))]
  <2>1. q \in Client /\ q.op = r.op /\ q.ret = r.ret
        /\ q.pid = (IF r.at = "stop" THEN run.pid ELSE r.pid)
        /\ (r.at # "stop" => q.left = r.left)
    BY <1>1, <1>3, BoundAssumption DEF Client, Running
  <2>2. r.at = "stop" => IfRunning(r.at) # r.at
    BY DEF IfRunning
  <2>3. client'[c] = Resumed(q, r.at, IfRunning(r.at))
    BY <1>3 DEF TypeOK
  <2>4. client' = [client EXCEPT ![c] = client'[c]]
    BY <1>3, <2>3
  <2> HIDE DEF q
  <2>5. /\ client'[c].at = IF IfRunning(r.at) # r.at THEN IfRunning(r.at)
                           ELSE IF q.left > 1 THEN r.at ELSE IfTimeout(r.at)
        /\ client'[c].op = q.op /\ client'[c].ret = q.ret /\ client'[c].pid = q.pid
        /\ client'[c].then = "idle"
    BY <2>1, <2>3, <1>1, <1>2, ResumedFields
  <2>6. client'[c].at = IF IfRunning(r.at) # r.at THEN IfRunning(r.at)
                        ELSE IF r.left > 1 THEN r.at ELSE IfTimeout(r.at)
    BY <2>1, <2>2, <2>5
  <2>7. client'[c].op = r.op /\ client'[c].ret = r.ret /\ client'[c].then = "idle"
    BY <2>1, <2>5
  <2>8. client'[c].pid = IF At(c, "stop") THEN run.pid ELSE r.pid
    BY <2>1, <2>5 DEF At
  <2> QED  BY <1>3, <2>4, <2>6, <2>7, <2>8
<1>4. CASE Absent /\ client' = [client EXCEPT ![c] = Resumed(r, r.at, IfDown(r.at))]
  <2>1. client'[c] = Resumed(r, r.at, IfDown(r.at))
    BY <1>4 DEF TypeOK
  <2>2. client' = [client EXCEPT ![c] = client'[c]]
    BY <1>4, <2>1
  <2> QED  BY <1>1, <1>2, <1>4, <2>1, <2>2, ResumedFields
<1>5. CASE Stale /\ client' = [client EXCEPT ![c].at = "unlink", ![c].then = r.at]
  <2>1. client' = [client EXCEPT ![c] = [r EXCEPT !.at = "unlink", !.then = r.at]]
    BY <1>5 DEF TypeOK
  <2>2. client'[c] = [r EXCEPT !.at = "unlink", !.then = r.at]
    BY <2>1 DEF TypeOK
  <2>3. /\ client'[c].at = "unlink" /\ client'[c].then = r.at
        /\ client'[c].op = r.op /\ client'[c].ret = r.ret /\ client'[c].pid = r.pid
    BY <1>1, <2>2 DEF Client
  <2> QED  BY <1>5, <2>1, <2>2, <2>3
<1>6. \/ Running /\ client' = [client EXCEPT ![c] = Resumed(q, r.at, IfRunning(r.at))]
      \/ Absent /\ client' = [client EXCEPT ![c] = Resumed(r, r.at, IfDown(r.at))]
      \/ Stale /\ client' = [client EXCEPT ![c].at = "unlink", ![c].then = r.at]
  BY DEF DaemonPid
<1> HIDE DEF r, q
<1> QED  BY <1>3, <1>4, <1>5, <1>6

LEMMA UnlinkStep ==
    ASSUME TypeOK, NEW c \in Clients, Unlink(c)
    PROVE  /\ client' = [client EXCEPT ![c] = client'[c]]
           /\ client'[c].op = client[c].op /\ client'[c].ret = client[c].ret
           /\ client'[c].pid = client[c].pid /\ client'[c].then = "idle"
           /\ client'[c].at = IF IfDown(client[c].then) # client[c].then
                              THEN IfDown(client[c].then)
                              ELSE IF client[c].left > 1 THEN client[c].then
                              ELSE IfTimeout(client[c].then)
<1> DEFINE r == client[c]
<1>1. r \in Client /\ r.then \in Steps /\ IfDown(r.then) \in Steps
  BY StepTables DEF TypeOK, Client, Steps
<1>2. client'[c] = Resumed(r, r.then, IfDown(r.then))
  BY DEF Unlink, TypeOK
<1>3. client' = [client EXCEPT ![c] = client'[c]]
  BY <1>2 DEF Unlink
<1> QED  BY <1>1, <1>2, <1>3, ResumedFields

(* A step that brings no process further on its way to serving.            *)
QuietStep ==
    \A q \in Pids :
        /\ proc'[q].st = "unborn" => proc[q].st = "unborn"
        /\ proc'[q].root => proc[q].root
        /\ proc'[q].parent \in {proc[q].parent, "init"}
        /\ proc'[q].st \in LiveStates =>
            /\ proc'[q].st = proc[q].st /\ proc'[q].root = proc[q].root
            /\ proc[q].sig => proc'[q].sig

LEMMA QuietSteps ==
    ASSUME TypeOK,
           \/ UNCHANGED proc
           \/ \E p \in Pids : proc' = Exited(p) \/ PidReused(p)
           \/ \E c \in Clients : proc' = Orphaned(c) \/ Kill(c)
           \/ Reboot
    PROVE  QuietStep
<1>1. CASE UNCHANGED proc
  BY <1>1 DEF QuietStep
<1>2. ASSUME NEW p \in Pids, proc' = Exited(p) PROVE QuietStep
  <2>1. \A q \in Pids \ {p} : proc'[q] = proc[q]
    BY <1>2 DEF Exited, TypeOK
  <2>2. PICK st \in {"zombie", "gone"} : proc'[p] = [proc[p] EXCEPT !.st = st, !.sig = FALSE]
    BY <1>2 DEF Exited, TypeOK
  <2>3. /\ proc'[p].st \notin LiveStates \cup {"unborn"}
        /\ proc'[p].parent = proc[p].parent /\ proc'[p].root = proc[p].root
    BY <2>2 DEF TypeOK, Process, LiveStates
  <2> QED  BY <2>1, <2>3 DEF QuietStep
<1>3. ASSUME NEW p \in Pids, PidReused(p) PROVE QuietStep
  BY <1>3 DEF PidReused, QuietStep, TypeOK, Unborn, LiveStates
<1>4. ASSUME NEW c \in Clients, proc' = Orphaned(c) PROVE QuietStep
  BY <1>4 DEF Orphaned, QuietStep, TypeOK, Process, LiveStates
<1>5. ASSUME NEW c \in Clients, Kill(c) PROVE QuietStep
  BY <1>5 DEF Kill, Signalled, QuietStep, TypeOK, Process
<1>6. CASE Reboot
  BY <1>6 DEF Reboot, QuietStep, Unborn, TypeOK, LiveStates
<1> QED  BY <1>1, <1>2, <1>3, <1>4, <1>5, <1>6

(* What a failing step does to the client whose step it is.                *)
LEMMA FailStep ==
    ASSUME TypeOK, NEW c \in Clients, StepFails(c)
    PROVE  /\ client[c].at \in Failing
           /\ client'[c].at \in FailsTo(client[c].at)
           /\ client'[c].op = client[c].op /\ client'[c].ret = client[c].ret
           /\ client'[c].then = client[c].then /\ client'[c].pid = client[c].pid
           /\ \A d \in Clients \ {c} : client'[d] = client[d]
           /\ UNCHANGED <<proc, run, unit, systemd, used>>
<1>1. PICK next \in FailsTo(client[c].at) :
          client' = [client EXCEPT ![c].at = next,
                                   ![c].left = IF next = "enablePoll" THEN EnablePolls ELSE @]
  BY DEF StepFails
<1>2. client[c] \in Client
  BY DEF TypeOK
<1>3. client'[c] = [client[c] EXCEPT !.at = next,
                                     !.left = IF next = "enablePoll" THEN EnablePolls ELSE @]
  BY <1>1 DEF TypeOK
<1>4. /\ client'[c].at = next /\ client'[c].op = client[c].op /\ client'[c].ret = client[c].ret
      /\ client'[c].then = client[c].then /\ client'[c].pid = client[c].pid
  BY <1>2, <1>3 DEF Client
<1>5. \A d \in Clients \ {c} : client'[d] = client[d]
  BY <1>1 DEF TypeOK
<1> QED  BY <1>4, <1>5 DEF StepFails

(* A failure that is not ignored ends the operation, or is one of systemctl *)
(* in enable().                                                            *)
LEMMA ReportedFails ==
    ASSUME Failing \subseteq ReportedSteps, TypeOK, NEW c \in Clients, StepFails(c)
    PROVE  \/ client'[c].at = "err"
           \/ client[c].at = "enableUnit" /\ client'[c].at = "startUnit"
           \/ client[c].at = "startUnit" /\ client'[c].at = "enablePoll"
<1>1. client[c].at \in ReportedSteps /\ client'[c].at \in FailsTo(client[c].at)
  BY FailStep
<1> QED  BY <1>1 DEF ReportedSteps, FailsTo

LEMMA OneClientMoves ==
    ASSUME TypeOK, NEW c \in Clients, ClientStep(c)
    PROVE  ~At(c, "idle") /\ \A d \in Clients \ {c} : client'[d] = client[d]
<1>1. CASE DaemonPid(c)
  <2>1. client[c].at # "idle"
    BY <1>1 DEF DaemonPid, ProbeSteps
  <2>2. client' = [client EXCEPT ![c] = client'[c]]
    BY <1>1, ProbeStep
  <2> QED  BY <2>1, <2>2 DEF At, TypeOK
<1>2. CASE Unlink(c)
  BY <1>2, UnlinkStep DEF Unlink, At
<1>3. CASE Return(c)
  BY <1>3 DEF Return, At, TypeOK
<1>4. CASE Spawn(c)
  BY <1>4 DEF Spawn, At, TypeOK
<1>5. CASE Kill(c) \/ Remove(c) \/ ChangeUnit(c) \/ StopUnit(c) \/ UnitStopped(c) \/ Reload(c)
  BY <1>5 DEF Kill, Remove, ChangeUnit, StopUnit, UnitStopped, Reload, At, Goto, TypeOK
<1>6. CASE StartUnit(c)
  BY <1>6 DEF StartUnit, At, TypeOK
<1>7. CASE StepFails(c)
  <2>1. client[c].at # "idle"
    BY <1>7, FailStep, FailingAssumption DEF FailSteps, ReportedSteps, IgnoredSteps
  <2> QED  BY <1>7, <2>1, FailStep DEF At
<1> QED  BY <1>1, <1>2, <1>3, <1>4, <1>5, <1>6, <1>7 DEF ClientStep

LEMMA OneOperationStep ==
    ASSUME Serial, TypeOK, OneOperation, [Next]_vars
    PROVE  OneOperation'
<1>1. ASSUME NEW c \in Clients, NEW op \in Ops, Begin(c, op) PROVE OneOperation'
  <2>1. \A d \in Clients \ {c} : client'[d] = Idle
    BY <1>1 DEF Begin
  <2> QED  BY <2>1 DEF OneOperation, At, Idle
<1>2. ASSUME NEW c \in Clients, ClientStep(c) PROVE OneOperation'
  <2>1. \A d \in Clients \ {c} : client'[d] = Idle
    BY <1>2, OneClientMoves DEF OneOperation
  <2> QED  BY <2>1 DEF OneOperation, At, Idle
<1>3. CASE UNCHANGED client
  BY <1>3 DEF OneOperation, At
<1>4. CASE Reboot
  BY <1>4 DEF Reboot, OneOperation, At
<1> QED
  BY <1>1, <1>2, <1>3, <1>4 DEF Next, TuiExit, DaemonStep, OpenPidFile, NotRoot, WritePid,
     WriteMode, MonitorReady, MonitorFails, Publish, Die, Crash, PidReused, SystemdSpawn, vars

(* Where the clients are after an operation has begun.                     *)
LEMMA BeginStep ==
    ASSUME TypeOK, NEW c \in Clients, NEW op \in Ops, Begin(c, op)
    PROVE  /\ Serial => \A d \in Clients : At(d, "idle")
           /\ \A d \in Clients \ {c} : client'[d] = IF At(d, "idle") THEN Idle ELSE client[d]
           /\ client'[c].op = op /\ client'[c].then = "idle" /\ client'[c].ret = "none"
           /\ client'[c].at = IF op \in {"enable", "disable"} /\ c \notin Roots
                              THEN "err" ELSE FirstStep(op)
           /\ client'[c].at \in StepsOf(op) \cup {"err"} /\ client'[c].at \notin {"idle", "ok"}
           /\ op = "disable" => client'[c].at \in {"stopUnit", "err"}
           /\ op = "enable" => client'[c].at \in {"writeUnit", "err"}
<1>1. Serial => \A d \in Clients : At(d, "idle")
  BY DEF Begin
<1>2. client'[c] = [Idle EXCEPT !.op = op,
                                !.at = IF op \in {"enable", "disable"} /\ c \notin Roots
                                       THEN "err" ELSE FirstStep(op)]
  BY DEF Begin
<1>3. op \in AllOps
  BY OpsAssumption
<1>4. FirstStep(op) \in StepsOf(op) /\ FirstStep(op) \notin {"idle", "ok", "err"}
      /\ (op = "disable" => FirstStep(op) = "stopUnit")
      /\ (op = "enable" => FirstStep(op) = "writeUnit")
  BY <1>3 DEF AllOps, FirstStep, StepsOf
<1> QED  BY <1>1, <1>2, <1>4 DEF Begin, Idle

LEMMA SerialBegin ==
    ASSUME Serial, TypeOK, NEW c \in Clients, NEW op \in Ops, Begin(c, op)
    PROVE  /\ \A d \in Clients : At(d, "idle")
           /\ \A d \in Clients \ {c} : client'[d] = Idle
           /\ client'[c].op = op
           /\ client'[c].at = IF op \in {"enable", "disable"} /\ c \notin Roots
                              THEN "err" ELSE FirstStep(op)
           /\ op = "disable" => client'[c].at \in {"stopUnit", "err"}
           /\ op = "enable" => client'[c].at \in {"writeUnit", "err"}
BY BeginStep

(* The steps of an operation stay within it.                               *)
LEMMA StaysInOp ==
    ASSUME NEW op \in AllOps \cup {"none"}, NEW step \in StepsOf(op) \cap ProbeSteps
    PROVE  /\ IfRunning(step) \in StepsOf(op) \cup {"ok", "err"}
           /\ IfDown(step) \in StepsOf(op) \cup {"ok", "err"}
           /\ IfTimeout(step) \in StepsOf(op) \cup {"ok", "err"}
           /\ "unlink" \in StepsOf(op) /\ op # "disable"
           /\ IfRunning(step) # "unlink" /\ IfDown(step) # "unlink" /\ IfTimeout(step) # "unlink"
  BY DEF AllOps, StepsOf, ProbeSteps, StopSteps, IfRunning, IfDown, IfTimeout

LEMMA MoveTable ==
    ASSUME TypeOK, OpSteps, NEW c \in Clients, ClientStep(c)
    PROVE  /\ client'[c].op = client[c].op
           /\ \/ /\ client[c].at \in {"ok", "err"} /\ client'[c].at = "idle"
                 /\ client'[c].ret = client[c].at /\ client'[c].then = client[c].then
              \/ /\ client[c].at \in StepsOf(client[c].op)
                 /\ client'[c].at \in StepsOf(client[c].op) \cup {"ok", "err"}
                 /\ client'[c].ret = client[c].ret
                 /\ client'[c].then \in StepsOf(client[c].op) \cup {"idle"}
                 /\ client'[c].at = "unlink" => client'[c].then # "idle"
<1> DEFINE op == client[c].op
<1>0. /\ client[c] \in Client /\ op \in AllOps \cup {"none"}
      /\ client[c].at \in StepsOf(op) \cup {"ok", "err", "idle"}
      /\ client[c].then \in StepsOf(op) \cup {"idle"}
      /\ client[c].at \in Steps /\ client[c].then \in ProbeSteps \cup {"idle"}
      /\ At(c, "unlink") => client[c].then # "idle"
  BY OpsAssumption DEF TypeOK, OpSteps, Client
<1>1. CASE DaemonPid(c)
  <2>1. client[c].at \in StepsOf(op) \cap ProbeSteps /\ client[c].at # "unlink"
    BY <1>0, <1>1 DEF DaemonPid, ProbeSteps
  <2>2. /\ client'[c].op = op /\ client'[c].ret = client[c].ret
        /\ \/ client'[c].then = "idle"
              /\ client'[c].at \in {IfRunning(client[c].at), IfDown(client[c].at),
                                    IfTimeout(client[c].at), client[c].at}
           \/ client'[c].at = "unlink" /\ client'[c].then = client[c].at
    BY <1>1, ProbeStep
  <2> HIDE DEF op
  <2>3. /\ {IfRunning(client[c].at), IfDown(client[c].at), IfTimeout(client[c].at)}
                \subseteq (StepsOf(op) \cup {"ok", "err"}) \ {"unlink"}
        /\ "unlink" \in StepsOf(op)
    BY <1>0, <2>1, StaysInOp
  <2>4. client[c].at \notin {"idle", "unlink"}
    BY <2>1 DEF ProbeSteps
  <2> QED  BY <2>1, <2>2, <2>3, <2>4 DEF op
<1>2. CASE Unlink(c)
  <2>1. client[c].then \in StepsOf(op) \cap ProbeSteps /\ At(c, "unlink") /\ client[c].then # "unlink"
    BY <1>0, <1>2 DEF Unlink, ProbeSteps
  <2>2. /\ client'[c].op = op /\ client'[c].ret = client[c].ret /\ client'[c].then = "idle"
        /\ client'[c].at \in {IfDown(client[c].then), IfTimeout(client[c].then), client[c].then}
    BY <1>2, UnlinkStep
  <2> HIDE DEF op
  <2>3. /\ {IfDown(client[c].then), IfTimeout(client[c].then)}
                \subseteq (StepsOf(op) \cup {"ok", "err"}) \ {"unlink"}
        /\ "unlink" \in StepsOf(op)
    BY <1>0, <2>1, StaysInOp
  <2> QED  BY <2>1, <2>2, <2>3 DEF At, op
<1>3. CASE Return(c)
  BY <1>0, <1>3 DEF Return, TypeOK, Client
<1>4. ASSUME NEW step, Goto(c, step)
      PROVE  /\ client'[c].at = step /\ client'[c].op = op /\ client'[c].ret = client[c].ret
             /\ client'[c].then = client[c].then
  BY <1>0, <1>4 DEF Goto, TypeOK, Client
<1>5. CASE Spawn(c)
  <2>1. At(c, "spawn") /\ client'[c].at = "startPoll" /\ client'[c].op = op
        /\ client'[c].ret = client[c].ret /\ client'[c].then = client[c].then
    BY <1>0, <1>5 DEF Spawn, TypeOK, Client
  <2>2. op = "start"
    BY <1>0, <2>1 DEF At, StepsOf, AllOps, StopSteps
  <2> QED  BY <1>0, <2>1, <2>2 DEF At, StepsOf
<1>6. CASE Kill(c)
  <2>1. client[c].at \in {"kill", "forceKill"}
        /\ Goto(c, IF At(c, "kill") THEN "stopPoll" ELSE "rmPid")
    BY <1>6 DEF Kill
  <2>2. op = "stop"
    BY <1>0, <2>1 DEF StepsOf, AllOps
  <2> QED  BY <1>0, <1>4, <2>1, <2>2 DEF StepsOf, StopSteps
<1>7. CASE Remove(c)
  <2>1. client[c].at \in {"rmPid", "rmSnap", "d_rmPid", "d_rmSnap", "d_rmMode"}
        /\ Goto(c, AfterRemove(client[c].at))
    BY <1>7 DEF Remove
  <2>2. \/ op = "stop" /\ client[c].at \in {"rmPid", "rmSnap"}
        \/ op = "disable" /\ client[c].at \in {"d_rmPid", "d_rmSnap", "d_rmMode"}
    BY <1>0, <2>1 DEF StepsOf, AllOps, StopSteps
  <2>3. AfterRemove(client[c].at) \in StepsOf(op) \cup {"ok", "err"}
        /\ AfterRemove(client[c].at) # "unlink" /\ client[c].at \in StepsOf(op)
    BY <2>2 DEF AfterRemove, StepsOf, StopSteps
  <2> QED  BY <1>0, <1>4, <2>1, <2>3
<1>11. CASE Reload(c)
  <2>1. At(c, "d_reload") /\ Goto(c, "ok")
    BY <1>11 DEF Reload
  <2>2. op = "disable"
    BY <1>0, <2>1 DEF At, StepsOf, AllOps, StopSteps
  <2> QED  BY <1>0, <1>4, <2>1, <2>2 DEF At, StepsOf
<1>12. CASE StepFails(c)
  <2>1. /\ client[c].at \in FailSteps /\ client'[c].at \in FailsTo(client[c].at)
        /\ client'[c].op = op /\ client'[c].ret = client[c].ret
        /\ client'[c].then = client[c].then
    BY <1>12, FailStep, FailingAssumption
  <2>2. /\ client[c].at \in StepsOf(op)
        /\ client'[c].at \in (StepsOf(op) \cup {"ok", "err"}) \ {"unlink"}
    <3>1. client[c].at \notin {"ok", "err", "idle"}
      BY <2>1 DEF FailSteps, ReportedSteps, IgnoredSteps
    <3>2. client[c].at \in StepsOf(op)
      BY <1>0, <3>1
    <3> QED
      BY <1>0, <2>1, <3>2 DEF FailSteps, ReportedSteps, IgnoredSteps, FailsTo, AfterUnit,
         AfterRemove, StepsOf, AllOps, StopSteps
  <2> QED  BY <1>0, <2>1, <2>2
<1>8. CASE ChangeUnit(c)
  <2>1. client[c].at \in {"writeUnit", "enableUnit", "disableUnit", "d_rmUnit"}
        /\ Goto(c, AfterUnit(client[c].at))
    BY <1>8 DEF ChangeUnit
  <2>2. \/ op = "enable" /\ client[c].at \in {"writeUnit", "enableUnit"}
        \/ op = "disable" /\ client[c].at \in {"disableUnit", "d_rmUnit"}
    BY <1>0, <2>1 DEF StepsOf, AllOps, StopSteps
  <2>3. AfterUnit(client[c].at) \in StepsOf(op) \cup {"ok", "err"}
        /\ AfterUnit(client[c].at) # "unlink" /\ client[c].at \in StepsOf(op)
    BY <2>2 DEF AfterUnit, StepsOf
  <2> QED  BY <1>0, <1>4, <2>1, <2>3
<1>9. CASE StartUnit(c)
  <2>1. At(c, "startUnit") /\ client'[c].at = "enablePoll" /\ client'[c].op = op
        /\ client'[c].ret = client[c].ret /\ client'[c].then = client[c].then
    BY <1>0, <1>9 DEF StartUnit, TypeOK, Client
  <2>2. op = "enable"
    BY <1>0, <2>1 DEF At, StepsOf, AllOps, StopSteps
  <2> QED  BY <1>0, <2>1, <2>2 DEF At, StepsOf
<1>10. CASE StopUnit(c) \/ UnitStopped(c)
  <2>1. \/ At(c, "stopUnit") /\ Goto(c, "stopping")
        \/ At(c, "stopping") /\ Goto(c, "disableUnit")
    BY <1>10 DEF StopUnit, UnitStopped
  <2>2. op = "disable"
    BY <1>0, <2>1 DEF At, StepsOf, AllOps, StopSteps
  <2> QED  BY <1>0, <1>4, <2>1, <2>2 DEF At, StepsOf
<1> QED
  BY <1>1, <1>2, <1>3, <1>5, <1>6, <1>7, <1>8, <1>9, <1>10, <1>11, <1>12 DEF ClientStep

LEMMA OpStepsStep ==
    ASSUME TypeOK, OpSteps, [Next]_vars
    PROVE  OpSteps'
<1> DEFINE Fine(r, c) ==
             /\ r.op \in Ops \cup {"none"}
             /\ r.at \in StepsOf(r.op) \cup {"ok", "err", "idle"}
             /\ r.then \in StepsOf(r.op) \cup {"idle"}
             /\ r.at = "unlink" => r.then # "idle"
             /\ r.op = "none" => r.at = "idle"
             /\ r.op = "disable" /\ r.at \notin {"err", "idle"} => c \in Roots
<1>0. (OpSteps <=> \A c \in Clients : Fine(client[c], c))
      /\ (OpSteps' <=> \A c \in Clients : Fine(client'[c], c))
  BY DEF OpSteps, At
<1>1. \A c \in Clients : Fine(Idle, c)
  BY DEF Idle
<1>2. ASSUME NEW c \in Clients, NEW op \in Ops, Begin(c, op) PROVE OpSteps'
  <2>1. client'[c].at # "unlink" /\ op # "none"
    BY <1>2, BeginStep, OpsAssumption DEF FirstStep, AllOps
  <2>2. Fine(client'[c], c)
    BY <1>2, <2>1, BeginStep
  <2>3. \A d \in Clients \ {c} : client'[d] \in {Idle, client[d]}
    BY <1>2, BeginStep
  <2> QED  BY <1>0, <1>1, <2>2, <2>3
<1>3. ASSUME NEW c \in Clients, ClientStep(c) PROVE OpSteps'
  <2>1. Fine(client[c], c)
    BY <1>0
  <2>2. client[c].op # "none"
    <3>1. client[c].at # "idle"
      BY <1>3, OneClientMoves DEF At
    <3> QED  BY <2>1, <3>1
  <2>3. client[c].op = "disable" /\ client[c].at = "err" => client'[c].at = "idle"
    BY <1>3, MoveTable DEF StepsOf
  <2>4. Fine(client'[c], c)
    BY <1>3, <2>1, <2>2, <2>3, MoveTable DEF StepsOf
  <2> QED  BY <1>0, <1>3, <2>4, OneClientMoves
<1>4. CASE UNCHANGED client
  BY <1>0, <1>4
<1>5. CASE Reboot
  BY <1>0, <1>1, <1>5 DEF Reboot
<1> QED
  BY <1>2, <1>3, <1>4, <1>5 DEF Next, TuiExit, DaemonStep, OpenPidFile, NotRoot, WritePid,
     WriteMode, MonitorReady, MonitorFails, Publish, Die, Crash, PidReused, SystemdSpawn, vars

(* ------------------------------- the unit -------------------------------- *)

(* No process comes to life, and those that live keep what they were.      *)
NoneNew ==
    \A p \in Pids : Live(p)' =>
        /\ Live(p) /\ proc'[p].mode = proc[p].mode /\ proc'[p].root = proc[p].root
        /\ proc'[p].parent = "systemd" <=> proc[p].parent = "systemd"

(* Nor does the main process of the unit die.                              *)
SameManaged == NoneNew /\ \A p \in Pids : Managed(p) => Managed(p)'

(* The steps in which a process may end.                                   *)
Ends(p) == MonitorFails(p) \/ Die(p) \/ Crash(p)

LEMMA OrphanedFields ==
    ASSUME TypeOK, NEW c \in Clients, proc' = Orphaned(c), NEW p \in Pids
    PROVE  /\ proc'[p].mode = proc[p].mode /\ proc'[p].root = proc[p].root
           /\ proc'[p].sig = proc[p].sig
           /\ proc'[p].parent = IF proc[p].parent = c THEN "init" ELSE proc[p].parent
           /\ proc'[p].st = IF proc[p].parent = c /\ proc[p].st = "zombie" THEN "gone"
                            ELSE proc[p].st
<1>1. CASE proc[p].parent # c
  BY <1>1 DEF Orphaned
<1>2. CASE proc[p].parent = c
  <2>1. proc'[p] = [proc[p] EXCEPT !.parent = "init", !.st = IF @ = "zombie" THEN "gone" ELSE @]
    BY <1>2 DEF Orphaned
  <2> QED  BY <1>2, <2>1 DEF TypeOK, Process
<1> QED  BY <1>1, <1>2

LEMMA SteadySteps ==
    ASSUME TypeOK, Managing,
           \/ UNCHANGED proc
           \/ \E c \in Clients : proc' = Orphaned(c) \/ Kill(c) \/ StopUnit(c)
           \/ \E p \in Pids : DaemonStep(p) \/ PidReused(p)
    PROVE  SameManaged
<1>1. CASE UNCHANGED proc
  BY <1>1 DEF SameManaged, NoneNew, Managed, Live
<1>2. ASSUME NEW c \in Clients, proc' = Orphaned(c) PROVE SameManaged
  <2>1. c # "systemd"
    BY ClientAssumption
  <2>2. \A p \in Pids : /\ proc'[p].mode = proc[p].mode /\ proc'[p].root = proc[p].root
                        /\ proc'[p].parent = IF proc[p].parent = c THEN "init" ELSE proc[p].parent
                        /\ Live(p)' <=> Live(p)
    BY <1>2, OrphanedFields DEF Live, LiveStates
  <2> QED  BY <2>1, <2>2 DEF SameManaged, NoneNew, Managed
<1>3. ASSUME NEW c \in Clients, Kill(c) PROVE SameManaged
  <2>1. proc' = proc \/ proc' = [proc EXCEPT ![client[c].pid].sig = TRUE]
    BY <1>3 DEF Kill, Signalled
  <2>2. \A p \in Pids : /\ proc'[p].mode = proc[p].mode /\ proc'[p].root = proc[p].root
                        /\ proc'[p].parent = proc[p].parent /\ proc'[p].st = proc[p].st
    BY <2>1 DEF TypeOK, Process
  <2> QED  BY <2>2 DEF SameManaged, NoneNew, Managed, Live
<1>4. ASSUME NEW c \in Clients, StopUnit(c) PROVE SameManaged
  BY <1>4 DEF StopUnit, TypeOK, Process, SameManaged, NoneNew, Managed, Live
<1>5. ASSUME NEW p \in Pids, DaemonStep(p) PROVE SameManaged
  <2>1. CASE NotRoot(p)
    <3>1. ~Managed(p)
      BY <2>1 DEF NotRoot, Managing
    <3>2. /\ \A q \in Pids \ {p} : proc'[q] = proc[q]
          /\ proc'[p].st \in {"zombie", "gone"}
      BY <2>1 DEF NotRoot, Exited, TypeOK, Process
    <3> QED  BY <3>1, <3>2 DEF SameManaged, NoneNew, Managed, Live, LiveStates
  <2>2. CASE ~NotRoot(p)
    <3>1. PICK st \in LiveStates : proc' = [proc EXCEPT ![p].st = st] /\ Live(p)
      BY <1>5, <2>2 DEF DaemonStep, OpenPidFile, WritePid, WriteMode, MonitorReady, Live,
         LiveStates
    <3> QED  BY <3>1 DEF TypeOK, Process, SameManaged, NoneNew, Managed, Live
  <2> QED  BY <2>1, <2>2
<1>6. ASSUME NEW p \in Pids, PidReused(p) PROVE SameManaged
  BY <1>6 DEF PidReused, Unborn, TypeOK, SameManaged, NoneNew, Managed, Live, LiveStates
<1> QED  BY <1>1, <1>2, <1>3, <1>4, <1>5, <1>6

LEMMA EndSteps ==
    ASSUME TypeOK, Signals, Managing, NEW p \in Pids, Ends(p)
    PROVE  /\ NoneNew /\ ~Managed(p)' /\ proc'[p].st \notin LiveStates /\ ~proc'[p].sig
           /\ \A q \in Pids \ {p} : proc'[q] = proc[q]
           /\ systemd' = IF Managed(p) THEN IF systemd = "stopping" THEN "inactive" ELSE "starting"
                         ELSE systemd
<1>1. proc' = Exited(p) /\ systemd' = AfterExit(p) /\ (Live(p) \/ proc[p].sig)
  BY DEF Ends, MonitorFails, Die, Crash, Live, LiveStates
<1>2. Managed(p) <=> proc[p].parent = "systemd"
  BY <1>1 DEF Signals, Managed
<1>3. /\ \A q \in Pids \ {p} : proc'[q] = proc[q]
      /\ proc'[p].st \in {"zombie", "gone"} /\ ~proc'[p].sig
  BY <1>1 DEF Exited, TypeOK, Process
<1>4. ~Live(p)' /\ proc'[p].st \notin LiveStates
  BY <1>3 DEF Live, LiveStates
<1> QED  BY <1>1, <1>2, <1>3, <1>4 DEF NoneNew, Managed, Live, AfterExit

LEMMA SpawnSteps ==
    ASSUME TypeOK, NEW p \in Pids, proc[p].st = "unborn", NEW by, NEW mode, NEW root,
           proc' = Spawned(p, by, mode, root)
    PROVE  /\ proc'[p].st = "boot" /\ proc'[p].mode = mode /\ proc'[p].parent = by
           /\ proc'[p].root = root /\ proc'[p].sig = FALSE
           /\ Live(p)' /\ ~Live(p)
           /\ \A q \in Pids \ {p} : proc'[q] = proc[q]
<1>1. proc'[p] = [st |-> "boot", mode |-> mode, parent |-> by, root |-> root, sig |-> FALSE]
      /\ \A q \in Pids \ {p} : proc'[q] = proc[q]
  BY DEF Spawned, TypeOK
<1>2. proc'[p].st = "boot"
  BY <1>1
<1> QED  BY <1>1, <1>2 DEF Live, LiveStates

LEMMA NoSpawn ==
    ASSUME TypeOK, UNCHANGED client, NEW c \in Clients
    PROVE  ~Spawn(c)
<1>1. SUFFICES ASSUME At(c, "spawn"), NEW p,
                      client' = [client EXCEPT ![c].at = "startPoll", ![c].pid = p,
                                               ![c].left = StartPolls]
               PROVE  FALSE
  BY DEF Spawn
<1>2. client'[c].at = "startPoll"
  BY <1>1 DEF TypeOK, Client
<1> QED  BY <1>1, <1>2 DEF At

LEMMA StepsOnly ==
    ASSUME NEW op
    PROVE  StepsOf(op) \cap {"ok", "err", "idle"} = {}
BY DEF StepsOf, StopSteps

LEMMA ManagingSame ==
    ASSUME Managing, SameManaged,
           systemd' \in {"active", "stopping"} <=> systemd \in {"active", "stopping"}
    PROVE  Managing'
  BY DEF Managing, SameManaged, NoneNew, Managed

(* Which actions leave what alone.                                         *)
LEMMA Frames ==
    ASSUME [Next]_vars
    PROVE  \/ \E c \in Clients : (\E op \in Ops : Begin(c, op)) \/ ClientStep(c) \/ TuiExit(c)
           \/ \E p \in Pids : DaemonStep(p) \/ Publish(p) \/ PidReused(p) \/ Ends(p)
           \/ SystemdSpawn \/ Reboot \/ UNCHANGED vars
  BY DEF Next, Ends

LEMMA SignalsStep ==
    ASSUME TypeOK, Signals, Managing, [Next]_vars
    PROVE  Signals'
<1>1. CASE UNCHANGED proc
  BY <1>1 DEF Signals, Live
<1>2. ASSUME NEW c \in Clients, proc' = Orphaned(c) PROVE Signals'
  BY <1>2 DEF Orphaned, TypeOK, Process, Signals, Live, LiveStates
<1>3. ASSUME NEW c \in Clients, Kill(c) PROVE Signals'
  <2>1. CASE proc' = proc
    BY <2>1, <1>1
  <2>2. CASE /\ Live(client[c].pid) \/ proc[client[c].pid].st = "foreign"
             /\ proc' = [proc EXCEPT ![client[c].pid].sig = TRUE]
    BY <2>2 DEF TypeOK, Process, Signals, Live
  <2> QED  BY <1>3, <2>1, <2>2 DEF Kill, Signalled
<1>4. ASSUME NEW c \in Clients, StopUnit(c) PROVE Signals'
  BY <1>4 DEF StopUnit, TypeOK, Process, Signals, Live
<1>5. ASSUME NEW p \in Pids, proc[p].st = "unborn", NEW by, NEW mode, NEW root,
             proc' = Spawned(p, by, mode, root)
      PROVE  Signals'
  <2>1. /\ ~proc'[p].sig /\ proc'[p].st = "boot"
        /\ \A q \in Pids \ {p} : proc'[q] = proc[q]
    BY <1>5, SpawnSteps
  <2> QED  BY <2>1 DEF Signals, Live
<1>6. ASSUME NEW p \in Pids, Ends(p) PROVE Signals'
  <2>1. proc'[p].st # "foreign" /\ ~proc'[p].sig
    <3>1. proc' = Exited(p)
      BY <1>6 DEF Ends, MonitorFails, Die, Crash
    <3> QED  BY <3>1 DEF Exited, TypeOK, Process
  <2> QED  BY <1>6, <2>1, EndSteps DEF Signals, Live
<1>7. ASSUME NEW p \in Pids, DaemonStep(p) PROVE Signals'
  <2>1. CASE NotRoot(p)
    BY <2>1 DEF NotRoot, Exited, TypeOK, Process, Signals, Live
  <2>2. CASE ~NotRoot(p)
    <3>1. PICK st \in LiveStates : proc' = [proc EXCEPT ![p].st = st]
      BY <1>7, <2>2 DEF DaemonStep, OpenPidFile, WritePid, WriteMode, MonitorReady, LiveStates
    <3> QED  BY <3>1 DEF TypeOK, Process, Signals, Live, LiveStates
  <2> QED  BY <2>1, <2>2
<1>8. ASSUME NEW p \in Pids, PidReused(p) PROVE Signals'
  BY <1>8 DEF PidReused, Unborn, TypeOK, Signals, Live
<1>9. CASE Reboot
  BY <1>9 DEF Reboot, Unborn, TypeOK, Signals, Live
<1>10. ASSUME NEW c \in Clients, ClientStep(c) PROVE Signals'
  BY <1>1, <1>2, <1>3, <1>4, <1>5, <1>10 DEF ClientStep, DaemonPid, Unlink, Return, Spawn, Remove,
     ChangeUnit, StartUnit, UnitStopped, Reload, StepFails
<1> QED
  BY <1>1, <1>2, <1>5, <1>6, <1>7, <1>8, <1>9, <1>10, Frames DEF Begin, TuiExit, Publish,
     SystemdSpawn, vars

LEMMA ManagingStep ==
    ASSUME TypeOK, Signals, Managing, [Next]_vars
    PROVE  Managing'
<1>1. ASSUME NEW c \in Clients, Spawn(c) PROVE Managing'
  <2>1. PICK p \in Pids : proc[p].st = "unborn" /\ proc' = Spawned(p, c, "transient", c \in Roots)
    BY <1>1 DEF Spawn
  <2>2. /\ proc'[p].mode = "transient" /\ proc'[p].parent = c
        /\ ~Live(p)
        /\ \A q \in Pids \ {p} : proc'[q] = proc[q]
    BY <2>1, SpawnSteps
  <2>3. c # "systemd" /\ systemd' = systemd
    BY <1>1, ClientAssumption DEF Spawn
  <2> QED  BY <2>2, <2>3 DEF Managing, Managed, Live
<1>2. CASE SystemdSpawn
  <2>1. PICK p \in Pids : proc[p].st = "unborn"
                          /\ proc' = Spawned(p, "systemd", "persistent", TRUE)
    BY <1>2 DEF SystemdSpawn
  <2>2. /\ proc'[p].mode = "persistent" /\ proc'[p].parent = "systemd" /\ proc'[p].root
        /\ Live(p)'
        /\ \A q \in Pids \ {p} : proc'[q] = proc[q]
    BY <2>1, SpawnSteps
  <2>3. systemd = "starting" /\ systemd' = "active"
    BY <1>2 DEF SystemdSpawn
  <2>4. \A q \in Pids : ~Managed(q)
    BY <2>3 DEF Managing
  <2> QED  BY <2>2, <2>3, <2>4 DEF Managing, Managed, Live
<1>3. ASSUME NEW p \in Pids, Ends(p) PROVE Managing'
  <2>1. /\ NoneNew /\ ~Managed(p)'
        /\ \A q \in Pids \ {p} : proc'[q] = proc[q]
        /\ systemd' = IF Managed(p) THEN IF systemd = "stopping" THEN "inactive" ELSE "starting"
                      ELSE systemd
    BY <1>3, EndSteps
  <2>2. \A q \in Pids \ {p} : Managed(q)' <=> Managed(q)
    BY <2>1 DEF Managed, Live
  <2>3. systemd' \in {"active", "stopping"} <=> \E q \in Pids : Managed(q)'
    BY <2>1, <2>2 DEF Managing
  <2>4. \A q \in Pids : Managed(q)' => Managed(q) /\ proc'[q] = proc[q]
    BY <2>1, <2>2
  <2> QED  BY <2>1, <2>3, <2>4 DEF Managing, NoneNew, Managed
<1>4. CASE Reboot
  <2>1. \A p \in Pids : ~Live(p)'
    BY <1>4 DEF Reboot, Unborn, TypeOK, Live, LiveStates
  <2> QED  BY <1>4, <2>1 DEF Reboot, Managing, Managed
<1>5. ASSUME SameManaged,
             systemd' = systemd \/ \E c \in Clients : StartUnit(c) \/ StopUnit(c)
      PROVE  Managing'
  BY <1>5, ManagingSame DEF StartUnit, StopUnit
<1>6. ASSUME NEW c \in Clients, ClientStep(c) PROVE Managing'
  <2>1. CASE StopUnit(c)
    BY <2>1, <1>5, SteadySteps
  <2>2. CASE StartUnit(c)
    BY <2>2, <1>5, SteadySteps DEF StartUnit
  <2>3. CASE Kill(c)
    BY <2>3, <1>5, SteadySteps DEF Kill
  <2>4. CASE Return(c)
    BY <2>4, <1>5, SteadySteps DEF Return
  <2> QED
    BY <1>1, <1>5, <1>6, <2>1, <2>2, <2>3, <2>4, SteadySteps DEF ClientStep, DaemonPid, Unlink,
       Remove, ChangeUnit, UnitStopped, Reload, StepFails
<1>7. ASSUME NEW p \in Pids, DaemonStep(p) \/ Publish(p) \/ PidReused(p) PROVE Managing'
  <2>1. systemd' = systemd
    BY <1>7 DEF DaemonStep, OpenPidFile, NotRoot, WritePid, WriteMode, MonitorReady, Publish,
       PidReused
  <2>2. SameManaged
    BY <1>7, SteadySteps DEF Publish
  <2> QED  BY <1>5, <2>1, <2>2
<1>8. ASSUME NEW c \in Clients, (\E op \in Ops : Begin(c, op)) \/ TuiExit(c) PROVE Managing'
  BY <1>8, <1>5, SteadySteps DEF Begin, TuiExit
<1>9. CASE UNCHANGED vars
  BY <1>9, <1>5, SteadySteps DEF vars
<1> QED  BY <1>2, <1>3, <1>4, <1>6, <1>7, <1>8, <1>9, Frames

LEMMA AllManagedKept ==
    ASSUME TypeOK, Signals, Managing, AllManaged, [Next]_vars,
           \A c \in Clients : ~Spawn(c)
    PROVE  AllManaged'
<1>1. CASE NoneNew
  BY <1>1 DEF AllManaged, NoneNew, Managed
<1>2. CASE SystemdSpawn
  <2>1. PICK p \in Pids : proc[p].st = "unborn"
                          /\ proc' = Spawned(p, "systemd", "persistent", TRUE)
    BY <1>2 DEF SystemdSpawn
  <2>2. proc'[p].parent = "systemd" /\ \A q \in Pids \ {p} : proc'[q] = proc[q]
    BY <2>1, SpawnSteps
  <2> QED  BY <2>2 DEF AllManaged, Managed, Live
<1>3. CASE Reboot
  <2>1. \A p \in Pids : ~Live(p)'
    BY <1>3 DEF Reboot, Unborn, TypeOK, Live, LiveStates
  <2> QED  BY <2>1 DEF AllManaged
<1>4. ASSUME NEW p \in Pids, DaemonStep(p) \/ Publish(p) \/ PidReused(p) \/ Ends(p) PROVE NoneNew
  BY <1>4, EndSteps, SteadySteps DEF SameManaged, Publish
<1>5. ASSUME NEW c \in Clients, (\E op \in Ops : Begin(c, op)) \/ TuiExit(c) PROVE NoneNew
  BY <1>5, SteadySteps DEF SameManaged, Begin, TuiExit
<1>6. ASSUME NEW c \in Clients, ClientStep(c) PROVE NoneNew
  <2>1. CASE Kill(c) \/ StopUnit(c)
    BY <2>1, SteadySteps DEF SameManaged
  <2>2. CASE Return(c)
    BY <2>2, SteadySteps DEF SameManaged, Return
  <2> QED
    BY <1>6, <2>1, <2>2, SteadySteps DEF SameManaged, ClientStep, DaemonPid, Unlink,
       Remove, ChangeUnit, UnitStopped, Reload, StepFails, StartUnit
<1>7. ASSUME UNCHANGED vars PROVE NoneNew
  BY <1>7, SteadySteps DEF SameManaged, vars
<1> QED  BY <1>1, <1>2, <1>3, <1>4, <1>5, <1>6, <1>7, Frames

LEMMA ApartStep ==
    ASSUME Orderly, TypeOK, OneOperation, OpSteps, UnitInv, [Next]_vars
    PROVE  Apart'
<1> USE DEF UnitInv
<1>1. ASSUME NEW c \in Clients, NEW op \in Ops, Begin(c, op) PROVE Apart'
  <2>1. AllManaged' <=> AllManaged
    BY <1>1 DEF Begin, AllManaged, Managed, Live
  <2>2. op = "start" => ~unit.file
    BY <1>1 DEF Begin, Proper, Orderly, ByHandOps, Apart
  <2>3. op = "enable" => AllManaged
    BY <1>1 DEF Begin, Proper, Orderly, ByHandOps, Managing, AllManaged, Managed
  <2>4. /\ client'[c].op = op /\ (op = "enable" => client'[c].at \in {"writeUnit", "err"})
        /\ \A d \in Clients \ {c} : client'[d] = Idle
    BY <1>1, SerialBegin DEF Orderly
  <2>5. UNCHANGED <<unit, systemd>>
    BY <1>1 DEF Begin
  <2> QED  BY <2>1, <2>2, <2>3, <2>4, <2>5 DEF Apart, At, Idle
<1>2. ASSUME NEW c \in Clients, ClientStep(c) PROVE Apart'
  <2>1. /\ ~At(c, "idle") /\ client'[c].op = client[c].op
        /\ \A d \in Clients \ {c} : client'[d].op = "none"
    BY <1>2, OneClientMoves, MoveTable DEF OneOperation, Idle
  <2>2. client'[c].at \notin {"err", "idle"} => client[c].at \notin {"err", "idle"}
    BY <1>2, <2>1, MoveTable, StepsOnly DEF At
  <2>3. CASE Spawn(c)
    <3>1. At(c, "spawn") /\ unit' = unit /\ systemd' = systemd
      BY <2>3 DEF Spawn
    <3>2. client[c].op = "start"
      BY <3>1 DEF OpSteps, At, StepsOf, StopSteps
    <3> QED  BY <2>1, <3>1, <3>2 DEF Apart
  <2>4. CASE ChangeUnit(c)
    <3>1. /\ client[c].at \in {"writeUnit", "enableUnit", "disableUnit", "d_rmUnit"}
          /\ unit' = UnitAfter(client[c].at) /\ systemd' = systemd /\ proc' = proc
      BY <2>4 DEF ChangeUnit
    <3>2. AllManaged' <=> AllManaged
      BY <3>1 DEF AllManaged, Managed, Live
    <3>3. CASE client[c].at \in {"writeUnit", "enableUnit"}
      <4>1. client[c].op = "enable" /\ "enable" \in Ops
        BY <3>3 DEF OpSteps, StepsOf, StopSteps
      <4>2. unit'.file
        BY <3>1, <3>3, <4>1 DEF UnitAfter, TypeOK, Apart
      <4> QED  BY <2>1, <2>2, <3>1, <3>2, <3>3, <4>1, <4>2 DEF Apart
    <3>4. CASE client[c].at \in {"disableUnit", "d_rmUnit"}
      <4>1. client[c].op = "disable"
        BY <3>4 DEF OpSteps, StepsOf, StopSteps
      <4>2. unit'.file = IF client[c].at = "d_rmUnit" THEN FALSE ELSE unit.file
        BY <3>1, <3>4 DEF UnitAfter, TypeOK
      <4>3. client[c].at = "d_rmUnit" => systemd = "inactive"
        BY <4>1 DEF DisableSteady, Disabling, At
      <4> QED  BY <2>1, <3>1, <3>2, <4>1, <4>2, <4>3 DEF Apart
    <3> QED  BY <3>1, <3>3, <3>4
  <2>5. CASE ~Spawn(c) /\ ~ChangeUnit(c)
    <3>1. unit' = unit /\ (At(c, "writeUnit") => client'[c].at = "err")
          /\ (systemd' # "inactive" => systemd # "inactive" \/ unit.file)
      <4>1. CASE StepFails(c)
        BY <4>1, FailStep DEF FailsTo, At
      <4> QED
        BY <1>2, <2>5, <4>1 DEF ClientStep, DaemonPid, ProbeSteps, Unlink, Return, Kill, Remove,
           StartUnit, StopUnit, UnitStopped, Reload, At
    <3>2. AllManaged => AllManaged'
      <4>1. \A d \in Clients \ {c} : client[d].at = "idle"
        BY <2>1 DEF OneOperation, Idle
      <4>2. \A d \in Clients : ~Spawn(d)
        BY <2>5, <4>1 DEF Spawn, At
      <4> QED  BY <4>2, AllManagedKept
    <3> QED  BY <2>1, <2>2, <3>1, <3>2 DEF Apart, At
  <2> QED  BY <2>3, <2>4, <2>5
<1>3. ASSUME UNCHANGED <<unit, client>>, \A c \in Clients : ~Spawn(c),
             systemd' # "inactive" => systemd # "inactive"
      PROVE  Apart'
  <2>1. AllManaged => AllManaged'
    BY <1>3, AllManagedKept
  <2> QED  BY <1>3, <2>1 DEF Apart, At
<1>4. ASSUME NEW p \in Pids, DaemonStep(p) \/ Publish(p) \/ PidReused(p) \/ Ends(p) PROVE Apart'
  <2>1. UNCHANGED <<unit, client>>
    BY <1>4 DEF DaemonStep, OpenPidFile, NotRoot, WritePid, WriteMode, MonitorReady, Publish,
       PidReused, Ends, MonitorFails, Die, Crash
  <2>2. systemd' # "inactive" => systemd # "inactive"
    <3>1. CASE Ends(p)
      BY <3>1, EndSteps DEF Managing
    <3>2. CASE DaemonStep(p) \/ Publish(p) \/ PidReused(p)
      BY <3>2 DEF DaemonStep, OpenPidFile, NotRoot, WritePid, WriteMode, MonitorReady, Publish,
         PidReused
    <3> QED  BY <1>4, <3>1, <3>2
  <2>3. \A c \in Clients : ~Spawn(c)
    BY <2>1, NoSpawn
  <2> QED  BY <1>3, <2>1, <2>2, <2>3
<1>5. CASE SystemdSpawn
  <2>1. \A c \in Clients : ~Spawn(c)
    BY <1>5 DEF SystemdSpawn, Spawn
  <2> QED  BY <1>3, <1>5, <2>1 DEF SystemdSpawn
<1>6. CASE Reboot
  <2>1. AllManaged'
    BY <1>6 DEF Reboot, Unborn, TypeOK, AllManaged, Live, LiveStates
  <2>2. /\ systemd' # "inactive" => unit.file
        /\ unit' = unit /\ \A c \in Clients : client'[c].op = "none"
    BY <1>6 DEF Reboot, Idle
  <2> QED  BY <2>1, <2>2 DEF Apart
<1>7. ASSUME NEW c \in Clients, TuiExit(c) PROVE Apart'
  <2>1. \A d \in Clients : ~Spawn(d)
    BY <1>7, NoSpawn DEF TuiExit
  <2> QED  BY <1>3, <1>7, <2>1 DEF TuiExit
<1>8. CASE UNCHANGED vars
  BY <1>8 DEF vars, Apart, AllManaged, Managed, Live, At
<1> QED  BY <1>1, <1>2, <1>4, <1>5, <1>6, <1>7, <1>8, Frames

LEMMA DisableSteadyStep ==
    ASSUME Orderly, TypeOK, OneOperation, OpSteps, UnitInv, [Next]_vars
    PROVE  DisableSteady'
<1> USE DEF UnitInv
<1>1. ASSUME NEW c \in Clients, NEW op \in Ops, Begin(c, op) PROVE DisableSteady'
  <2>1. op = "disable" => AllManaged
    BY <1>1 DEF Begin, Proper, Orderly, ByHandOps, Managing, AllManaged, Managed
  <2>2. AllManaged' <=> AllManaged
    BY <1>1 DEF Begin, AllManaged, Managed, Live
  <2>3. /\ client'[c].op = op /\ (op = "disable" => client'[c].at \in {"stopUnit", "err"})
        /\ \A d \in Clients \ {c} : client'[d] = Idle
    BY <1>1, SerialBegin DEF Orderly
  <2> QED  BY <2>1, <2>2, <2>3 DEF DisableSteady, Disabling, At, Idle
<1>2. ASSUME NEW c \in Clients, ClientStep(c) PROVE DisableSteady'
  <2>1. /\ ~At(c, "idle") /\ client'[c].op = client[c].op
        /\ \A d \in Clients \ {c} : client'[d].op = "none"
    BY <1>2, OneClientMoves, MoveTable DEF OneOperation, Idle
  <2>2. SUFFICES ASSUME Disabling(c)' PROVE DisableSteady'
    BY <2>1 DEF DisableSteady, Disabling
  <2>3. Disabling(c) /\ client[c].op = "disable"
        /\ client[c].at \in StepsOf("disable") \cup {"ok"}
    <3>1. /\ client'[c].op = "disable" /\ client'[c].at # "err"
          /\ client'[c].at = "idle" => client'[c].ret = "ok"
      BY <2>2 DEF Disabling, At
    <3>2. client[c].op = "disable" /\ client[c].at \in StepsOf("disable") \cup {"ok"}
      BY <1>2, <2>1, <3>1, MoveTable
    <3> QED  BY <3>2, StepsOnly DEF Disabling, At
  <2>4. AllManaged'
    <3>1. \A d \in Clients : ~Spawn(d)
      BY <2>1, <2>3 DEF OneOperation, Spawn, At, Idle, StepsOf
    <3> QED  BY <2>3, <3>1, AllManagedKept DEF DisableSteady
  <2> DEFINE a == client[c].at
             b == client'[c].at
  <2>5. \/ a = "stopUnit" /\ b = "stopping" /\ systemd' \in {"stopping", "inactive"}
           /\ UNCHANGED <<unit, run>>
        \/ a = "stopping" /\ b = "disableUnit" /\ systemd # "stopping"
           /\ UNCHANGED <<unit, run, systemd>>
        \/ a = "disableUnit" /\ b = "d_rmUnit" /\ unit' = [unit EXCEPT !.enabled = FALSE]
           /\ UNCHANGED <<run, systemd>>
        \/ a = "d_rmUnit" /\ b = "d_rmPid" /\ unit' = [unit EXCEPT !.file = FALSE]
           /\ UNCHANGED <<run, systemd>>
        \/ a = "d_rmPid" /\ b = "d_rmSnap" /\ (c \in Roots => run' = [run EXCEPT !.pid = None])
           /\ UNCHANGED <<unit, systemd>>
        \/ a = "d_rmSnap" /\ b = "d_rmMode" /\ (c \in Roots => run' = [run EXCEPT !.snap = FALSE])
           /\ UNCHANGED <<unit, systemd>>
        \/ a = "d_rmMode" /\ b = "d_reload" /\ (c \in Roots => run' = [run EXCEPT !.mode = None])
           /\ UNCHANGED <<unit, systemd>>
        \/ a = "d_reload" /\ b = "ok" /\ UNCHANGED <<unit, run, systemd>>
        \/ a = "ok" /\ b = "idle" /\ UNCHANGED <<unit, run, systemd>>
    <3>1. \A step : Goto(c, step) => b = step
      BY DEF Goto, TypeOK, Client
    <3>2. CASE StopUnit(c) \/ UnitStopped(c)
      BY <3>1, <3>2 DEF StopUnit, UnitStopped, At
    <3>3. CASE ChangeUnit(c)
      BY <2>3, <3>1, <3>3 DEF ChangeUnit, AfterUnit, UnitAfter, StepsOf
    <3>4. CASE Remove(c)
      BY <2>3, <3>1, <3>4 DEF Remove, AfterRemove, Removed, StepsOf
    <3>5. CASE Return(c)
      BY <2>3, <3>5 DEF Return, StepsOf, TypeOK, Client
    <3>6. CASE Reload(c)
      BY <2>3, <3>1, <3>6 DEF Reload, At
    <3>7. ~StepFails(c)
      <4>1. StepFails(c) => b = "err" \/ a \in {"enableUnit", "startUnit"}
        BY ReportedFails DEF Orderly
      <4> QED  BY <2>2, <2>3, <4>1 DEF Disabling, At, StepsOf
    <3> QED
      BY <1>2, <2>3, <3>2, <3>3, <3>4, <3>5, <3>6, <3>7 DEF ClientStep, DaemonPid, ProbeSteps,
         Unlink, Spawn, Kill, StartUnit, At, StepsOf
  <2>6. /\ a = "stopping" => systemd \in {"stopping", "inactive"}
        /\ a \notin {"stopUnit", "stopping"} => systemd = "inactive"
        /\ a \notin {"stopUnit", "stopping", "disableUnit"} => ~unit.enabled
        /\ a \in {"d_rmPid", "d_rmSnap", "d_rmMode", "d_reload", "ok"} => ~unit.file
        /\ c \in Roots =>
            /\ a \in {"d_rmSnap", "d_rmMode", "d_reload", "ok"} => run.pid = None
            /\ a \in {"d_rmMode", "d_reload", "ok"} => ~run.snap
            /\ a \in {"d_reload", "ok"} => run.mode = None
    BY <2>3 DEF DisableSteady, At
  <2>7. unit \in [file : BOOLEAN, enabled : BOOLEAN] /\ run \in RunDir
    BY DEF TypeOK
  <2> HIDE DEF a, b
  <2>8. /\ b = "stopping" => systemd' \in {"stopping", "inactive"}
        /\ b \notin {"stopUnit", "stopping"} => systemd' = "inactive"
        /\ b \notin {"stopUnit", "stopping", "disableUnit"} => ~unit'.enabled
        /\ b \in {"d_rmPid", "d_rmSnap", "d_rmMode", "d_reload", "ok", "idle"} => ~unit'.file
    BY <2>5, <2>6, <2>7
  <2>9. c \in Roots =>
            /\ b \in {"d_rmSnap", "d_rmMode", "d_reload", "ok", "idle"} => run'.pid = None
            /\ b \in {"d_rmMode", "d_reload", "ok", "idle"} => ~run'.snap
            /\ b \in {"d_reload", "ok", "idle"} => run'.mode = None
    BY <2>5, <2>6, <2>7 DEF RunDir
  <2> QED  BY <2>1, <2>4, <2>8, <2>9 DEF DisableSteady, Disabling, At, b
<1>3. ASSUME UNCHANGED <<unit, client>>, \A c \in Clients : ~Spawn(c),
             systemd = "stopping" => systemd' \in {"stopping", "inactive"},
             systemd = "inactive" => systemd' = "inactive",
             systemd = "inactive" /\ AllManaged => run' = run
      PROVE  DisableSteady'
  <2>1. AllManaged => AllManaged'
    BY <1>3, AllManagedKept
  <2> QED  BY <1>3, <2>1 DEF DisableSteady, Disabling, At
<1>4. ASSUME NEW p \in Pids, DaemonStep(p) \/ Publish(p) \/ PidReused(p) \/ Ends(p)
      PROVE  DisableSteady'
  <2>1. UNCHANGED <<unit, client>>
    BY <1>4 DEF DaemonStep, OpenPidFile, NotRoot, WritePid, WriteMode, MonitorReady, Publish,
       PidReused, Ends, MonitorFails, Die, Crash
  <2>2. /\ systemd = "stopping" => systemd' \in {"stopping", "inactive"}
        /\ systemd = "inactive" => systemd' = "inactive"
    <3>1. CASE Ends(p)
      BY <3>1, EndSteps DEF Managing
    <3>2. CASE DaemonStep(p) \/ Publish(p) \/ PidReused(p)
      BY <3>2 DEF DaemonStep, OpenPidFile, NotRoot, WritePid, WriteMode, MonitorReady, Publish,
         PidReused
    <3> QED  BY <1>4, <3>1, <3>2
  <2>3. systemd = "inactive" /\ AllManaged => run' = run
    <3>1. systemd = "inactive" /\ AllManaged => \A q \in Pids : ~Live(q)
      BY DEF Managing, AllManaged
    <3> QED
      BY <1>4, <3>1 DEF Live, LiveStates, DaemonStep, OpenPidFile, NotRoot, WritePid, WriteMode,
         MonitorReady, Publish, PidReused, Ends, MonitorFails, Die, Crash
  <2>4. \A c \in Clients : ~Spawn(c)
    BY <2>1, NoSpawn
  <2> QED  BY <1>3, <2>1, <2>2, <2>3, <2>4
<1>5. CASE SystemdSpawn
  <2>1. \A c \in Clients : ~Spawn(c)
    BY <1>5 DEF SystemdSpawn, Spawn
  <2> QED  BY <1>3, <1>5, <2>1 DEF SystemdSpawn
<1>6. CASE Reboot
  BY <1>6 DEF Reboot, DisableSteady, Disabling, Idle
<1>7. ASSUME NEW c \in Clients, TuiExit(c) PROVE DisableSteady'
  <2>1. \A d \in Clients : ~Spawn(d)
    BY <1>7, NoSpawn DEF TuiExit
  <2> QED  BY <1>3, <1>7, <2>1 DEF TuiExit
<1>8. CASE UNCHANGED vars
  BY <1>8 DEF vars, DisableSteady, Disabling, AllManaged, Managed, Live, At
<1> QED  BY <1>1, <1>2, <1>4, <1>5, <1>6, <1>7, <1>8, Frames

LEMMA UnitStep ==
    ASSUME Orderly, TypeOK, OneOperation, OpSteps, UnitInv, [Next]_vars
    PROVE  UnitInv'
BY SignalsStep, ManagingStep, ApartStep, DisableSteadyStep DEF UnitInv

(* How far each process gets in one step.                                  *)
LEMMA ProcSteps ==
    ASSUME TypeOK, [Next]_vars
    PROVE  \/ QuietStep
           \/ \E c \in Clients : Spawn(c)
           \/ SystemdSpawn
           \/ \E p \in Pids : OpenPidFile(p) \/ WritePid(p) \/ WriteMode(p) \/ MonitorReady(p)
<1>1. ASSUME NEW c \in Clients, ClientStep(c) PROVE QuietStep \/ Spawn(c)
  <2>1. CASE StopUnit(c)
    BY <2>1 DEF StopUnit, QuietStep, TypeOK, Process
  <2> QED  BY <1>1, <2>1, QuietSteps DEF ClientStep, DaemonPid, Unlink, Return, Remove,
              ChangeUnit, StartUnit, UnitStopped, Reload, StepFails
<1>2. ASSUME NEW c \in Clients, TuiExit(c) \/ \E op \in Ops : Begin(c, op) PROVE QuietStep
  BY <1>2, QuietSteps DEF TuiExit, Begin
<1>3. ASSUME NEW p \in Pids, NotRoot(p) \/ Ends(p) \/ Publish(p) \/ PidReused(p)
      PROVE  QuietStep
  BY <1>3, QuietSteps DEF NotRoot, Ends, MonitorFails, Publish, Die, Crash
<1>4. Reboot \/ UNCHANGED vars => QuietStep
  BY QuietSteps DEF vars
<1> QED  BY <1>1, <1>2, <1>3, <1>4, Frames DEF DaemonStep

LEMMA NamedIsRootStep ==
    ASSUME TypeOK, NamedIsRoot, [Next]_vars
    PROVE  NamedIsRoot'
<1>1. CASE QuietStep
  BY <1>1 DEF QuietStep, NamedIsRoot
<1>2. ASSUME NEW p \in Pids, proc[p].st = "unborn", NEW by, NEW mode, NEW root,
             proc' = Spawned(p, by, mode, root)
      PROVE  NamedIsRoot'
  <2>1. proc'[p].st = "boot" /\ \A q \in Pids \ {p} : proc'[q] = proc[q]
    BY <1>2, SpawnSteps
  <2> QED  BY <2>1 DEF NamedIsRoot
<1>3. ASSUME NEW p \in Pids,
             OpenPidFile(p) \/ WritePid(p) \/ WriteMode(p) \/ MonitorReady(p)
      PROVE  NamedIsRoot'
  <2>1. PICK st \in LiveStates : proc' = [proc EXCEPT ![p].st = st]
    BY <1>3 DEF OpenPidFile, WritePid, WriteMode, MonitorReady, LiveStates
  <2>2. proc[p].root
    BY <1>3 DEF OpenPidFile, WritePid, WriteMode, MonitorReady, NamedIsRoot, LiveStates
  <2>3. proc'[p].root = proc[p].root /\ \A q \in Pids \ {p} : proc'[q] = proc[q]
    BY <2>1 DEF TypeOK, Process
  <2> QED  BY <2>2, <2>3 DEF NamedIsRoot
<1> QED  BY <1>1, <1>2, <1>3, ProcSteps DEF Spawn, SystemdSpawn

(* ------------------------------ by hand --------------------------------- *)

(* No daemon is on its way while an operation other than the wait of its   *)
(* start() is under way, or when none is.                                  *)
LEMMA NoneBooting ==
    ASSUME OneDaemonInv, NEW p \in Pids, Daemon(p), proc[p].st \in {"boot", "naming"},
           NEW c \in Clients, ~At(c, "idle")
    PROVE  At(c, "startPoll") /\ client[c].pid = p /\ run.pid \notin Pids /\ c \in Roots
<1>1. PICK d \in Roots : At(d, "startPoll") /\ client[d].pid = p
  BY DEF OneDaemonInv, ByHand, BootIsPolled
<1>2. c = d
  BY <1>1, ClientAssumption DEF OneDaemonInv, OneOperation, At, Idle
<1> QED  BY <1>1, <1>2 DEF OneDaemonInv, ByHand, BootIsPolled

LEMMA DaemonCases ==
    ASSUME NEW p \in Pids, Daemon(p)
    PROVE  proc[p].st \in {"boot", "naming"} \/ proc[p].st \in {"named", "setup", "serve"}
BY DEF Daemon, Live, LiveStates

LEMMA NamedIsDaemon ==
    ASSUME NamedIsRoot, NEW p \in Pids, proc[p].st \in {"naming", "named", "setup", "serve"}
    PROVE  Daemon(p)
BY DEF NamedIsRoot, Daemon, Live, LiveStates

LEMMA OneDaemon ==
    ASSUME OneDaemonInv
    PROVE  AtMostOneDaemon
<1> SUFFICES ASSUME NEW p \in Pids, NEW q \in Pids, Daemon(p), Daemon(q) PROVE p = q
  BY DEF AtMostOneDaemon
<1>1. CASE proc[p].st \in {"boot", "naming"} \/ proc[q].st \in {"boot", "naming"}
  <2>1. run.pid \notin Pids
    BY <1>1 DEF OneDaemonInv, ByHand, BootIsPolled
  <2>2. proc[p].st \in {"boot", "naming"} /\ proc[q].st \in {"boot", "naming"}
    BY <2>1, DaemonCases DEF OneDaemonInv, ByHand, DaemonReachable
  <2>3. PICK c \in Clients : At(c, "startPoll") /\ client[c].pid = p
    BY <2>2, ClientAssumption DEF OneDaemonInv, ByHand, BootIsPolled
  <2> QED  BY <2>2, <2>3, NoneBooting DEF At
<1>2. CASE proc[p].st \in {"named", "setup", "serve"} /\ proc[q].st \in {"named", "setup", "serve"}
  BY <1>2 DEF OneDaemonInv, ByHand, DaemonReachable
<1> QED  BY <1>1, <1>2, DaemonCases

(* The steps that leave the PID file and the clients alone.                *)
LEMMA QuietInv ==
    ASSUME OneDaemonInv, QuietStep, run'.pid = run.pid, UNCHANGED client,
           run'.snap => run.snap \/ \E p \in Pids : Daemon(p)
    PROVE  ByHand'
<1>1. ASSUME NEW p \in Pids, Daemon(p)'
      PROVE  Daemon(p) /\ proc'[p].st = proc[p].st /\ (proc[p].sig => proc'[p].sig)
  BY <1>1 DEF QuietStep, Daemon, Live
<1>2. BootIsPolled'
  BY <1>1 DEF OneDaemonInv, ByHand, BootIsPolled, At
<1>3. DaemonReachable'
  BY DEF OneDaemonInv, ByHand, DaemonReachable, QuietStep, LiveStates
<1>4. NoneBeforeSpawn'
  BY <1>1 DEF OneDaemonInv, ByHand, NoneBeforeSpawn, At
<1>5. ASSUME NEW c \in Roots PROVE StopAt(c)'
  <2>1. StopAt(c)
    BY DEF OneDaemonInv, ByHand, StopSteady
  <2>2. StopOk(c)' <=> StopOk(c)
    BY DEF StopOk, Returned, At
  <2> QED  BY <1>1, <2>1, <2>2 DEF StopAt, At
<1> QED  BY <1>2, <1>3, <1>4, <1>5 DEF ByHand, StopSteady

(* Where no daemon runs and no operation is close to it.                   *)
LEMMA AllQuiet ==
    ASSUME \A p \in Pids : ~Live(p)',
           \A d \in Roots : /\ client'[d].op # "stop"
                            /\ client'[d].at \notin {"spawn", "kill", "stopPoll", "rmSnap"}
    PROVE  ByHand'
<1>1. BootIsPolled' /\ DaemonReachable'
  BY DEF BootIsPolled, DaemonReachable, Daemon, Live, LiveStates
<1>2. NoneBeforeSpawn'
  BY DEF NoneBeforeSpawn, Daemon, At
<1>3. StopSteady'
  BY DEF StopSteady, StopAt, StopOk, Daemon, At
<1> QED  BY <1>1, <1>2, <1>3 DEF ByHand

(* The other clients have no part in a step of client c.                   *)
LEMMA OthersIdle ==
    ASSUME NEW c \in Clients, \A d \in Clients \ {c} : client'[d] = Idle
    PROVE  /\ (c \in Roots => StopAt(c)') => StopSteady'
           /\ (c \in Roots => /\ client'[c].at \in {"spawn", "unlink"} =>
                                    \A p \in Pids : ~Daemon(p)'
                              /\ client'[c].at = "spawn" => run'.pid \notin Pids)
              => NoneBeforeSpawn'
<1>1. ASSUME NEW d \in Roots, d # c PROVE StopAt(d)' /\ client'[d].at = "idle"
  BY <1>1, ClientAssumption DEF StopAt, StopOk, Returned, At, Idle
<1> QED  BY <1>1 DEF StopSteady, NoneBeforeSpawn, At

LEMMA OthersAre ==
    ASSUME TypeOK, OneOperation, NEW c \in Clients, ClientStep(c)
    PROVE  ~At(c, "idle") /\ \A d \in Clients \ {c} : client'[d] = Idle
BY OneClientMoves DEF OneOperation

LEMMA BeginInv ==
    ASSUME Serial, OneDaemonInv, NEW c \in Clients, NEW op \in Ops, Begin(c, op)
    PROVE  ByHand'
<1>1. /\ \A d \in Clients : At(d, "idle")
      /\ \A d \in Clients \ {c} : client'[d] = Idle
      /\ client'[c].at \in {"start", "stop", "status", "writeUnit", "stopUnit", "err"}
  BY SerialBegin, OpsAssumption DEF OneDaemonInv, AllOps, FirstStep
<1>2. \A p \in Pids : Daemon(p) => proc[p].st \notin {"boot", "naming"}
  BY <1>1, ClientAssumption DEF OneDaemonInv, ByHand, BootIsPolled, At
<1>3. UNCHANGED <<proc, run>>
  BY DEF Begin
<1>4. BootIsPolled'
  BY <1>2, <1>3 DEF BootIsPolled, Daemon, Live
<1>5. DaemonReachable'
  BY <1>3 DEF OneDaemonInv, ByHand, DaemonReachable
<1>6. NoneBeforeSpawn'
  BY <1>1, OthersIdle
<1>7. StopAt(c)'
  BY <1>1 DEF StopAt, StopOk, Returned, At
<1>8. StopSteady'
  BY <1>1, <1>7, OthersIdle
<1> QED  BY <1>4, <1>5, <1>6, <1>8 DEF ByHand

LEMMA DaemonPidInv ==
    ASSUME Prompt, OneDaemonInv, NEW c \in Clients, DaemonPid(c)
    PROVE  ByHand'
<1>1. UNCHANGED <<proc, run>> /\ client[c].at \in ProbeSteps /\ TypeOK
  BY DEF DaemonPid, OneDaemonInv
<1>2. ~At(c, "idle") /\ \A d \in Clients \ {c} : client'[d] = Idle
  BY <1>1, OthersAre DEF ClientStep, OneDaemonInv
<1>3. ASSUME NEW p \in Pids, Daemon(p)
      PROVE  \/ At(c, "startPoll") /\ client[c].pid = p /\ Absent
             \/ run.pid = p /\ Running
  <2>1. CASE proc[p].st \in {"boot", "naming"}
    BY <1>1, <1>2, <1>3, <2>1, NoneBooting DEF Absent, TypeOK, RunDir
  <2>2. CASE proc[p].st \in {"named", "setup", "serve"}
    BY <1>3, <2>2 DEF OneDaemonInv, ByHand, DaemonReachable, Running, InProc, Daemon
  <2> QED  BY <1>3, <2>1, <2>2, DaemonCases
<1>4. /\ ~(Running /\ Absent) /\ ~(Running /\ Stale) /\ ~(Absent /\ Stale)
  BY PidAssumption DEF Running, Absent, Stale
<1>5. BootIsPolled'
  <2> SUFFICES ASSUME NEW p \in Pids, Daemon(p), proc[p].st \in {"boot", "naming"}
               PROVE  run.pid \notin Pids /\ client'[c].at = "startPoll" /\ client'[c].pid = p
                      /\ c \in Roots
    BY <1>1 DEF BootIsPolled, Daemon, Live, At
  <2>1. At(c, "startPoll") /\ client[c].pid = p /\ run.pid \notin Pids /\ c \in Roots
    BY <1>2, NoneBooting
  <2>2. Absent
    BY <1>1, <2>1 DEF Absent, TypeOK, RunDir
  <2>3. client[c].left > 1
    BY <1>1, <2>1 DEF DaemonPid, InTime, At, TypeOK, Client
  <2> QED  BY <1>1, <1>4, <2>1, <2>2, <2>3, ProbeStep DEF At, IfDown
<1>6. DaemonReachable'
  BY <1>1 DEF OneDaemonInv, ByHand, DaemonReachable
<1>7. NoneBeforeSpawn'
  <2>1. ASSUME client'[c].at \in {"spawn", "unlink"} PROVE \A p \in Pids : ~Daemon(p)
    <3>1. IfRunning(client[c].at) \notin {"spawn", "unlink"}
      BY <1>1 DEF IfRunning, ProbeSteps
    <3>2. IfTimeout(client[c].at) \notin {"spawn", "unlink"}
          /\ client[c].at \notin {"spawn", "unlink"}
      BY <1>1 DEF IfTimeout, ProbeSteps
    <3>3. ~Running
      BY <1>1, <1>4, <2>1, <3>1, <3>2, ProbeStep
    <3>4. ~At(c, "startPoll") \/ Stale
      BY <1>1, <2>1, <3>2, <3>3, ProbeStep DEF At, IfDown
    <3> QED  BY <1>3, <1>4, <3>3, <3>4
  <2>2. client'[c].at = "spawn" => run.pid \notin Pids
    <3>1. client'[c].at = "spawn" => Absent
      BY <1>1, ProbeStep DEF IfRunning, IfTimeout, ProbeSteps
    <3> QED  BY <3>1, PidAssumption DEF Absent
  <2>3. \A p \in Pids : Daemon(p)' <=> Daemon(p)
    BY <1>1 DEF Daemon, Live
  <2> QED  BY <1>1, <1>2, <2>1, <2>2, <2>3, OthersIdle
<1>8. ASSUME c \in Roots PROVE StopAt(c)'
  <2> DEFINE at == client'[c].at
  <2>0. SUFFICES /\ at \in {"kill", "stopPoll"} =>
                        /\ client'[c].pid \in Pids /\ run.pid \in {client'[c].pid, None}
                        /\ \A p \in Pids : Daemon(p) => p = client'[c].pid
                 /\ at = "stopPoll" => \A p \in Pids : Daemon(p) => proc[p].sig
                 /\ at \in {"forceKill", "rmPid", "rmSnap"} => \A p \in Pids : ~Daemon(p)
                 /\ at = "rmSnap" => run.pid = None
                 /\ ~StopOk(c)'
    BY <1>1 DEF StopAt, Daemon, Live, At
  <2>1. CASE At(c, "stop")
    <3>1. CASE Running
      <4>1. at = "kill" /\ client'[c].pid = run.pid
        BY <1>1, <1>4, <2>1, <3>1, ProbeStep DEF At, IfRunning
      <4> QED  BY <1>3, <2>1, <3>1, <4>1 DEF Running, At, StopOk, Returned
    <3>2. CASE ~Running
      <4>1. at \in {"err", "unlink"}
        BY <1>1, <2>1, <3>2, ProbeStep DEF At, IfDown
      <4> QED  BY <4>1 DEF StopOk, Returned, At
    <3> QED  BY <3>1, <3>2
  <2>2. CASE At(c, "stopPoll")
    <3>1. /\ client[c].pid \in Pids /\ run.pid \in {client[c].pid, None}
          /\ \A p \in Pids : Daemon(p) => p = client[c].pid /\ proc[p].sig
      BY <1>8, <2>2 DEF OneDaemonInv, ByHand, StopSteady, StopAt, At
    <3>2. CASE Running
      <4>1. \/ at = "stopPoll"
            \/ at = "forceKill" /\ ~(client[c].left > 1)
        BY <1>1, <1>4, <2>2, <3>2, ProbeStep DEF At, IfRunning, IfTimeout
      <4>2. client'[c].pid = client[c].pid
        BY <1>1, <1>4, <2>2, <3>2, ProbeStep DEF At
      <4>3. ~(client[c].left > 1) => ~proc[client[c].pid].sig
        BY <1>1, <2>2, <3>1 DEF DaemonPid, InTime, At, TypeOK, Client
      <4> QED  BY <3>1, <4>1, <4>2, <4>3 DEF StopOk, Returned, At
    <3>3. CASE Absent
      <4>1. at = "rmSnap"
        BY <1>1, <1>4, <2>2, <3>3, ProbeStep DEF At, IfDown
      <4>2. \A p \in Pids : ~Daemon(p)
        BY <1>3, <1>4, <2>2, <3>3 DEF At
      <4>3. run.pid = None
        BY <3>1, <3>3, PidAssumption DEF Absent
      <4> QED  BY <4>1, <4>2, <4>3 DEF StopOk, Returned, At
    <3>4. CASE Stale
      <4>1. at = "unlink"
        BY <1>1, <1>4, <2>2, <3>4, ProbeStep DEF At
      <4> QED  BY <4>1 DEF StopOk, Returned, At
    <3> QED  BY <1>1, <3>2, <3>3, <3>4, ProbeStep
  <2>3. CASE client[c].at \notin {"stop", "stopPoll"}
    <3>1. at \notin {"kill", "stopPoll", "forceKill", "rmPid", "rmSnap"}
      <4>1. /\ IfRunning(client[c].at) \notin {"kill", "stopPoll", "forceKill", "rmPid", "rmSnap"}
            /\ IfDown(client[c].at) \notin {"kill", "stopPoll", "forceKill", "rmPid", "rmSnap"}
            /\ IfTimeout(client[c].at) \notin {"kill", "stopPoll", "forceKill", "rmPid", "rmSnap"}
            /\ client[c].at \notin {"kill", "stopPoll", "forceKill", "rmPid", "rmSnap"}
        BY <1>1, <2>3 DEF IfRunning, IfDown, IfTimeout, ProbeSteps
      <4> QED  BY <1>1, <4>1, ProbeStep
    <3>2. client[c].op # "stop" /\ client'[c].op = client[c].op
      BY <1>1, <1>8, <2>3, ClientAssumption, ProbeStep
      DEF OneDaemonInv, OpSteps, StepsOf, ProbeSteps, StopSteps
    <3> QED  BY <3>1, <3>2 DEF StopOk
  <2> QED  BY <2>1, <2>2, <2>3 DEF At
<1>9. StopSteady'
  BY <1>2, <1>8, OthersIdle
<1> QED  BY <1>5, <1>6, <1>7, <1>9 DEF ByHand

LEMMA UnlinkInv ==
    ASSUME OneDaemonInv, NEW c \in Clients, Unlink(c)
    PROVE  ByHand'
<1>1. UNCHANGED proc /\ At(c, "unlink") /\ TypeOK
  BY DEF Unlink, OneDaemonInv
<1>2. ~At(c, "idle") /\ \A d \in Clients \ {c} : client'[d] = Idle
  BY OthersAre DEF ClientStep, OneDaemonInv
<1>3. \A p \in Pids : Daemon(p) => proc[p].st \notin {"boot", "naming"}
  BY <1>1, <1>2, NoneBooting DEF At
<1>4. c \in Roots => \A p \in Pids : ~Daemon(p)
  BY <1>1 DEF OneDaemonInv, ByHand, NoneBeforeSpawn, At
<1>5. run'.pid = IF c \in Roots THEN None ELSE run.pid
  BY <1>1 DEF Unlink, TypeOK, RunDir
<1>6. BootIsPolled'
  BY <1>1, <1>3 DEF BootIsPolled, Daemon, Live
<1>7. DaemonReachable'
  <2>1. \A p \in Pids : proc[p].st \in {"named", "setup", "serve"} => Daemon(p)
    BY NamedIsDaemon DEF OneDaemonInv
  <2> QED  BY <1>1, <1>4, <1>5, <2>1 DEF OneDaemonInv, ByHand, DaemonReachable
<1>8. \A p \in Pids : Daemon(p)' <=> Daemon(p)
  BY <1>1 DEF Daemon, Live
<1>9. NoneBeforeSpawn'
  BY <1>2, <1>4, <1>5, <1>8, OthersIdle, PidAssumption
<1>10. ASSUME c \in Roots PROVE StopAt(c)'
  <2> DEFINE at == client'[c].at
             then == client[c].then
  <2>1. /\ client'[c].op = client[c].op
        /\ at = IF IfDown(then) # then THEN IfDown(then)
                ELSE IF client[c].left > 1 THEN then ELSE IfTimeout(then)
    BY <1>1, UnlinkStep
  <2>2. then \in ProbeSteps \cup {"idle"} /\ then # "idle"
    BY <1>1 DEF TypeOK, Client, OneDaemonInv, OpSteps
  <2>3. at \notin {"kill", "stopPoll", "forceKill", "rmPid", "idle"}
    BY <2>1, <2>2 DEF IfDown, IfTimeout, ProbeSteps
  <2>4. client[c].op = "stop" => then \in {"stop", "stopPoll"}
    BY <1>10, <2>2, ClientAssumption DEF OneDaemonInv, OpSteps, StepsOf, ProbeSteps, StopSteps
  <2>5. client[c].op = "stop" => at # "ok"
    BY <2>1, <2>4 DEF IfDown
  <2> HIDE DEF at
  <2> QED  BY <1>4, <1>5, <1>8, <1>10, <2>1, <2>3, <2>5 DEF StopAt, StopOk, Returned, At, at
<1>11. StopSteady'
  BY <1>2, <1>10, OthersIdle
<1> QED  BY <1>6, <1>7, <1>9, <1>11 DEF ByHand

LEMMA ReturnInv ==
    ASSUME OneDaemonInv, NEW c \in Clients, Return(c)
    PROVE  ByHand'
<1>1. UNCHANGED run /\ client[c].at \in {"ok", "err"} /\ TypeOK
  BY DEF Return, OneDaemonInv
<1>2. ~At(c, "idle") /\ \A d \in Clients \ {c} : client'[d] = Idle
  BY OthersAre DEF ClientStep, OneDaemonInv
<1>3. client'[c].at = "idle" /\ client'[c].ret = client[c].at
      /\ client'[c].op = client[c].op /\ client'[c].then = client[c].then
  BY <1>1 DEF Return, TypeOK, Client
<1>4. QuietStep
  BY <1>1, QuietSteps DEF Return
<1>5. ASSUME NEW p \in Pids, Daemon(p)'
      PROVE  Daemon(p) /\ proc'[p].st = proc[p].st
  BY <1>4, <1>5 DEF QuietStep, Daemon, Live
<1>6. \A p \in Pids : Daemon(p) => proc[p].st \notin {"boot", "naming"}
  BY <1>1, <1>2, NoneBooting DEF At
<1>7. BootIsPolled'
  BY <1>5, <1>6 DEF BootIsPolled
<1>8. DaemonReachable'
  BY <1>1, <1>4 DEF OneDaemonInv, ByHand, DaemonReachable, QuietStep, LiveStates
<1>9. NoneBeforeSpawn'
  BY <1>2, <1>3, OthersIdle
<1>10. ASSUME c \in Roots PROVE StopAt(c)'
  <2>1. StopAt(c)
    BY <1>10 DEF OneDaemonInv, ByHand, StopSteady
  <2>2. StopOk(c)' => StopOk(c)
    BY <1>1, <1>3 DEF StopOk, Returned, At
  <2> QED  BY <1>1, <1>3, <1>5, <2>1, <2>2 DEF StopAt, At
<1>11. StopSteady'
  BY <1>2, <1>10, OthersIdle
<1> QED  BY <1>7, <1>8, <1>9, <1>11 DEF ByHand

LEMMA SpawnInv ==
    ASSUME OneDaemonInv, NEW c \in Clients, Spawn(c)
    PROVE  ByHand'
<1>1. UNCHANGED run /\ At(c, "spawn") /\ TypeOK
  BY DEF Spawn, OneDaemonInv
<1>2. ~At(c, "idle") /\ \A d \in Clients \ {c} : client'[d] = Idle
  BY OthersAre DEF ClientStep, OneDaemonInv
<1>3. PICK p \in Pids : /\ proc[p].st = "unborn"
                        /\ proc' = Spawned(p, c, "transient", c \in Roots)
                        /\ client' = [client EXCEPT ![c].at = "startPoll", ![c].pid = p,
                                                    ![c].left = StartPolls]
  BY DEF Spawn
<1>4. client'[c].at = "startPoll" /\ client'[c].pid = p /\ client'[c].op = client[c].op
  BY <1>1, <1>3 DEF TypeOK, Client
<1>5. /\ proc'[p].st = "boot" /\ (proc'[p].root <=> c \in Roots)
      /\ \A q \in Pids \ {p} : proc'[q] = proc[q]
  BY <1>1, <1>3 DEF Spawned, TypeOK
<1>6. \A q \in Pids : Daemon(q) => proc[q].st \notin {"boot", "naming"}
  BY <1>1, <1>2, NoneBooting DEF At
<1>7. c \in Roots => run.pid \notin Pids
  BY <1>1 DEF OneDaemonInv, ByHand, NoneBeforeSpawn
<1>8. BootIsPolled'
  BY <1>1, <1>4, <1>5, <1>6, <1>7 DEF BootIsPolled, Daemon, Live, At
<1>9. DaemonReachable'
  BY <1>1, <1>5 DEF OneDaemonInv, ByHand, DaemonReachable
<1>10. NoneBeforeSpawn'
  BY <1>2, <1>4, OthersIdle
<1>11. StopAt(c)'
  BY <1>4 DEF StopAt, StopOk, Returned, At
<1>12. StopSteady'
  BY <1>2, <1>11, OthersIdle
<1> QED  BY <1>8, <1>9, <1>10, <1>12 DEF ByHand

LEMMA KillInv ==
    ASSUME OneDaemonInv, NEW c \in Clients, Kill(c)
    PROVE  ByHand'
<1>1. UNCHANGED run /\ client[c].at \in {"kill", "forceKill"} /\ TypeOK
      /\ proc' = Signalled(c, client[c].pid)
  BY DEF Kill, OneDaemonInv
<1>2. ~At(c, "idle") /\ \A d \in Clients \ {c} : client'[d] = Idle
  BY OthersAre DEF ClientStep, OneDaemonInv
<1>3. client'[c].at = (IF client[c].at = "kill" THEN "stopPoll" ELSE "rmPid")
      /\ client'[c].pid = client[c].pid
  BY <1>1 DEF Kill, Goto, At, TypeOK, Client
<1>4. QuietStep
  BY <1>1, QuietSteps
<1>5. ASSUME NEW p \in Pids, Daemon(p)'
      PROVE  Daemon(p) /\ proc'[p].st = proc[p].st
  BY <1>4, <1>5 DEF QuietStep, Daemon, Live
<1>6. \A p \in Pids : Daemon(p) => proc[p].st \notin {"boot", "naming"}
  BY <1>1, <1>2, NoneBooting DEF At
<1>7. BootIsPolled'
  BY <1>5, <1>6 DEF BootIsPolled
<1>8. DaemonReachable'
  BY <1>1, <1>4 DEF OneDaemonInv, ByHand, DaemonReachable, QuietStep, LiveStates
<1>9. NoneBeforeSpawn'
  BY <1>2, <1>3, OthersIdle
<1>10. ASSUME c \in Roots PROVE StopAt(c)'
  <2>1. ASSUME client[c].at = "kill"
        PROVE  /\ client[c].pid \in Pids /\ run.pid \in {client[c].pid, None}
               /\ \A p \in Pids : Daemon(p) => p = client[c].pid
    BY <1>10, <2>1 DEF OneDaemonInv, ByHand, StopSteady, StopAt
  <2>2. ASSUME NEW p \in Pids, Daemon(p), p = client[c].pid PROVE proc'[p].sig
    BY <1>1, <1>10, <2>2 DEF Signalled, Daemon, TypeOK, Process
  <2>3. client[c].at = "forceKill" => \A p \in Pids : ~Daemon(p)
    BY <1>10 DEF OneDaemonInv, ByHand, StopSteady, StopAt
  <2> QED  BY <1>1, <1>3, <1>5, <2>1, <2>2, <2>3 DEF StopAt, StopOk, Returned, At
<1>11. StopSteady'
  BY <1>2, <1>10, OthersIdle
<1> QED  BY <1>7, <1>8, <1>9, <1>11 DEF ByHand

LEMMA RemoveInv ==
    ASSUME OneDaemonInv, NEW c \in Clients, Remove(c), client[c].at \in {"rmPid", "rmSnap"}
    PROVE  ByHand'
<1>1. UNCHANGED proc /\ TypeOK
  BY DEF Remove, OneDaemonInv
<1>2. ~At(c, "idle") /\ \A d \in Clients \ {c} : client'[d] = Idle
  BY OthersAre DEF ClientStep, OneDaemonInv
<1>3. client'[c].at = (IF client[c].at = "rmPid" THEN "rmSnap" ELSE "ok")
      /\ client'[c].op = client[c].op
  BY <1>1 DEF Remove, AfterRemove, Goto, At, TypeOK, Client
<1>4. c \in Roots => \A p \in Pids : ~Daemon(p)
  BY <1>1 DEF OneDaemonInv, ByHand, StopSteady, StopAt
<1>5. \A p \in Pids : Daemon(p) => proc[p].st \notin {"boot", "naming"}
  BY <1>1, <1>2, NoneBooting DEF At
<1>6. /\ c \notin Roots => run' = run
      /\ c \in Roots /\ At(c, "rmPid") => run'.pid = None
      /\ c \in Roots /\ At(c, "rmSnap") => run'.pid = run.pid /\ ~run'.snap
  BY <1>1 DEF Remove, Removed, TypeOK, RunDir, At
<1>7. BootIsPolled'
  <2>1. ASSUME NEW p \in Pids, Daemon(p)' PROVE Daemon(p) /\ proc'[p] = proc[p]
    BY <1>1, <2>1 DEF Daemon, Live
  <2> QED  BY <1>5, <2>1 DEF BootIsPolled
<1>8. DaemonReachable'
  <2>1. \A p \in Pids : proc[p].st \in {"named", "setup", "serve"} => Daemon(p)
    BY NamedIsDaemon DEF OneDaemonInv
  <2> QED  BY <1>1, <1>4, <1>6, <2>1 DEF OneDaemonInv, ByHand, DaemonReachable
<1>9. NoneBeforeSpawn'
  BY <1>2, <1>3, OthersIdle
<1>10. ASSUME c \in Roots PROVE StopAt(c)'
  <2>1. At(c, "rmSnap") => run.pid = None
    BY <1>10 DEF OneDaemonInv, ByHand, StopSteady, StopAt
  <2>2. \A p \in Pids : ~Daemon(p)'
    BY <1>1, <1>4, <1>10 DEF Daemon, Live
  <2> QED  BY <1>3, <1>6, <1>10, <2>1, <2>2 DEF StopAt, StopOk, Returned, At
<1>11. StopSteady'
  BY <1>2, <1>10, OthersIdle
<1> QED  BY <1>7, <1>8, <1>9, <1>11 DEF ByHand

(* The steps of the only daemon.                                           *)
LEMMA DaemonStepInv ==
    ASSUME OneDaemonInv, NEW p \in Pids,
           OpenPidFile(p) \/ WritePid(p) \/ WriteMode(p) \/ MonitorReady(p)
    PROVE  ByHand'
<1>1. UNCHANGED client /\ TypeOK
  BY DEF OpenPidFile, WritePid, WriteMode, MonitorReady, OneDaemonInv
<1>2. Daemon(p)
  BY NamedIsDaemon DEF OpenPidFile, WritePid, WriteMode, MonitorReady, OneDaemonInv, Daemon, Live,
     LiveStates
<1>3. \A q \in Pids : Daemon(q) => q = p
  BY <1>2, OneDaemon DEF AtMostOneDaemon
<1>4. PICK st \in LiveStates : proc' = [proc EXCEPT ![p].st = st]
  BY DEF OpenPidFile, WritePid, WriteMode, MonitorReady, LiveStates
<1>5. /\ proc'[p].st = st /\ proc'[p].root = proc[p].root /\ proc'[p].sig = proc[p].sig
      /\ \A q \in Pids \ {p} : proc'[q] = proc[q]
  BY <1>1, <1>4 DEF TypeOK, Process
<1>6. \A q \in Pids : Daemon(q)' => q = p
  BY <1>3, <1>5 DEF Daemon, Live
<1>7. \A q \in Pids : proc[q].st \in {"named", "setup", "serve"} => q = p
  BY <1>3, NamedIsDaemon DEF OneDaemonInv
<1>8. \A q \in Pids : proc'[q].st \in {"named", "setup", "serve"} => q = p
  BY <1>5, <1>7
<1>9. BootIsPolled' /\ DaemonReachable'
  <2>1. CASE OpenPidFile(p)
    <3>1. run'.pid = Empty /\ proc'[p].st = "naming"
      BY <1>1, <1>5, <2>1 DEF OpenPidFile, TypeOK, RunDir, Process
    <3>2. \E c \in Roots : At(c, "startPoll")' /\ client'[c].pid = p
      BY <1>1, <1>2, <2>1 DEF OpenPidFile, OneDaemonInv, ByHand, BootIsPolled, At
    <3> QED  BY <1>6, <1>8, <3>1, <3>2, PidAssumption DEF BootIsPolled, DaemonReachable
  <2>2. CASE WritePid(p)
    <3>1. run'.pid = p /\ proc'[p].st = "named"
      BY <1>1, <1>5, <2>2 DEF WritePid, TypeOK, RunDir, Process
    <3> QED  BY <1>6, <1>8, <3>1 DEF BootIsPolled, DaemonReachable
  <2>3. CASE WriteMode(p) \/ MonitorReady(p)
    <3>1. run'.pid = run.pid /\ proc[p].st \in {"named", "setup"}
          /\ proc'[p].st \in {"setup", "serve"}
      BY <1>1, <1>5, <2>3 DEF WriteMode, MonitorReady, TypeOK, RunDir, Process
    <3>2. run.pid = p
      BY <3>1 DEF OneDaemonInv, ByHand, DaemonReachable
    <3> QED  BY <1>6, <1>8, <3>1, <3>2 DEF BootIsPolled, DaemonReachable
  <2> QED  BY <2>1, <2>2, <2>3
<1>10. NoneBeforeSpawn'
  BY <1>1, <1>2 DEF OneDaemonInv, ByHand, NoneBeforeSpawn, At
<1>11. ASSUME NEW c \in Roots PROVE StopAt(c)'
  <2>1. StopAt(c)
    BY DEF OneDaemonInv, ByHand, StopSteady
  <2>2. client[c].at \in {"kill", "stopPoll"} => run'.pid = run.pid
    <3>1. client[c].at \in {"kill", "stopPoll"} => proc[p].st \notin {"boot", "naming"}
      BY <1>2, NoneBooting, ClientAssumption DEF At
    <3> QED  BY <1>1, <3>1 DEF OpenPidFile, WritePid, WriteMode, MonitorReady, TypeOK, RunDir
  <2>3. ~StopOk(c)' /\ client'[c].at \notin {"forceKill", "rmPid", "rmSnap"}
    BY <1>1, <1>2, <2>1 DEF StopAt, StopOk, Returned, At
  <2> QED  BY <1>1, <1>2, <1>5, <1>6, <2>1, <2>2, <2>3 DEF StopAt, At
<1> QED  BY <1>9, <1>10, <1>11 DEF ByHand, StopSteady

LEMMA MonitorFailsInv ==
    ASSUME OneDaemonInv, NEW p \in Pids, MonitorFails(p)
    PROVE  ByHand'
<1>1. UNCHANGED client /\ TypeOK /\ proc' = Exited(p) /\ run' = [run EXCEPT !.pid = None]
  BY DEF MonitorFails, OneDaemonInv
<1>2. Daemon(p)
  BY NamedIsDaemon DEF MonitorFails, OneDaemonInv
<1>3. QuietStep
  BY <1>1, QuietSteps
<1>4. proc'[p].st \notin LiveStates
  BY <1>1 DEF Exited, TypeOK, Process, LiveStates
<1>5. \A q \in Pids : ~Daemon(q)' /\ proc'[q].st \notin LiveStates \ {"boot"}
  <2>1. \A q \in Pids : Daemon(q) => q = p
    BY <1>2, OneDaemon DEF AtMostOneDaemon
  <2>2. \A q \in Pids : proc'[q].st \in LiveStates => proc[q].st = proc'[q].st
                                                     /\ proc[q].root = proc'[q].root
    BY <1>3 DEF QuietStep
  <2> QED  BY <1>4, <2>1, <2>2 DEF OneDaemonInv, NamedIsRoot, Daemon, Live
<1>6. BootIsPolled' /\ NoneBeforeSpawn' /\ DaemonReachable'
  <2>1. NoneBeforeSpawn'
    BY <1>1, <1>2, <1>5 DEF OneDaemonInv, ByHand, NoneBeforeSpawn, At
  <2> QED  BY <1>5, <2>1 DEF BootIsPolled, DaemonReachable, LiveStates
<1>7. ASSUME NEW c \in Roots PROVE StopAt(c)'
  <2>1. StopAt(c)
    BY DEF OneDaemonInv, ByHand, StopSteady
  <2>2. run'.pid = None /\ run'.snap = run.snap
    BY <1>1 DEF TypeOK, RunDir
  <2>3. ~StopOk(c)'
    BY <1>1, <1>2, <2>1 DEF StopAt, StopOk, Returned, At
  <2> QED  BY <1>1, <1>5, <2>1, <2>2, <2>3 DEF StopAt, At
<1> QED  BY <1>6, <1>7 DEF ByHand, StopSteady

(* Without a unit in sight, disable() has nothing left to end.             *)
LEMMA NothingLeft ==
    ASSUME TypeOK, UnitInv, NEW c \in Clients, Disabling(c), ~At(c, "idle"),
           ~unit.file \/ At(c, "d_rmUnit")
    PROVE  \A p \in Pids : ~Live(p)
<1>1. systemd = "inactive"
  BY DEF UnitInv, Apart, DisableSteady, At
<1>2. AllManaged
  BY DEF UnitInv, DisableSteady
<1> QED  BY <1>1, <1>2 DEF UnitInv, Managing, AllManaged

LEMMA DisableInv ==
    ASSUME TypeOK, OneOperation, OpSteps, UnitInv, NEW c \in Clients, ClientStep(c),
           client[c].op = "disable", ~At(c, "err"), ~unit.file \/ At(c, "d_rmUnit")
    PROVE  ByHand'
<1>1. ~At(c, "idle") /\ (\A d \in Clients \ {c} : client'[d] = Idle)
      /\ client'[c].op = "disable"
      /\ client'[c].at \in StepsOf("disable") \cup {"ok", "err", "idle"}
  BY OthersAre, MoveTable
<1>2. Disabling(c)
  BY <1>1 DEF Disabling
<1>3. \A p \in Pids : ~Live(p)
  BY <1>1, <1>2, NothingLeft
<1>4. QuietStep
  <2>1. ~Spawn(c)
    BY DEF OpSteps, Spawn, At, StepsOf
  <2>2. CASE StopUnit(c)
    BY <1>1, <2>2 DEF StopUnit, QuietStep, TypeOK, Process
  <2> QED  BY <1>1, <2>1, <2>2, QuietSteps DEF ClientStep, DaemonPid, Unlink, Return, Remove,
              ChangeUnit, StartUnit, UnitStopped, Reload, StepFails
<1>5. \A p \in Pids : ~Live(p)'
  BY <1>3, <1>4 DEF QuietStep, Live
<1>6. \A d \in Roots : /\ client'[d].op # "stop"
                       /\ client'[d].at \notin {"spawn", "kill", "stopPoll", "rmSnap"}
  <2>1. client'[c].at \notin {"spawn", "kill", "stopPoll", "rmSnap"}
    BY <1>1 DEF StepsOf
  <2> QED  BY <1>1, <2>1, ClientAssumption DEF Idle
<1> QED  BY <1>5, <1>6, AllQuiet

(* A step that fails changes nothing that the daemons depend on.           *)
LEMMA FailInv ==
    ASSUME Failing \subseteq ReportedSteps, OneDaemonInv, NEW c \in Clients, StepFails(c)
    PROVE  ByHand'
<1>1. /\ UNCHANGED <<proc, run>> /\ TypeOK
      /\ client[c].at \in ReportedSteps /\ client'[c].at \in {"err", "startUnit", "enablePoll"}
  BY FailStep, ReportedFails DEF OneDaemonInv
<1>2. ~At(c, "idle") /\ \A d \in Clients \ {c} : client'[d] = Idle
  BY OthersAre DEF ClientStep, OneDaemonInv
<1>3. ASSUME NEW p \in Pids, Daemon(p)
      PROVE  proc[p].st \notin {"boot", "naming"}
  BY <1>1, <1>2, <1>3, NoneBooting DEF At, ReportedSteps
<1>4. BootIsPolled'
  BY <1>1, <1>3 DEF BootIsPolled, Daemon, Live
<1>5. DaemonReachable'
  BY <1>1 DEF OneDaemonInv, ByHand, DaemonReachable
<1>6. NoneBeforeSpawn' /\ StopSteady'
  BY <1>1, <1>2, OthersIdle DEF StopAt, StopOk, Returned, At
<1> QED  BY <1>4, <1>5, <1>6 DEF ByHand

(* What a client can do where no unit is installed.                        *)
LEMMA ClientInv ==
    ASSUME Failing \subseteq ReportedSteps, Prompt, OneDaemonInv, UnitInv, ~unit.file, ~unit'.file, NEW c \in Clients, ClientStep(c)
    PROVE  ByHand'
<1>1. CASE client[c].op = "disable" /\ ~At(c, "err")
  BY <1>1, DisableInv DEF OneDaemonInv
<1>2. CASE client[c].op # "disable" \/ At(c, "err")
  <2>1. client[c].at \in StepsOf(client[c].op) \cup {"ok", "err", "idle"}
        /\ client[c].op \in AllOps \cup {"none"}
    BY OpsAssumption DEF OneDaemonInv, OpSteps
  <2>2. ~(StopUnit(c) \/ UnitStopped(c) \/ Reload(c))
    BY <1>2, <2>1 DEF StopUnit, UnitStopped, Reload, At, AllOps, StepsOf, StopSteps
  <2>3. ~(ChangeUnit(c) \/ StartUnit(c))
    <3>1. SUFFICES ASSUME ChangeUnit(c) \/ StartUnit(c) PROVE FALSE
      OBVIOUS
    <3>2. client[c].op = "enable" /\ client[c].at \in {"writeUnit", "enableUnit", "startUnit"}
      BY <1>2, <2>1, <3>1 DEF ChangeUnit, StartUnit, At, AllOps, StepsOf, StopSteps
    <3>3. client[c].at = "writeUnit"
      BY <3>2 DEF UnitInv, Apart
    <3>4. unit' = [unit EXCEPT !.file = TRUE]
      BY <3>1, <3>3 DEF ChangeUnit, UnitAfter, StartUnit, At
    <3> QED  BY <3>4 DEF OneDaemonInv, TypeOK
  <2>4. Remove(c) => client[c].at \in {"rmPid", "rmSnap"}
    BY <1>2, <2>1 DEF Remove, At, AllOps, StepsOf, StopSteps
  <2> QED  BY <2>2, <2>3, <2>4, DaemonPidInv, UnlinkInv, ReturnInv, SpawnInv, KillInv, RemoveInv,
              FailInv DEF ClientStep
<1> QED  BY <1>1, <1>2

LEMMA ByHandStep ==
    ASSUME Failing \subseteq ReportedSteps, Serial, Prompt, OneDaemonInv, UnitInv, ~unit.file, ~unit'.file, [Next]_vars
    PROVE  ByHand'
<1>1. TypeOK
  BY DEF OneDaemonInv
<1>2. ASSUME NEW c \in Clients, TuiExit(c) PROVE ByHand'
  BY <1>1, <1>2, QuietSteps, QuietInv DEF TuiExit
<1>3. ASSUME NEW p \in Pids, NotRoot(p) \/ Publish(p) \/ Die(p) \/ Crash(p) \/ PidReused(p)
      PROVE  ByHand'
  <2>1. QuietStep
    BY <1>1, <1>3, QuietSteps DEF NotRoot, Publish, Die, Crash
  <2>2. run'.pid = run.pid /\ UNCHANGED client
    BY <1>1, <1>3 DEF NotRoot, Publish, Die, Crash, PidReused, TypeOK, RunDir
  <2>3. run'.snap => run.snap \/ \E q \in Pids : Daemon(q)
    <3>1. CASE Publish(p)
      BY <3>1, NamedIsDaemon DEF Publish, OneDaemonInv
    <3> QED  BY <1>3, <3>1 DEF NotRoot, Die, Crash, PidReused
  <2> QED  BY <2>1, <2>2, <2>3, QuietInv
<1>4. ~SystemdSpawn
  BY DEF SystemdSpawn, UnitInv, Apart
<1>5. ASSUME Reboot PROVE ByHand'
  <2>1. \A p \in Pids : ~Live(p)'
    BY <1>1, <1>5 DEF Reboot, Unborn, Live, LiveStates, TypeOK
  <2>2. \A d \in Clients : client'[d] = Idle
    BY <1>5 DEF Reboot
  <2> QED  BY <2>1, <2>2, AllQuiet, ClientAssumption DEF Idle
<1>6. ASSUME UNCHANGED vars PROVE ByHand'
  BY <1>1, <1>6, QuietSteps, QuietInv DEF vars
<1> QED
  BY <1>2, <1>3, <1>4, <1>5, <1>6, BeginInv, ClientInv, DaemonStepInv, MonitorFailsInv, Frames
  DEF DaemonStep, Ends

LEMMA ServiceStep ==
    ASSUME Orderly, ServiceInv, [Next]_vars
    PROVE  ServiceInv'
<1>1. /\ TypeOK /\ OneOperation /\ OpSteps /\ NamedIsRoot /\ UnitInv
      /\ Serial /\ Prompt /\ Failing \subseteq ReportedSteps
  BY DEF ServiceInv, Orderly
<1>2. TypeOK' /\ OneOperation' /\ OpSteps' /\ NamedIsRoot' /\ UnitInv'
  BY <1>1, StepTypes, OneOperationStep, OpStepsStep, NamedIsRootStep, UnitStep
<1>3. ASSUME ~unit'.file PROVE ByHand'
  <2>1. CASE ~unit.file
    BY <1>1, <1>3, <2>1, ByHandStep DEF ServiceInv, OneDaemonInv
  <2>2. CASE unit.file
    <3>1. PICK c \in Clients : ChangeUnit(c)
      <4>1. unit' # unit
        BY <1>3, <2>2
      <4> QED
        BY <4>1 DEF Next, ClientStep, Begin, DaemonPid, Unlink, Return, TuiExit, Spawn, Kill, Remove,
           StartUnit, StopUnit, UnitStopped, Reload, StepFails, DaemonStep, OpenPidFile, NotRoot, WritePid, WriteMode,
           MonitorReady, MonitorFails, Publish, Die, Crash, PidReused, SystemdSpawn, Reboot, vars
    <3>2. At(c, "d_rmUnit")
      BY <1>1, <1>3, <2>2, <3>1 DEF ChangeUnit, UnitAfter, TypeOK, At
    <3>3. client[c].op = "disable"
      BY <1>1, <3>2 DEF OpSteps, At, StepsOf, StopSteps
    <3> QED  BY <1>1, <3>1, <3>2, <3>3, DisableInv DEF ClientStep, At
  <2> QED  BY <2>1, <2>2
<1> QED  BY <1>2, <1>3 DEF ServiceInv

LEMMA ServiceInit == Init => ServiceInv
<1> SUFFICES ASSUME Init PROVE ServiceInv
  OBVIOUS
<1>1. \A p \in Pids : proc[p] = Unborn
  BY DEF Init
<1>2. \A c \in Clients : client[c] = Idle
  BY DEF Init
<1>3. TypeOK
  BY InitTypes
<1>4. \A p \in Pids : ~Live(p)
  BY <1>1 DEF Live, Unborn, LiveStates
<1>5. OneOperation /\ OpSteps /\ NamedIsRoot
  BY <1>1, <1>2 DEF OneOperation, OpSteps, At, Idle, NamedIsRoot, Unborn, LiveStates
<1>6. NoneBeforeSpawn /\ StopSteady
  BY <1>2, ClientAssumption DEF NoneBeforeSpawn, StopSteady, StopAt, StopOk, At, Returned, Idle
<1>7. BootIsPolled /\ DaemonReachable
  BY <1>1, <1>4 DEF BootIsPolled, DaemonReachable, Daemon, Unborn
<1>8. UnitInv
  BY <1>1, <1>2, <1>4 DEF Init, UnitInv, Signals, Managing, Managed, Apart, AllManaged, At,
     DisableSteady, Disabling, Idle, Unborn
<1> QED  BY <1>3, <1>5, <1>6, <1>7, <1>8 DEF ServiceInv, ByHand

LEMMA ServiceAlways == ASSUME Orderly PROVE Spec => []ServiceInv
  BY ServiceInit, ServiceStep, PTL DEF Spec

(* ------------------------------ the results ----------------------------- *)

LEMMA OneDaemonAnyway ==
    ASSUME ServiceInv
    PROVE  AtMostOneDaemon
<1>1. CASE unit.file
  BY <1>1 DEF ServiceInv, UnitInv, Apart, AllManaged, Managing, AtMostOneDaemon, Daemon
<1>2. CASE ~unit.file
  BY <1>2, OneDaemon DEF ServiceInv, OneDaemonInv
<1> QED  BY <1>1, <1>2

LEMMA DisabledNoneLive ==
    ASSUME ServiceInv, NEW c \in Clients, Returned(c, "disable")
    PROVE  /\ \A p \in Pids : ~Live(p)
           /\ systemd = "inactive" /\ ~unit.file /\ ~unit.enabled
<1>1. Disabling(c) /\ At(c, "idle")
  BY DEF Returned, Disabling, At
<1>2. systemd = "inactive" /\ AllManaged /\ ~unit.file /\ ~unit.enabled
  BY <1>1 DEF ServiceInv, UnitInv, DisableSteady, At
<1> QED  BY <1>2 DEF ServiceInv, UnitInv, Managing, AllManaged

LEMMA ModeStep ==
    ASSUME ServiceInv, ModeIsDaemons, [Next]_vars
    PROVE  ModeIsDaemons'
<1>0. TypeOK
  BY DEF ServiceInv
<1>1. ASSUME run'.mode = run.mode,
             \A p \in Pids : proc'[p].st \in {"setup", "serve"} =>
                 proc[p].st \in {"setup", "serve"} /\ proc'[p].mode = proc[p].mode
      PROVE  ModeIsDaemons'
  BY <1>1 DEF ModeIsDaemons
<1>2. ASSUME NEW p \in Pids, WriteMode(p) PROVE ModeIsDaemons'
  <2>1. /\ run'.mode = proc[p].mode /\ proc'[p].mode = proc[p].mode
        /\ \A q \in Pids \ {p} : proc'[q] = proc[q]
    BY <1>0, <1>2 DEF WriteMode, TypeOK, RunDir, Process
  <2>2. Daemon(p)
    BY <1>2, NamedIsDaemon DEF WriteMode, ServiceInv
  <2>3. \A q \in Pids \ {p} : proc[q].st \notin {"setup", "serve"}
    BY <2>2, NamedIsDaemon, OneDaemonAnyway DEF ServiceInv, AtMostOneDaemon
  <2> QED  BY <2>1, <2>3 DEF ModeIsDaemons
<1>3. ASSUME NEW p \in Pids, OpenPidFile(p) \/ WritePid(p) \/ MonitorReady(p)
      PROVE  ModeIsDaemons'
  <2>1. PICK st \in {"naming", "named", "serve"} :
            /\ proc' = [proc EXCEPT ![p].st = st]
            /\ st = "serve" => proc[p].st = "setup"
    BY <1>3 DEF OpenPidFile, WritePid, MonitorReady
  <2>2. run'.mode = run.mode
    BY <1>0, <1>3 DEF OpenPidFile, WritePid, MonitorReady, TypeOK, RunDir
  <2>3. \A q \in Pids : proc'[q].st \in {"setup", "serve"} =>
                 proc[q].st \in {"setup", "serve"} /\ proc'[q].mode = proc[q].mode
    BY <1>0, <2>1 DEF TypeOK, Process
  <2> QED  BY <1>1, <2>2, <2>3
<1>4. ASSUME NEW p \in Pids, proc[p].st = "unborn", NEW by, NEW mode, NEW root, run' = run,
             proc' = Spawned(p, by, mode, root)
      PROVE  ModeIsDaemons'
  <2>1. proc'[p].st = "boot" /\ \A q \in Pids \ {p} : proc'[q] = proc[q]
    BY <1>0, <1>4, SpawnSteps
  <2> QED  BY <1>1, <1>4, <2>1
<1>5. CASE Reboot
  BY <1>5 DEF Reboot, Unborn, ModeIsDaemons, TypeOK
<1>6. CASE QuietStep /\ ~Reboot
  <2>1. \A p \in Pids : proc'[p].st \in {"setup", "serve"} =>
            proc[p].st \in {"setup", "serve"} /\ proc'[p].mode = proc[p].mode
    <3>1. \A p \in Pids : Live(p)' => proc'[p].mode = proc[p].mode
      <4>0. ASSUME NEW p \in Pids, proc[p].st = "unborn", NEW by, NEW mode, NEW root,
                   proc' = Spawned(p, by, mode, root)
            PROVE  FALSE
        <5>1. proc'[p].st = "boot"
          BY <1>0, <4>0, SpawnSteps
        <5> QED  BY <1>6, <4>0, <5>1 DEF QuietStep, LiveStates
      <4>1. \A c \in Clients : ~Spawn(c)
        BY <4>0 DEF Spawn
      <4>2. ~SystemdSpawn
        BY <4>0 DEF SystemdSpawn
      <4>3. SameManaged \/ \E p \in Pids : Ends(p)
        BY <1>0, <1>6, <4>1, <4>2, SteadySteps, Frames DEF ServiceInv, UnitInv, ClientStep, Begin,
           TuiExit, DaemonPid, Unlink, Return, Remove, ChangeUnit, StartUnit, UnitStopped, Reload, StepFails, Publish,
           vars
      <4> QED  BY <1>0, <4>3, EndSteps DEF SameManaged, NoneNew, ServiceInv, UnitInv
    <3> QED  BY <1>6, <3>1 DEF QuietStep, Live, LiveStates
  <2>2. CASE run'.mode = run.mode
    BY <1>1, <2>1, <2>2
  <2>3. CASE run'.mode # run.mode
    <3>1. PICK c \in Clients : Remove(c) /\ At(c, "d_rmMode")
      <4>1. ~\E p \in Pids : WriteMode(p)
        BY <1>0, <1>6 DEF WriteMode, QuietStep, TypeOK, Process, LiveStates
      <4> QED
        BY <1>0, <1>6, <2>3, <4>1, Frames DEF ClientStep, Begin, DaemonPid, Unlink, Return, TuiExit,
           Spawn, Kill, Remove, Removed, ChangeUnit, StartUnit, StopUnit, UnitStopped, Reload, StepFails, DaemonStep,
           OpenPidFile, NotRoot, WritePid, MonitorReady, Ends, MonitorFails, Publish, Die, Crash,
           PidReused, SystemdSpawn, vars, TypeOK, RunDir, At
    <3>2. Disabling(c) /\ UNCHANGED proc
      BY <3>1 DEF Remove, ServiceInv, OpSteps, At, StepsOf, StopSteps, Disabling
    <3>3. AllManaged /\ systemd = "inactive"
      BY <3>1, <3>2 DEF ServiceInv, UnitInv, DisableSteady, At
    <3>4. \A p \in Pids : ~Live(p)
      BY <3>3 DEF ServiceInv, UnitInv, Managing, AllManaged
    <3> QED  BY <3>2, <3>4 DEF ModeIsDaemons, Live, LiveStates
  <2> QED  BY <2>2, <2>3
<1> QED  BY <1>0, <1>2, <1>3, <1>4, <1>5, <1>6, ProcSteps DEF Spawn, SystemdSpawn

(* For a user who runs one operation at a time and does not mix transient  *)
(* daemons with the unit, no two daemons ever run: through crashes,        *)
(* reboots, restarts by systemd and pids given to strangers                *)
(* (service.rs:108-133, 163-235, 296-374).                                 *)
THEOREM NeverTwo == ASSUME Orderly PROVE Spec => []AtMostOneDaemon
  BY OneDaemonAnyway, ServiceAlways, PTL

(* A disable() that returned Ok leaves no daemon, no unit and no restart   *)
(* pending, and it stays so until the next operation (service.rs:217-235). *)
THEOREM DisabledStaysDown == ASSUME Orderly PROVE Spec => []DisabledIsDown
<1>1. ServiceInv => DisabledIsDown
  BY DisabledNoneLive DEF DisabledIsDown, Daemon
<1> QED  BY <1>1, ServiceAlways, PTL

(* Nor does it leave a file of /var/run/benchmon (service.rs:232-235).     *)
THEOREM DisabledIsClean == ASSUME Orderly PROVE Spec => []DisableLeavesNothing
<1>1. ServiceInv => DisableLeavesNothing
  <2>1. SUFFICES ASSUME ServiceInv, NEW c \in Roots, Returned(c, "disable")
                 PROVE  run = [pid |-> None, mode |-> None, snap |-> FALSE]
    BY DEF DisableLeavesNothing
  <2>2. Disabling(c) /\ At(c, "idle")
    BY <2>1 DEF Returned, Disabling, At
  <2>3. run.pid = None /\ ~run.snap /\ run.mode = None
    BY <2>1, <2>2, ClientAssumption DEF ServiceInv, UnitInv, DisableSteady, At
  <2> QED  BY <2>1, <2>3 DEF ServiceInv, TypeOK, RunDir
<1> QED  BY <1>1, ServiceAlways, PTL

(* The mode file is that of the daemon that runs (service.rs:73, 311).     *)
THEOREM ModeIsRight == ASSUME Orderly PROVE Spec => []ModeIsDaemons
<1>1. Init => ModeIsDaemons
  BY DEF Init, ModeIsDaemons, Unborn
<1> QED  BY <1>1, ModeStep, ServiceAlways, PTL DEF Spec

(* Without `enable' there is never a unit.                                 *)
LEMMA TransientAlways == ASSUME Transient PROVE Spec => []OneDaemonInv
<1>1. Orderly
  BY DEF Transient, Orderly
<1>2. ServiceInv => OneDaemonInv
  BY DEF Transient, ByHandOps, ServiceInv, UnitInv, Apart, OneDaemonInv
<1> QED  BY <1>1, <1>2, ServiceAlways, PTL

(* The PID file names the daemon that runs (service.rs:59-71, 305-310).    *)
THEOREM Found == ASSUME Transient PROVE Spec => []DaemonReachable
<1>1. OneDaemonInv => DaemonReachable
  BY DEF OneDaemonInv, ByHand
<1> QED  BY <1>1, TransientAlways, PTL

LEMMA StoppedMeans ==
    ASSUME OneDaemonInv
    PROVE  StoppedStaysStopped /\ StopLeavesNothing
BY DEF OneDaemonInv, ByHand, StopSteady, StopAt, StopOk, StoppedStaysStopped, StopLeavesNothing,
   Returned

(* A stop() by root that returned Ok has ended the daemon, and it stays    *)
(* down until it is started again (service.rs:136-161).                    *)
THEOREM StaysDown == ASSUME Transient PROVE Spec => []StoppedStaysStopped
  BY StoppedMeans, TransientAlways, PTL

(* It has left neither a PID file nor a snapshot that could be taken for   *)
(* live data (service.rs:149, 158-159).                                    *)
THEOREM StopIsClean == ASSUME Transient PROVE Spec => []StopLeavesNothing
  BY StoppedMeans, TransientAlways, PTL

(* ---------------- what stop() signalled, in any deployment -------------- *)

(* stop() has found a process to end, and has not failed since.            *)
HasTarget(c) ==
    /\ client[c].op = "stop"
    /\ \/ client[c].at \in {"kill", "stopPoll", "forceKill", "rmPid", "rmSnap", "ok"}
       \/ At(c, "unlink") /\ client[c].then = "stopPoll"
       \/ At(c, "idle") /\ client[c].ret = "ok"

Doomed(p) == ~Live(p) \/ proc[p].sig

Aimed(c) ==
    \E p \in Pids : /\ client[c].pid = p /\ proc[p].st # "unborn"
                    /\ At(c, "kill") \/ Doomed(p)

TargetInv == \A c \in Roots : HasTarget(c) => Aimed(c)

(* Who is born stays so, and who is doomed stays doomed.                   *)
LEMMA DoomedStays ==
    ASSUME TypeOK, [Next]_vars, NEW p \in Pids, proc[p].st # "unborn"
    PROVE  proc'[p].st # "unborn" /\ (Doomed(p) => Doomed(p)')
<1>1. CASE QuietStep
  BY <1>1 DEF QuietStep, Doomed, Live
<1>2. CASE SystemdSpawn \/ \E c \in Clients : Spawn(c)
  <2>1. \E q \in Pids : \E by, mode, root :
          proc[q].st = "unborn" /\ proc' = Spawned(q, by, mode, root)
    BY <1>2, Zenon DEF SystemdSpawn, Spawn
  <2>2. PICK q \in Pids : \E by, mode, root :
          proc[q].st = "unborn" /\ proc' = Spawned(q, by, mode, root)
    BY <2>1
  <2> QED  BY <2>2 DEF Spawned, TypeOK, Doomed, Live
<1>3. ASSUME NEW q \in Pids,
             OpenPidFile(q) \/ WritePid(q) \/ WriteMode(q) \/ MonitorReady(q)
      PROVE  proc'[p].st # "unborn" /\ (Doomed(p) => Doomed(p)')
  <2>1. PICK st \in LiveStates : proc' = [proc EXCEPT ![q].st = st] /\ Live(q)
    BY <1>3 DEF OpenPidFile, WritePid, WriteMode, MonitorReady, LiveStates, Live
  <2> QED  BY <2>1 DEF TypeOK, Process, Doomed, Live, LiveStates
<1> QED  BY <1>1, <1>2, <1>3, ProcSteps

(* How a client comes to have a target, and keeps it.                      *)
LEMMA TargetMoves ==
    ASSUME TypeOK, OpSteps, NEW c \in Roots, ClientStep(c), HasTarget(c)'
    PROVE  \/ At(c, "stop") /\ Running /\ client'[c].pid = run.pid /\ UNCHANGED proc
              /\ client'[c].at = "kill"
           \/ /\ HasTarget(c) /\ client'[c].pid = client[c].pid /\ client'[c].at # "kill"
              /\ ~At(c, "kill") \/ Kill(c)
<1>0. c \in Clients /\ client[c] \in Client
  BY ClientAssumption DEF TypeOK
<1>1. client'[c].op = "stop" /\ client[c].op = "stop" /\ ~At(c, "idle")
      /\ client[c].at \in StepsOf("stop") \cup {"ok", "err"}
      /\ client[c].then \in {"stop", "stopPoll", "idle"}
  <2>1. client'[c].op = client[c].op /\ client'[c].op = "stop"
    BY <1>0, MoveTable DEF HasTarget
  <2> QED
    BY <1>0, <2>1, OneClientMoves DEF OpSteps, At, StepsOf, TypeOK, Client, ProbeSteps, StopSteps
<1>2. CASE DaemonPid(c)
  <2>1. client[c].at \in {"stop", "stopPoll"} /\ UNCHANGED proc
    BY <1>1, <1>2 DEF DaemonPid, StepsOf, StopSteps, ProbeSteps
  <2>2. CASE At(c, "stop")
    BY <1>0, <1>2, <2>1, <2>2, ProbeStep DEF HasTarget, At, IfRunning, IfDown
  <2>3. CASE At(c, "stopPoll")
    BY <1>0, <1>1, <1>2, <2>1, <2>3, ProbeStep DEF HasTarget, At, IfRunning, IfDown, IfTimeout
  <2> QED  BY <2>1, <2>2, <2>3 DEF At
<1>3. CASE Unlink(c)
  <2>1. At(c, "unlink") /\ client[c].then \in {"stop", "stopPoll"}
    BY <1>0, <1>1, <1>3 DEF Unlink, OpSteps
  <2>2. client[c].then = "stop" => client'[c].at = "err"
    BY <1>0, <1>3, UnlinkStep DEF IfDown
  <2>3. client'[c].at # "kill" /\ client'[c].pid = client[c].pid
    BY <1>0, <1>3, <2>1, UnlinkStep DEF IfDown, IfTimeout
  <2> QED  BY <1>1, <2>1, <2>2, <2>3 DEF HasTarget, At
<1>4. CASE Return(c)
  <2>1. client[c].at \in {"ok", "err"} /\ client'[c].at = "idle" /\ client'[c].ret = client[c].at
        /\ client'[c].pid = client[c].pid
    BY <1>0, <1>4 DEF Return, TypeOK, Client
  <2> QED  BY <1>1, <2>1 DEF HasTarget, At
<1>5. ASSUME NEW step, Goto(c, step)
      PROVE  client'[c].at = step /\ client'[c].pid = client[c].pid
  BY <1>0, <1>5 DEF Goto, TypeOK, Client
<1>6. CASE Kill(c)
  <2>1. client[c].at \in {"kill", "forceKill"} /\ client'[c].at # "kill"
        /\ client'[c].pid = client[c].pid
    BY <1>5, <1>6 DEF Kill
  <2> QED  BY <1>1, <1>6, <2>1 DEF HasTarget, At
<1>7. CASE Remove(c)
  <2>1. client[c].at \in {"rmPid", "rmSnap"}
    BY <1>1, <1>7 DEF Remove, StepsOf, StopSteps
  <2>2. client'[c].at # "kill" /\ client'[c].pid = client[c].pid
    BY <1>5, <1>7, <2>1 DEF Remove, AfterRemove
  <2> QED  BY <1>1, <2>1, <2>2 DEF HasTarget, At
<1>8. CASE StepFails(c)
  <2>1. /\ client'[c].at \in FailsTo(client[c].at) /\ client'[c].pid = client[c].pid
        /\ client'[c].then = client[c].then
    BY <1>0, <1>8, FailStep
  <2>2. client'[c].at \in {"kill", "stopPoll", "forceKill", "rmPid", "rmSnap", "ok", "unlink", "idle"}
    BY <1>8 DEF HasTarget, At
  <2>3. client[c].at \in {"forceKill", "rmPid", "rmSnap"} /\ client'[c].at # "kill"
    BY <1>1, <2>1, <2>2 DEF FailsTo, AfterRemove, AfterUnit, StepsOf, StopSteps
  <2> QED  BY <1>1, <2>1, <2>3 DEF HasTarget, At
<1> QED
  BY <1>1, <1>2, <1>3, <1>4, <1>6, <1>7, <1>8 DEF ClientStep, Spawn, ChangeUnit, StartUnit, StopUnit,
     UnitStopped, Reload, At, StepsOf, StopSteps

LEMMA TargetStep ==
    ASSUME TypeOK, OpSteps, TargetInv, [Next]_vars
    PROVE  TargetInv'
<1>1. ASSUME NEW c \in Roots, HasTarget(c), client'[c].pid = client[c].pid,
             At(c, "kill") => client'[c].at = "kill"
      PROVE  Aimed(c)'
  <2>1. PICK p \in Pids : /\ client[c].pid = p /\ proc[p].st # "unborn"
                          /\ At(c, "kill") \/ Doomed(p)
    BY <1>1 DEF TargetInv, Aimed
  <2>2. proc'[p].st # "unborn" /\ (Doomed(p) => Doomed(p)')
    BY <2>1, DoomedStays
  <2> QED  BY <1>1, <2>1, <2>2 DEF Aimed, At
<1>2. ASSUME NEW c \in Clients, ClientStep(c), NEW d \in Roots, HasTarget(d)'
      PROVE  Aimed(d)'
  <2>1. CASE d # c
    <3>1. client'[d] = client[d]
      BY <1>2, <2>1, OneClientMoves, ClientAssumption
    <3>2. HasTarget(d)
      BY <1>2, <3>1 DEF HasTarget, At
    <3> QED  BY <1>1, <3>1, <3>2 DEF At
  <2>2. CASE d = c /\ At(c, "stop") /\ Running /\ client'[c].pid = run.pid /\ UNCHANGED proc
             /\ client'[c].at = "kill"
    BY <2>2 DEF Running, InProc, Live, LiveStates, Aimed, At
  <2>3. CASE d = c /\ HasTarget(c) /\ client'[c].pid = client[c].pid /\ ~At(c, "kill")
    BY <1>1, <2>3
  <2>4. CASE d = c /\ HasTarget(c) /\ client'[c].pid = client[c].pid /\ Kill(c)
    <3>1. PICK p \in Pids : client[c].pid = p /\ proc[p].st # "unborn"
      BY <2>4 DEF TargetInv, Aimed
    <3>2. proc'[p].st # "unborn"
      BY <3>1, DoomedStays
    <3>3. Doomed(p)'
      BY <2>4, <3>1 DEF Kill, Signalled, TypeOK, Process, Doomed, Live
    <3> QED  BY <2>4, <3>1, <3>2, <3>3 DEF Aimed
  <2> QED  BY <1>2, <2>1, <2>2, <2>3, <2>4, TargetMoves
<1>3. ASSUME NEW c \in Clients, NEW op \in Ops, Begin(c, op), NEW d \in Roots, HasTarget(d)'
      PROVE  HasTarget(d) /\ client'[d] = client[d]
  <2>1. ~HasTarget(c)'
    <3>1. client'[c].at \notin {"kill", "stopPoll", "forceKill", "rmPid", "rmSnap", "ok", "unlink",
                                "idle"}
      BY <1>3, BeginStep, OpsAssumption DEF FirstStep, AllOps
    <3> QED  BY <3>1 DEF HasTarget, At
  <2>2. d # c /\ client'[d].op # "none"
    BY <1>3, <2>1 DEF HasTarget
  <2>3. client'[d] = client[d]
    BY <1>3, <2>2, BeginStep, ClientAssumption DEF Idle
  <2> QED  BY <1>3, <2>3 DEF HasTarget, At
<1>4. ASSUME UNCHANGED client PROVE TargetInv'
  <2>1. \A d \in Roots : HasTarget(d)' => HasTarget(d) /\ client'[d] = client[d]
    BY <1>4 DEF HasTarget, At
  <2> QED  BY <1>1, <2>1 DEF TargetInv, At
<1>5. ASSUME NEW c \in Clients, NEW op \in Ops, Begin(c, op) PROVE TargetInv'
  BY <1>1, <1>3, <1>5 DEF TargetInv, At
<1>6. CASE Reboot
  BY <1>6, ClientAssumption DEF Reboot, TargetInv, HasTarget, Idle
<1> QED
  BY <1>2, <1>4, <1>5, <1>6, Frames DEF TargetInv, TuiExit, DaemonStep, OpenPidFile, NotRoot,
     WritePid, WriteMode, MonitorReady, Ends, MonitorFails, Publish, Die, Crash, PidReused,
     SystemdSpawn, vars

(* A stop() by root that returned Ok has signalled the process it found,   *)
(* or has seen it go, whatever operations, restarts, crashes and reused    *)
(* pids it races with (service.rs:136-161).                                *)
THEOREM StopEndsWhatItFound == Spec => []StopOkTargetDown
<1>1. Init => OpSteps /\ TargetInv
  BY ClientAssumption DEF Init, OpSteps, TargetInv, HasTarget, At, Idle
<1>2. TargetInv => StopOkTargetDown
  BY DEF TargetInv, Aimed, StopOkTargetDown, Returned, HasTarget, Doomed, At
<1>3. TypeOK /\ OpSteps /\ TargetInv /\ [Next]_vars => OpSteps' /\ TargetInv'
  BY OpStepsStep, TargetStep
<1> QED  BY <1>1, <1>2, <1>3, Typed, PTL DEF Spec
=============================================================================
