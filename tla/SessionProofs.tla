----------------------------- MODULE SessionProofs -----------------------------
(* Theorems about Session: a TUI next to the daemon, for every set of      *)
(* processes and clients and every value of the bounds.                    *)
EXTENDS Session, ServiceProofs

(* ------------------------------ types ---------------------------------- *)

LEMMA TuiIsClient == Tui \in Clients /\ Tui \in Tuis
BY ClientAssumption, SessionAssumption

LEMMA CleanedFields ==
    ASSUME TypeOK
    PROVE  /\ Cleaned \in RunDir /\ Cleaned.mode = run.mode /\ Cleaned.snap = run.snap
           /\ Cleaned.pid = IF Stale /\ Tui \in Roots THEN None ELSE run.pid
BY DEF Cleaned, TypeOK, RunDir

LEMMA ViewTypes ==
    ASSUME TypeOK, NEW v \in View
    PROVE  /\ Refreshed(v) \in View /\ Logging(v) \in View
           /\ Adopted(v) \in View /\ Dropped(v) \in View
           /\ \A op : AfterOp(op, v) \in View
<1>1. ASSUME NEW w \in View PROVE Refreshed(w) \in View /\ Logging(w) \in View
  BY DEF Refreshed, Logging, View, TypeOK, RunDir, Running
<1>2. Adopted(v) \in View /\ Dropped(v) \in View
  <2>1. [Refreshed(v) EXCEPT !.logging = FALSE] \in View
    BY <1>1 DEF View
  <2> QED  BY <1>1, <2>1 DEF Adopted, Dropped
<1> QED  BY <1>1, <1>2 DEF AfterOp

(* What the session shows, field by field.                                 *)
LEMMA ViewFields ==
    ASSUME NEW v \in View
    PROVE  /\ Refreshed(v).open = v.open /\ Refreshed(v).logging = v.logging
           /\ Refreshed(v).piggyback = Running /\ Refreshed(v).monitor = ~Running
           /\ Logging(v).open = v.open /\ Logging(v).piggyback = v.piggyback
           /\ Logging(v).monitor = v.monitor
           /\ Logging(v).logging = (v.logging \/ Tui \in Roots)
BY DEF Refreshed, Logging, View

LEMMA HangupFields ==
    ASSUME TypeOK, Hangup, NEW p \in Pids
    PROVE  /\ proc'[p].mode = proc[p].mode /\ proc'[p].root = proc[p].root
           /\ proc'[p].parent = IF proc[p].parent = Tui THEN "init" ELSE proc[p].parent
           /\ proc'[p].st = IF proc[p].parent = Tui /\ proc[p].st = "zombie" THEN "gone"
                            ELSE proc[p].st
           /\ proc'[p].sig = (proc[p].sig \/ (proc[p].parent = Tui /\ Live(p)))
           /\ proc'[p] \in Process
<1> DEFINE q == [proc[p] EXCEPT !.parent = "init", !.st = IF @ = "zombie" THEN "gone" ELSE @]
<1>1. proc[p] \in Process
  BY DEF TypeOK
<1>2. CASE proc[p].parent # Tui
  <2>1. proc'[p] = proc[p]
    BY <1>2 DEF Hangup, Orphaned
  <2> QED  BY <1>1, <1>2, <2>1 DEF Process
<1>3. CASE proc[p].parent = Tui
  <2>1. proc'[p] = IF Live(p) THEN [q EXCEPT !.sig = TRUE] ELSE q
    BY <1>3 DEF Hangup, Orphaned
  <2>2. /\ q \in Process /\ q.mode = proc[p].mode /\ q.root = proc[p].root /\ q.sig = proc[p].sig
        /\ q.parent = "init" /\ q.st = IF proc[p].st = "zombie" THEN "gone" ELSE proc[p].st
    BY <1>1 DEF Process
  <2> HIDE DEF q
  <2>3. [q EXCEPT !.sig = TRUE] \in Process
    BY <2>2 DEF Process
  <2> QED  BY <1>1, <1>3, <2>1, <2>2, <2>3 DEF Process
<1> QED  BY <1>2, <1>3

LEMMA FinishClient ==
    ASSUME TypeOK, Finish
    PROVE  /\ client' \in [Clients -> Client]
           /\ client'[Tui].at = "idle" /\ client'[Tui].ret = client[Tui].at
           /\ client'[Tui].op = client[Tui].op /\ client'[Tui].then = client[Tui].then
           /\ client'[Tui].pid = client[Tui].pid
           /\ \A d \in Clients \ {Tui} : client'[d] = client[d]
<1>1. client[Tui] \in Client /\ client[Tui].at \in {"ok", "err"}
      /\ client' = [client EXCEPT ![Tui] = [client[Tui] EXCEPT !.at = "idle", !.ret = client[Tui].at]]
  BY TuiIsClient DEF TypeOK, Finish
<1>2. "idle" \in Steps
  BY DEF Steps
<1>3. [client[Tui] EXCEPT !.at = "idle", !.ret = client[Tui].at] \in Client
  BY <1>1, <1>2 DEF Client
<1> QED  BY <1>1, <1>3, TuiIsClient DEF TypeOK, Client

LEMMA SessionTypes ==
    ASSUME SessionTypeOK, [SessionNext]_sessionVars
    PROVE  SessionTypeOK'
<1> USE DEF SessionTypeOK
<1>0. Closed \in View /\ [Closed EXCEPT !.open = TRUE] \in View
  BY DEF Closed, View
<1>1. CASE Launch
  <2>1. view' \in View
    BY <1>0, <1>1, ViewTypes DEF Launch
  <2> QED  BY <1>1, <2>1, CleanedFields DEF Launch, TypeOK
<1>2. CASE Finish
  <2>1. view' \in View /\ run' \in RunDir
    BY <1>2, ViewTypes, CleanedFields DEF Finish, TypeOK
  <2>2. muted' \in BOOLEAN
    <3>1. muted' = muted \/ muted' = (muted /\ client[Tui].op \notin {"stop", "disable"})
      BY <1>2 DEF Finish
    <3> QED  BY <3>1
  <2> QED  BY <1>2, <2>1, <2>2, FinishClient DEF Finish, TypeOK
<1>3. CASE Refresh
  BY <1>3, ViewTypes, CleanedFields DEF Refresh, TypeOK
<1>4. CASE LogStart \/ LogStop
  <2>1. TypeOK'
    BY <1>4 DEF LogStart, LogStop, vars, TypeOK
  <2>2. view' \in View /\ muted' \in BOOLEAN
    BY <1>4, ViewTypes DEF LogStart, LogStop, View
  <2> QED  BY <2>1, <2>2
<1>5. CASE Exit
  BY <1>0, <1>5, ProcTypes, TuiIsClient DEF Exit, TypeOK
<1>6. CASE Hangup
  <2>1. Idle \in Client
    BY DEF Idle, Client, Steps
  <2>2. client' \in [Clients -> Client]
    BY <1>6, <2>1 DEF Hangup, TypeOK
  <2>3. proc' \in [Pids -> Process]
    <3>1. proc' = [p \in Pids |-> proc'[p]]
      BY <1>6 DEF Hangup
    <3> QED  BY <1>6, <3>1, HangupFields
  <2> QED  BY <1>0, <1>6, <2>2, <2>3 DEF Hangup, TypeOK
<1>7. ASSUME (\E op \in Ops : Command(op)) \/ Others PROVE SessionTypeOK'
  <2>1. Next /\ UNCHANGED <<view, muted>>
    BY <1>7, TuiIsClient DEF Command, Others, Next
  <2> QED  BY <2>1, StepTypes
<1>8. CASE Restart
  <2>1. TypeOK'
    BY <1>8, StepTypes DEF Restart, Next
  <2> QED  BY <1>0, <1>8, <2>1 DEF Restart
<1>9. CASE UNCHANGED sessionVars
  BY <1>9 DEF sessionVars, vars, TypeOK
<1> QED  BY <1>1, <1>2, <1>3, <1>4, <1>5, <1>6, <1>7, <1>8, <1>9 DEF SessionNext

(* Every variable of the session keeps its type (app.rs over service.rs).  *)
THEOREM SessionTyped == SessionSpec => []SessionTypeOK
<1>1. SessionInit => SessionTypeOK
  <2>1. Closed \in View
    BY DEF Closed, View
  <2> QED  BY <2>1, InitTypes DEF SessionInit, SessionTypeOK
<1> QED  BY <1>1, SessionTypes, PTL DEF SessionSpec

(* -------------------- a TUI of root, the only root ---------------------- *)
(* It runs transient daemons, one operation at a time, and daemons start   *)
(* and die in time.  Others may try, without root.                         *)

Alone == Transient /\ Roots = {Tui}

(* A step of an operation under way, of a daemon or of the machine, or the *)
(* beginning of an operation elsewhere.                                    *)
Inner ==
    \/ \E c \in Clients \ {Tui}, op \in Ops : Begin(c, op)
    \/ \E c \in Clients : ClientStep(c) /\ (c = Tui => client[c].at \notin {"ok", "err"})
    \/ \E p \in Pids : DaemonStep(p) \/ Publish(p) \/ PidReused(p) \/ Ends(p)
    \/ UNCHANGED vars

Core == TypeOK /\ OneOperation /\ OpSteps /\ NamedIsRoot /\ UnitInv

LEMMA NoUnit ==
    ASSUME Alone, Core
    PROVE  ~unit.file /\ systemd = "inactive"
BY DEF Alone, Transient, ByHandOps, Core, UnitInv, Apart

LEMMA HandOps ==
    ASSUME Alone, Core, NEW c \in Clients
    PROVE  /\ client[c].op \in {"start", "stop", "status", "none"}
           /\ client[c].at \in StepsOf(client[c].op) \cup {"ok", "err", "idle"}
           /\ client[c].op = "none" => At(c, "idle")
BY DEF Alone, Transient, ByHandOps, Core, OpSteps

LEMMA HandSteps ==
    ASSUME Alone, Core, NEW c \in Clients, ClientStep(c)
    PROVE  \/ DaemonPid(c) \/ Unlink(c) \/ Return(c) \/ Spawn(c) \/ Kill(c)
           \/ Remove(c) /\ client[c].at \in {"rmPid", "rmSnap"}
           \/ StepFails(c)
BY HandOps DEF ClientStep, ChangeUnit, StartUnit, StopUnit, UnitStopped, Reload, Remove, At,
   StepsOf, StopSteps

(* A step of theirs that fails ends the operation.                         *)
LEMMA HandFails ==
    ASSUME Alone, Core, NEW c \in Clients, StepFails(c)
    PROVE  /\ client[c].at \in {"spawn", "kill"} /\ client'[c].at = "err"
           /\ client'[c].op = client[c].op /\ client'[c].ret = client[c].ret
           /\ client'[c].then = client[c].then /\ client'[c].pid = client[c].pid
           /\ \A d \in Clients \ {c} : client'[d] = client[d]
           /\ UNCHANGED <<proc, run, unit, systemd, used>>
<1>1. TypeOK /\ Failing \subseteq ReportedSteps
  BY DEF Core, Alone, Transient
<1>2. client[c].at \in ReportedSteps /\ client'[c].at \in FailsTo(client[c].at)
  BY <1>1, FailStep
<1>3. client[c].at \in {"spawn", "kill"}
  BY <1>2, HandOps DEF ReportedSteps, StepsOf, StopSteps
<1> QED  BY <1>1, <1>2, <1>3, FailStep DEF FailsTo


LEMMA InnerIsNext == Inner => [Next]_vars
BY DEF Inner, Next, Ends

(* One step of the session is an inner one, or one of the TUI.             *)
LEMMA SessionFrames ==
    ASSUME Alone, Core, [SessionNext]_sessionVars
    PROVE  \/ Inner /\ UNCHANGED <<view, muted>>
           \/ (LogStart \/ LogStop) /\ UNCHANGED vars
           \/ Launch \/ Refresh \/ Finish \/ Exit \/ Hangup \/ Restart
           \/ \E op \in Ops : Command(op)
<1>1. UNCHANGED sessionVars => UNCHANGED <<view, muted>> /\ UNCHANGED vars
  BY DEF sessionVars
<1>2. ~SystemdSpawn
  BY NoUnit DEF SystemdSpawn
<1>3. Others => Inner /\ UNCHANGED <<view, muted>>
  BY <1>2, TuiIsClient DEF Others, Inner, Ends
<1>4. (LogStart \/ LogStop) => UNCHANGED vars
  BY DEF LogStart, LogStop
<1> QED  BY <1>1, <1>3, <1>4 DEF SessionNext, Inner

(* What one step does to one process.                                      *)
Born(p) ==
    \E c \in Clients :
        /\ Spawn(c) /\ client'[c].at = "startPoll" /\ client'[c].pid = p
        /\ proc[p].st = "unborn" /\ proc'[p].st = "boot" /\ ~proc'[p].sig
        /\ proc'[p].parent = c /\ (proc'[p].root <=> c \in Roots)

Reused(p) ==
    /\ PidReused(p) /\ proc[p].st = "gone" /\ proc'[p].st = "foreign"
    /\ ~proc'[p].root /\ ~proc'[p].sig /\ proc'[p].parent = "init"

Adoption(p) ==
    /\ proc[p].parent \in Clients \ {Tui} /\ proc'[p].parent = "init"
    /\ proc'[p].st = (IF proc[p].st = "zombie" THEN "gone" ELSE proc[p].st)
    /\ proc'[p].root = proc[p].root /\ proc'[p].sig = proc[p].sig

Struck(p) ==
    /\ Kill(Tui) /\ client[Tui].pid = p /\ proc'[p].sig
    /\ Live(p) \/ proc[p].st = "foreign"
    /\ proc'[p].st = proc[p].st
    /\ proc'[p].root = proc[p].root /\ proc'[p].parent = proc[p].parent

Over(p) ==
    /\ Ends(p) \/ NotRoot(p)
    /\ proc'[p].st = (IF proc[p].parent \in Clients THEN "zombie" ELSE "gone")
    /\ ~proc'[p].sig
    /\ proc'[p].root = proc[p].root /\ proc'[p].parent = proc[p].parent

Grown(p) ==
    /\ OpenPidFile(p) \/ WritePid(p) \/ WriteMode(p) \/ MonitorReady(p)
    /\ Live(p) /\ proc'[p].st \in LiveStates \ {"boot"}
    /\ proc'[p].sig = proc[p].sig
    /\ proc'[p].root = proc[p].root /\ proc'[p].parent = proc[p].parent

LEMMA ExitedFields ==
    ASSUME TypeOK, NEW q \in Pids, proc' = Exited(q)
    PROVE  /\ \A p \in Pids \ {q} : proc'[p] = proc[p]
           /\ proc'[q].st = (IF proc[q].parent \in Clients THEN "zombie" ELSE "gone")
           /\ ~proc'[q].sig
           /\ proc'[q].root = proc[q].root /\ proc'[q].parent = proc[q].parent
BY DEF Exited, TypeOK, Process

LEMMA Fate ==
    ASSUME Alone, Core, Inner, NEW p \in Pids
    PROVE  \/ proc'[p] = proc[p]
           \/ Born(p) \/ Reused(p) \/ Adoption(p) \/ Struck(p) \/ Over(p) \/ Grown(p)
<1>0. TypeOK
  BY DEF Core
<1>1. ASSUME NEW c \in Clients, ClientStep(c), c = Tui => client[c].at \notin {"ok", "err"}
      PROVE  proc'[p] = proc[p] \/ Born(p) \/ Adoption(p) \/ Struck(p)
  <2>1. CASE Spawn(c)
    <3>1. PICK q \in Pids : /\ proc[q].st = "unborn"
                            /\ proc' = Spawned(q, c, "transient", c \in Roots)
                            /\ client' = [client EXCEPT ![c].at = "startPoll", ![c].pid = q,
                                                        ![c].left = StartPolls]
      BY <2>1 DEF Spawn
    <3>2. client'[c].at = "startPoll" /\ client'[c].pid = q
      BY <1>0, <3>1 DEF TypeOK, Client
    <3>3. /\ proc'[q].st = "boot" /\ ~proc'[q].sig /\ proc'[q].parent = c
          /\ (proc'[q].root <=> c \in Roots)
          /\ \A r \in Pids \ {q} : proc'[r] = proc[r]
      BY <1>0, <3>1 DEF Spawned, TypeOK
    <3> QED  BY <2>1, <3>1, <3>2, <3>3 DEF Born
  <2>2. CASE Return(c)
    <3>1. c # Tui
      BY <1>1, <2>2 DEF Return
    <3>2. proc' = proc \/ proc' = Orphaned(c)
      BY <2>2 DEF Return
    <3>3. CASE proc' = Orphaned(c) /\ proc[p].parent = c
      BY <1>0, <3>1, <3>3, OrphanedFields DEF Adoption
    <3>4. CASE proc' = Orphaned(c) /\ proc[p].parent # c
      BY <3>4 DEF Orphaned
    <3> QED  BY <3>2, <3>3, <3>4
  <2>3. CASE Kill(c)
    <3>1. CASE proc' = proc
      BY <3>1
    <3>2. CASE /\ c \in Roots /\ (Live(client[c].pid) \/ proc[client[c].pid].st = "foreign")
               /\ proc' = [proc EXCEPT ![client[c].pid].sig = TRUE]
      <4>1. c = Tui
        BY <3>2 DEF Alone
      <4>2. proc'[p] = proc[p] \/ client[c].pid = p
        BY <1>0, <3>2 DEF TypeOK
      <4>3. client[c].pid = p => /\ proc'[p].sig /\ proc'[p].st = proc[p].st
                                 /\ proc'[p].root = proc[p].root
                                 /\ proc'[p].parent = proc[p].parent
        BY <1>0, <3>2 DEF TypeOK, Process
      <4> QED  BY <2>3, <3>2, <4>1, <4>2, <4>3 DEF Struck
    <3> QED  BY <2>3, <3>1, <3>2 DEF Kill, Signalled
  <2> QED  BY <1>1, <2>1, <2>2, <2>3, HandSteps DEF DaemonPid, Unlink, Remove, StepFails
<1>2. ASSUME NEW q \in Pids, Ends(q) \/ NotRoot(q) PROVE proc'[p] = proc[p] \/ Over(p)
  <2>1. proc' = Exited(q)
    BY <1>2 DEF Ends, MonitorFails, Die, Crash, NotRoot
  <2> QED  BY <1>0, <1>2, <2>1, ExitedFields DEF Over
<1>3. ASSUME NEW q \in Pids, OpenPidFile(q) \/ WritePid(q) \/ WriteMode(q) \/ MonitorReady(q)
      PROVE  proc'[p] = proc[p] \/ Grown(p)
  <2>1. PICK st \in LiveStates \ {"boot"} : proc' = [proc EXCEPT ![q].st = st] /\ Live(q)
    BY <1>3 DEF OpenPidFile, WritePid, WriteMode, MonitorReady, Live, LiveStates
  <2>2. /\ \A r \in Pids \ {q} : proc'[r] = proc[r]
        /\ proc'[q].st = st /\ proc'[q].sig = proc[q].sig
        /\ proc'[q].root = proc[q].root /\ proc'[q].parent = proc[q].parent
    BY <1>0, <2>1 DEF TypeOK, Process
  <2> QED  BY <1>3, <2>1, <2>2 DEF Grown
<1>4. ASSUME NEW q \in Pids, PidReused(q) PROVE proc'[p] = proc[p] \/ Reused(p)
  <2>1. /\ \A r \in Pids \ {q} : proc'[r] = proc[r]
        /\ proc'[q] = [Unborn EXCEPT !.st = "foreign"] /\ proc[q].st = "gone"
    BY <1>0, <1>4 DEF PidReused, TypeOK
  <2> QED  BY <1>4, <2>1 DEF Reused, Unborn
<1> QED  BY <1>1, <1>2, <1>3, <1>4 DEF Inner, DaemonStep, Publish, Begin, vars

LEMMA RunPid ==
    ASSUME Alone, Core, Inner, run'.pid \in Pids
    PROVE  run'.pid = run.pid \/ WritePid(run'.pid)
<1>0. TypeOK
  BY DEF Core
<1>1. ASSUME NEW c \in Clients, ClientStep(c) PROVE run'.pid = run.pid
  BY <1>0, <1>1, HandSteps, PidAssumption DEF DaemonPid, Unlink, Return, Spawn, Kill, Remove,
     StepFails, Removed, TypeOK, RunDir
<1>2. ASSUME NEW p \in Pids, DaemonStep(p) \/ Publish(p) \/ PidReused(p) \/ Ends(p)
      PROVE  run'.pid = run.pid \/ WritePid(run'.pid)
  <2>1. CASE WritePid(p)
    BY <1>0, <2>1 DEF WritePid, TypeOK, RunDir
  <2> QED
    BY <1>0, <1>2, <2>1, PidAssumption DEF DaemonStep, OpenPidFile, NotRoot, WriteMode, MonitorReady,
       Publish, PidReused, Ends, MonitorFails, Die, Crash, TypeOK, RunDir
<1> QED  BY <1>1, <1>2 DEF Inner, Begin, vars

LEMMA TuiMoves ==
    ASSUME Core, Inner
    PROVE  \/ client'[Tui] = client[Tui]
           \/ At(Tui, "idle") /\ client'[Tui] = Idle
           \/ ClientStep(Tui) /\ client[Tui].at \notin {"ok", "err"}
<1>0. TypeOK
  BY DEF Core
<1>1. ASSUME NEW c \in Clients \ {Tui}, ClientStep(c) PROVE client'[Tui] = client[Tui]
  BY <1>0, <1>1, OneClientMoves, TuiIsClient
<1>2. ASSUME NEW c \in Clients \ {Tui}, NEW op \in Ops, Begin(c, op)
      PROVE  client'[Tui] \in {client[Tui], Idle} /\ (client'[Tui] # client[Tui] => At(Tui, "idle"))
  BY <1>2, TuiIsClient DEF Begin
<1>3. ASSUME NEW p \in Pids, DaemonStep(p) \/ Publish(p) \/ PidReused(p) \/ Ends(p)
      PROVE  UNCHANGED client
  BY <1>3 DEF DaemonStep, OpenPidFile, NotRoot, WritePid, WriteMode, MonitorReady,
     Publish, PidReused, Ends, MonitorFails, Die, Crash
<1> QED  BY <1>1, <1>2, <1>3 DEF Inner, vars

LEMMA DaemonsFrom ==
    ASSUME Alone, Core, Inner, NEW p \in Pids, Daemon(p)'
    PROVE  \/ Daemon(p) /\ (proc'[p].st \in {"boot", "naming"} => proc[p].st \in {"boot", "naming"})
           \/ /\ Born(p) /\ Spawn(Tui) /\ proc'[p].parent = Tui /\ ~proc'[p].sig
              /\ client'[Tui].at = "startPoll"
<1>0. /\ proc[p].st \in LiveStates \cup {"unborn", "zombie", "gone", "foreign"}
      /\ proc'[p].root /\ proc'[p].st \in LiveStates
  BY DEF Core, TypeOK, Process, Daemon, Live
<1>1. CASE proc'[p] = proc[p]
  BY <1>0, <1>1 DEF Daemon, Live
<1>2. CASE Born(p)
  BY <1>0, <1>2 DEF Born, Alone
<1>3. CASE Reused(p) \/ Over(p)
  BY <1>0, <1>3 DEF Reused, Over, LiveStates
<1>4. CASE Adoption(p) \/ Struck(p)
  BY <1>0, <1>4 DEF Adoption, Struck, Daemon, Live, LiveStates
<1>5. CASE Grown(p)
  <2>1. proc'[p].st = "naming" => proc[p].st = "boot"
    BY <1>5 DEF Grown, OpenPidFile, WritePid, WriteMode, MonitorReady, Core, TypeOK, Process
  <2> QED  BY <1>0, <1>5, <2>1 DEF Grown, Daemon
<1> QED  BY <1>1, <1>2, <1>3, <1>4, <1>5, Fate

(* ------------------------ the inductive invariant ------------------------ *)

(* The terminal went away while `start' was waiting: the daemon has not    *)
(* named itself, and the SIGHUP is about to reach it.                      *)
Loose ==
    /\ ~view.open /\ client[Tui] = Idle /\ run.pid \notin Pids
    /\ \E p \in Pids :
        /\ Daemon(p) /\ proc[p].st \in {"boot", "naming"} /\ proc[p].sig
        /\ \A q \in Pids : Daemon(q) => q = p

WhenClosed ==
    ~view.open => view = Closed /\ At(Tui, "idle") /\ \A p \in Pids : proc[p].parent # Tui

(* Whose child a process is.                                               *)
Family ==
    \A p \in Pids :
        /\ proc[p].st = "unborn" => proc[p].parent = "init"
        /\ proc[p].root => proc[p].parent \in {Tui, "init"}
        /\ proc[p].st = "zombie" => proc[p].parent \in Clients
        /\ proc[p].st = "foreign" => used.reuses > 0

(* A daemon that has not named itself is the TUI's, and a signal is that   *)
(* of its stop().                                                          *)
WhenOpen ==
    view.open => \A p \in Pids : Daemon(p) =>
        /\ proc[p].st \in {"boot", "naming"} => proc[p].parent = Tui
        /\ proc[p].sig => At(Tui, "stopPoll")

NoneRuns == run.pid \notin Pids /\ \A p \in Pids : ~Daemon(p)

(* The operation under way may have started a daemon.                      *)
Starting == client[Tui].op = "start" /\ client[Tui].at \in {"startPoll", "unlink", "ok"}

(* The operation under way may have ended it.                              *)
Ending ==
    /\ client[Tui].op = "stop"
    /\ \/ client[Tui].at \in {"stopPoll", "forceKill", "rmPid", "rmSnap", "ok"}
       \/ At(Tui, "unlink") /\ client[Tui].then = "stopPoll"

(* What the TUI takes for its own is its own.                              *)
Own ==
    view.open =>
        /\ view.monitor = ~view.piggyback
        /\ view.piggyback => ~view.logging
        /\ ~view.piggyback /\ ~Starting => NoneRuns

(* The PID file names the daemon or, where one has crashed or a pid been   *)
(* reused, what is left of it.                                             *)
PidNames ==
    run.pid \in Pids =>
        /\ proc[run.pid].st # "unborn"
        /\ used.reuses = 0 => proc[run.pid].root
        /\ used.reuses = 0 /\ used.crashes = 0 /\ proc[run.pid].st = "zombie" => Ending

NoGap ==
    view.open /\ used.reuses = 0 /\ used.crashes = 0 =>
        /\ view.piggyback /\ ~Ending => \E p \in Pids : Daemon(p)
        /\ client[Tui].op = "start" /\ ~At(Tui, "idle") => ~view.piggyback
        /\ ~view.piggyback /\ ~muted => view.logging

SessionInv ==
    /\ SessionTypeOK /\ Core /\ (ByHand \/ Loose)
    /\ WhenClosed /\ Family /\ WhenOpen /\ Own /\ PidNames /\ NoGap

(* ------------------------------ inner steps ------------------------------ *)

LEMMA CoreNext ==
    ASSUME Alone, Core, [Next]_vars
    PROVE  Core'
<1>1. Serial /\ Orderly
  BY DEF Alone, Transient, Orderly
<1> QED  BY <1>1, StepTypes, OneOperationStep, OpStepsStep, NamedIsRootStep, UnitStep DEF Core

LEMMA HandNext ==
    ASSUME Alone, Core, ByHand, [Next]_vars
    PROVE  ByHand'
<1>1. Core' /\ ~unit.file
  BY CoreNext, NoUnit
<1>2. ~unit'.file
  BY <1>1 DEF Alone, Transient, ByHandOps, Core, UnitInv, Apart
<1> QED  BY <1>1, <1>2, ByHandStep DEF Core, OneDaemonInv, Alone, Transient

(* Where no daemon runs and the TUI does nothing.                          *)
LEMMA IdleQuiet ==
    ASSUME Alone, client'[Tui] = Idle, NamedIsRoot', \A p \in Pids : ~Daemon(p)'
    PROVE  ByHand'
<1>1. BootIsPolled' /\ DaemonReachable'
  BY DEF BootIsPolled, DaemonReachable, NamedIsRoot, Daemon, Live, LiveStates
<1>2. NoneBeforeSpawn' /\ StopSteady'
  BY DEF Alone, NoneBeforeSpawn, StopSteady, StopAt, StopOk, Returned, At, Idle
<1> QED  BY <1>1, <1>2 DEF ByHand

LEMMA LooseNext ==
    ASSUME Alone, Core, Loose, Inner, UNCHANGED view
    PROVE  ByHand' \/ Loose'
<1>1. PICK p \in Pids : /\ Daemon(p) /\ proc[p].st \in {"boot", "naming"} /\ proc[p].sig
                        /\ \A q \in Pids : Daemon(q) => q = p
  BY DEF Loose
<1>2. Core' /\ client'[Tui] = Idle /\ ~Spawn(Tui)
  <2>1. ~ClientStep(Tui) /\ ~Spawn(Tui)
    BY OneClientMoves, TuiIsClient DEF Core, Loose, At, Idle, Spawn
  <2> QED  BY <2>1, CoreNext, InnerIsNext, TuiMoves DEF Loose
<1>3. \A q \in Pids : Daemon(q)' => q = p /\ Daemon(q)
  BY <1>1, <1>2, DaemonsFrom
<1>4. CASE ~Daemon(p)'
  BY <1>2, <1>3, <1>4, IdleQuiet DEF Core
<1>5. CASE WritePid(p)
  <2>1. run'.pid = p /\ proc'[p].st = "named"
    BY <1>5 DEF WritePid, Core, TypeOK, RunDir, Process
  <2>2. \A q \in Pids : proc'[q].st \in LiveStates \ {"boot"} => Daemon(q)'
    BY <1>2 DEF Core, NamedIsRoot, Daemon, Live, LiveStates
  <2>3. BootIsPolled' /\ DaemonReachable'
    BY <1>3, <2>1, <2>2 DEF BootIsPolled, DaemonReachable, LiveStates
  <2>4. NoneBeforeSpawn' /\ StopSteady'
    BY <1>2 DEF Alone, NoneBeforeSpawn, StopSteady, StopAt, StopOk, Returned, At, Idle
  <2> QED  BY <2>3, <2>4 DEF ByHand
<1>6. CASE Daemon(p)' /\ ~WritePid(p)
  <2>1. run'.pid \notin Pids
    <3>1. SUFFICES ASSUME run'.pid \in Pids PROVE FALSE
      OBVIOUS
    <3>2. WritePid(run'.pid)
      BY <3>1, RunPid DEF Loose
    <3>3. Daemon(run'.pid)
      BY <3>1, <3>2, NamedIsDaemon DEF WritePid, Core
    <3> QED  BY <1>1, <1>6, <3>1, <3>2, <3>3
  <2>2. proc'[p].sig /\ proc'[p].st \in {"boot", "naming"}
    <3>1. CASE Grown(p)
      <4>1. OpenPidFile(p)
        BY <1>1, <1>6, <3>1 DEF Grown, WriteMode, MonitorReady
      <4>2. proc'[p].st = "naming"
        BY <4>1 DEF OpenPidFile, Core, TypeOK, Process
      <4> QED  BY <1>1, <3>1, <4>2 DEF Grown
    <3>2. CASE proc'[p] = proc[p] \/ Adoption(p) \/ Struck(p)
      BY <1>1, <3>2 DEF Adoption, Struck
    <3>3. ~Born(p) /\ ~Reused(p)
      BY <1>1 DEF Born, Reused
    <3>4. ~Over(p)
      BY <1>6 DEF Over, Daemon, Live, LiveStates
    <3> QED  BY <3>1, <3>2, <3>3, <3>4, Fate
  <2> QED  BY <1>2, <1>3, <1>6, <2>1, <2>2 DEF Loose
<1> QED  BY <1>4, <1>5, <1>6

LEMMA Counters ==
    ASSUME Core, Inner
    PROVE  /\ used'.reuses = 0 => used.reuses = 0 /\ \A p \in Pids : ~PidReused(p)
           /\ used.reuses > 0 => used'.reuses > 0
           /\ \A p \in Pids : PidReused(p) => used'.reuses > 0
           /\ used'.crashes = 0 => /\ used.crashes = 0
                                   /\ \A p \in Pids : Ends(p) => Die(p)
<1>0. /\ used \in [ops : Nat, crashes : Nat, reboots : Nat, reuses : Nat]
  BY BoundAssumption DEF Core, TypeOK
<1>1. ASSUME NEW p \in Pids, PidReused(p)
      PROVE  used'.reuses > 0 /\ used'.crashes = used.crashes
  BY <1>0, <1>1 DEF PidReused
<1>2. ASSUME NEW p \in Pids, MonitorFails(p) \/ Crash(p)
      PROVE  used'.crashes > 0 /\ used'.reuses = used.reuses
  BY <1>0, <1>2 DEF MonitorFails, Crash
<1>3. ASSUME NEW p \in Pids, Die(p) \/ DaemonStep(p) \/ Publish(p) PROVE used' = used
  BY <1>3 DEF Die, DaemonStep, OpenPidFile, NotRoot, WritePid, WriteMode, MonitorReady, Publish
<1>4. ASSUME NEW c \in Clients, ClientStep(c) \/ \E op \in Ops : Begin(c, op)
      PROVE  used'.reuses = used.reuses /\ used'.crashes = used.crashes
  BY <1>0, <1>4 DEF ClientStep, Begin, DaemonPid, Unlink, Return, Spawn, Kill, Remove, ChangeUnit,
     StartUnit, StopUnit, UnitStopped, Reload, StepFails
<1>5. \/ \E p \in Pids : PidReused(p)
      \/ \E p \in Pids : MonitorFails(p) \/ Crash(p)
      \/ used'.reuses = used.reuses /\ used'.crashes = used.crashes
  BY <1>3, <1>4 DEF Inner, Ends, vars
<1>6. used'.crashes = 0 => used.crashes = 0
  BY <1>0, <1>1, <1>2, <1>5
<1>7. (used'.reuses = 0 => used.reuses = 0) /\ (used.reuses > 0 => used'.reuses > 0)
  BY <1>0, <1>1, <1>2, <1>5
<1>8. \A p \in Pids : Ends(p) => Die(p) \/ used'.crashes > 0
  BY <1>2 DEF Ends
<1> QED  BY <1>0, <1>1, <1>6, <1>7, <1>8

LEMMA InnerClosed ==
    ASSUME Alone, Core, WhenClosed, Inner, UNCHANGED view
    PROVE  WhenClosed'
<1> SUFFICES ASSUME ~view.open PROVE WhenClosed'
  BY DEF WhenClosed
<1>1. view = Closed /\ At(Tui, "idle") /\ \A p \in Pids : proc[p].parent # Tui
  BY DEF WhenClosed
<1>2. At(Tui, "idle")'
  BY <1>1, TuiMoves, OneClientMoves, TuiIsClient DEF Core, At, Idle
<1>3. ASSUME NEW p \in Pids PROVE proc'[p].parent # Tui
  <2>1. "init" # Tui
    BY TuiIsClient, ClientAssumption
  <2>2. CASE Born(p)
    BY <1>1, <2>2 DEF Born, Spawn, At
  <2> QED  BY <1>1, <2>1, <2>2, Fate DEF Reused, Adoption, Struck, Over, Grown
<1> QED  BY <1>1, <1>2, <1>3 DEF WhenClosed

LEMMA InnerFamily ==
    ASSUME Alone, Core, Family, Inner
    PROVE  Family'
<1> SUFFICES ASSUME NEW p \in Pids
             PROVE  /\ proc'[p].st = "unborn" => proc'[p].parent = "init"
                    /\ proc'[p].root => proc'[p].parent \in {Tui, "init"}
                    /\ proc'[p].st = "zombie" => proc'[p].parent \in Clients
                    /\ proc'[p].st = "foreign" => used'.reuses > 0
  BY DEF Family
<1>1. /\ proc[p].st = "unborn" => proc[p].parent = "init"
      /\ proc[p].root => proc[p].parent \in {Tui, "init"}
      /\ proc[p].st = "zombie" => proc[p].parent \in Clients
      /\ proc[p].st = "foreign" => used.reuses > 0
  BY DEF Family
<1>2. used.reuses > 0 => used'.reuses > 0
  BY Counters
<1>3. CASE proc'[p] = proc[p] \/ Struck(p)
  BY <1>1, <1>2, <1>3 DEF Struck
<1>4. CASE Born(p)
  BY <1>4 DEF Born, Alone
<1>5. CASE Reused(p)
  BY <1>5, Counters DEF Reused
<1>6. CASE Adoption(p)
  BY <1>1, <1>2, <1>6 DEF Adoption
<1>7. CASE Over(p) \/ Grown(p)
  BY <1>1, <1>7 DEF Over, Grown, LiveStates
<1> QED  BY <1>3, <1>4, <1>5, <1>6, <1>7, Fate

LEMMA EndingStays ==
    ASSUME Alone, Core, Inner, Ending
    PROVE  Ending'
<1>0. TypeOK /\ client[Tui] \in Client
  BY TuiIsClient DEF Core, TypeOK
<1>1. CASE client'[Tui] = client[Tui]
  BY <1>1 DEF Ending, At
<1>2. CASE ClientStep(Tui) /\ client[Tui].at \notin {"ok", "err"}
  <2>1. client'[Tui].op = "stop"
    BY <1>0, <1>2, TuiIsClient, MoveTable DEF Core, Ending
  <2>2. CASE DaemonPid(Tui)
    <3>1. At(Tui, "stopPoll")
      BY <2>2 DEF Ending, DaemonPid, ProbeSteps, At
    <3> QED
      BY <1>0, <2>1, <2>2, <3>1, ProbeStep, TuiIsClient DEF Ending, At, IfRunning, IfDown, IfTimeout
  <2>3. CASE Unlink(Tui)
    <3>1. client[Tui].then = "stopPoll"
      BY <2>3 DEF Unlink, Ending, At
    <3>2. client'[Tui].at = "rmSnap"
      BY <1>0, <2>3, <3>1, UnlinkStep, TuiIsClient DEF IfDown
    <3> QED  BY <2>1, <3>2 DEF Ending
  <2>4. ASSUME NEW step, Goto(Tui, step) PROVE client'[Tui].at = step
    BY <1>0, <2>4, TuiIsClient DEF Goto, TypeOK, Client
  <2>5. CASE Kill(Tui)
    <3>1. client'[Tui].at \in {"stopPoll", "rmPid"}
      BY <2>4, <2>5 DEF Kill
    <3> QED  BY <2>1, <3>1 DEF Ending
  <2>6. CASE Remove(Tui) /\ client[Tui].at \in {"rmPid", "rmSnap"}
    <3>1. client'[Tui].at \in {"rmSnap", "ok"}
      BY <2>4, <2>6 DEF Remove, AfterRemove
    <3> QED  BY <2>1, <3>1 DEF Ending
  <2>7. ~StepFails(Tui)
    BY HandFails, TuiIsClient DEF Ending, At
  <2> QED
    BY <1>2, <2>2, <2>3, <2>5, <2>6, <2>7, HandSteps, TuiIsClient DEF Return, Spawn, Ending, At
<1> QED  BY <1>1, <1>2, TuiMoves DEF Ending, At

LEMMA InnerOpen ==
    ASSUME Alone, Core, view.open => ByHand, WhenOpen, Inner, UNCHANGED view
    PROVE  WhenOpen'
<1> SUFFICES ASSUME view.open, NEW p \in Pids, Daemon(p)'
             PROVE  /\ proc'[p].st \in {"boot", "naming"} => proc'[p].parent = Tui
                    /\ proc'[p].sig => At(Tui, "stopPoll")'
  BY DEF WhenOpen
<1>1. CASE Born(p) /\ proc'[p].parent = Tui /\ ~proc'[p].sig
  BY <1>1
<1>2. CASE Daemon(p) /\ (proc'[p].st \in {"boot", "naming"} => proc[p].st \in {"boot", "naming"})
  <2>1. /\ proc[p].st \in {"boot", "naming"} => proc[p].parent = Tui
        /\ proc[p].sig => At(Tui, "stopPoll")
    BY <1>2 DEF WhenOpen
  <2>2. ~Born(p) /\ ~Reused(p) /\ ~Over(p)
    BY <1>2 DEF Born, Reused, Over, Daemon, Live, LiveStates
  <2>3. ByHand' /\ ByHand
    BY HandNext, InnerIsNext
  <2>4. ASSUME proc'[p].st \in {"boot", "naming"} PROVE proc'[p].parent = Tui
    BY <1>2, <2>1, <2>2, <2>4, Fate DEF Adoption, Struck, Grown
  <2>5. ASSUME proc[p].sig PROVE At(Tui, "stopPoll")'
    <3>1. At(Tui, "stopPoll")
      BY <2>1, <2>5
    <3>2. CASE ClientStep(Tui)
      <4>1. client'[Tui].at \in {"stopPoll", "rmSnap", "forceKill", "unlink"}
        <5>1. DaemonPid(Tui)
          BY <3>1, <3>2, HandSteps, HandFails, TuiIsClient DEF Unlink, Return, Spawn, Kill, At
        <5> QED
          BY <3>1, <5>1, ProbeStep, TuiIsClient DEF Core, At, IfRunning, IfDown, IfTimeout
      <4>2. Tui \in Roots /\ StopAt(Tui)' /\ NoneBeforeSpawn'
        BY <2>3 DEF Alone, ByHand, StopSteady
      <4> QED  BY <4>1, <4>2 DEF StopAt, NoneBeforeSpawn, At
    <3> QED  BY <3>1, <3>2, TuiMoves DEF At
  <2>6. ASSUME Struck(p) PROVE At(Tui, "stopPoll")'
    <3>1. ~At(Tui, "forceKill")
      BY <1>2, <2>3 DEF Alone, ByHand, StopSteady, StopAt, At
    <3> QED  BY <2>6, <3>1, TuiIsClient DEF Struck, Kill, Goto, At, Core, TypeOK, Client
  <2>7. proc'[p].sig => proc[p].sig \/ Struck(p)
    BY <2>2, Fate DEF Adoption, Grown
  <2> QED  BY <2>4, <2>5, <2>6, <2>7
<1> QED  BY <1>1, <1>2, DaemonsFrom

(* Where no daemon runs, only the TUI's spawn brings one about.            *)
LEMMA NoneStays ==
    ASSUME Alone, Core, NoneRuns, Inner, ~Spawn(Tui)
    PROVE  NoneRuns'
<1>1. \A p \in Pids : ~Daemon(p)'
  BY DaemonsFrom DEF NoneRuns
<1>2. ASSUME NEW p \in Pids, WritePid(p) PROVE FALSE
  BY <1>2, NamedIsDaemon DEF WritePid, Core, NoneRuns
<1>3. run'.pid \notin Pids
  BY <1>2, RunPid DEF NoneRuns
<1> QED  BY <1>1, <1>3 DEF NoneRuns

(* A start() that has neither found its daemon nor gone on waiting leaves  *)
(* none.                                                                   *)
LEMMA StartEnds ==
    ASSUME Alone, Core, ByHand, Inner, Starting, ~Starting'
    PROVE  NoneRuns'
<1>1. ClientStep(Tui) /\ client[Tui].at \in {"startPoll", "unlink"}
  BY TuiMoves DEF Starting, At
<1>2. client'[Tui].op = "start" /\ ByHand' /\ TypeOK /\ Core'
  BY <1>1, MoveTable, TuiIsClient, HandNext, CoreNext, InnerIsNext DEF Core, Starting
<1>3. client'[Tui].at \notin {"startPoll", "unlink", "ok"}
  BY <1>2 DEF Starting
<1>4. CASE DaemonPid(Tui)
  <2>1. At(Tui, "startPoll")
    BY <1>1, <1>4 DEF DaemonPid, ProbeSteps, At
  <2>2. Absent /\ UNCHANGED <<proc, run>>
    BY <1>2, <1>3, <1>4, <2>1, ProbeStep, TuiIsClient DEF At, IfRunning, DaemonPid
  <2>3. run'.pid \notin Pids
    BY <2>2, PidAssumption DEF Absent
  <2>4. ASSUME NEW p \in Pids, Daemon(p)' PROVE FALSE
    <3>1. proc'[p].st \in {"boot", "naming"} \/ proc'[p].st \in {"named", "setup", "serve"}
      BY <2>4 DEF Daemon, Live, LiveStates
    <3>2. proc'[p].st \notin {"named", "setup", "serve"}
      BY <1>2, <2>3 DEF ByHand, DaemonReachable
    <3>3. PICK c \in Roots : At(c, "startPoll")'
      BY <1>2, <2>4, <3>1, <3>2 DEF ByHand, BootIsPolled
    <3> QED  BY <1>3, <3>3 DEF Alone, At
  <2> QED  BY <2>3, <2>4 DEF NoneRuns
<1>5. CASE Unlink(Tui)
  <2>1. run'.pid = None /\ UNCHANGED proc
    BY <1>2, <1>5 DEF Unlink, Alone, TypeOK, RunDir
  <2>2. \A p \in Pids : ~Daemon(p)
    BY <1>5 DEF Unlink, ByHand, NoneBeforeSpawn, Alone, At
  <2> QED  BY <2>1, <2>2, PidAssumption DEF NoneRuns, Daemon, Live
<1> QED
  BY <1>1, <1>4, <1>5, HandSteps, HandFails, TuiIsClient DEF Return, Spawn, Kill, Remove, At

LEMMA InnerOwn ==
    ASSUME Alone, Core, view.open => ByHand, Own, Inner, UNCHANGED view
    PROVE  Own'
<1> SUFFICES ASSUME view.open PROVE Own'
  BY DEF Own
<1>1. SUFFICES ASSUME ~view.piggyback, ~Starting' PROVE NoneRuns'
  BY DEF Own
<1>2. CASE Starting
  BY <1>1, <1>2, StartEnds
<1>3. CASE ~Starting
  <2>1. ~Spawn(Tui)
    <3>1. SUFFICES ASSUME Spawn(Tui) PROVE FALSE
      OBVIOUS
    <3>2. client[Tui].op = "start"
      BY <3>1, HandOps, TuiIsClient DEF Spawn, At, StepsOf, StopSteps
    <3>3. client'[Tui].op = "start" /\ client'[Tui].at = "startPoll"
      BY <3>1, <3>2, TuiIsClient DEF Spawn, Core, TypeOK, Client
    <3> QED  BY <1>1, <3>3 DEF Starting
  <2> QED  BY <1>1, <1>3, <2>1, NoneStays DEF Own
<1> QED  BY <1>2, <1>3

LEMMA InnerPidNames ==
    ASSUME Alone, Core, WhenClosed, Family, WhenOpen, PidNames, Inner
    PROVE  PidNames'
<1> SUFFICES ASSUME run'.pid \in Pids
             PROVE  /\ proc'[run'.pid].st # "unborn"
                    /\ used'.reuses = 0 => proc'[run'.pid].root
                    /\ used'.reuses = 0 /\ used'.crashes = 0 /\ proc'[run'.pid].st = "zombie"
                         => Ending'
  BY DEF PidNames
<1>1. PICK p \in Pids : p = run'.pid
  OBVIOUS
<1>2. CASE WritePid(p)
  <2>1. proc'[p].st = "named"
    BY <1>2 DEF WritePid, Core, TypeOK, Process
  <2>2. proc'[p].root
    BY <2>1, CoreNext, InnerIsNext DEF Core, NamedIsRoot, LiveStates
  <2> QED  BY <1>1, <2>1, <2>2
<1>3. CASE run.pid = p
  <2>1. /\ proc[p].st # "unborn"
        /\ used.reuses = 0 => proc[p].root
        /\ used.reuses = 0 /\ used.crashes = 0 /\ proc[p].st = "zombie" => Ending
    BY <1>3 DEF PidNames
  <2>2. proc'[p].st # "unborn"
    BY <2>1, DoomedStays, InnerIsNext DEF Core
  <2>3. ~Born(p)
    BY <2>1 DEF Born
  <2>4. ASSUME used'.reuses = 0 PROVE used.reuses = 0 /\ proc[p].root /\ ~Reused(p)
    BY <2>1, <2>4, Counters DEF Reused
  <2>5. ASSUME used'.reuses = 0 PROVE proc'[p].root
    BY <2>3, <2>4, <2>5, Fate DEF Adoption, Struck, Over, Grown
  <2>6. ASSUME used'.reuses = 0, used'.crashes = 0, proc'[p].st = "zombie" PROVE Ending
    <3>1. used.reuses = 0 /\ used.crashes = 0 /\ proc[p].root /\ ~Reused(p)
      BY <2>4, <2>6, Counters
    <3>2. CASE proc[p].st = "zombie"
      BY <2>1, <3>1, <3>2
    <3>3. CASE Over(p)
      <4>1. Die(p) /\ proc[p].sig
        BY <2>6, <3>1, <3>3, Counters DEF Over, NotRoot, Die
      <4>2. proc[p].parent = Tui
        <5>1. proc[p].parent \in Clients /\ proc[p].parent \in {Tui, "init"}
          BY <2>6, <3>1, <3>3, ClientAssumption DEF Over, Family
        <5> QED  BY <5>1, ClientAssumption
      <4>3. view.open
        BY <4>2 DEF WhenClosed
      <4>4. Daemon(p)
        <5>1. used.reuses \in Nat
          BY BoundAssumption DEF Core, TypeOK
        <5>2. proc[p].st # "foreign"
          BY <3>1, <5>1 DEF Family
        <5> QED  BY <3>1, <4>1, <5>2 DEF Core, UnitInv, Signals, Daemon
      <4>5. At(Tui, "stopPoll")
        BY <4>1, <4>3, <4>4 DEF WhenOpen
      <4>6. client[Tui].op = "stop"
        BY <4>5, HandOps, TuiIsClient DEF At, StepsOf
      <4> QED  BY <4>5, <4>6 DEF Ending, At
    <3>4. proc[p].st # "zombie" => Over(p)
      BY <2>3, <2>6, <3>1, Fate DEF Adoption, Struck, Grown, LiveStates
    <3> QED  BY <3>2, <3>3, <3>4
  <2> QED  BY <1>1, <2>2, <2>5, <2>6, EndingStays
<1> QED  BY <1>1, <1>2, <1>3, RunPid

LEMMA InnerNoGap ==
    ASSUME Alone, Core, WhenOpen, NoGap, Inner, UNCHANGED <<view, muted>>
    PROVE  NoGap'
<1> SUFFICES ASSUME view.open, used'.reuses = 0, used'.crashes = 0
             PROVE  /\ view.piggyback /\ ~Ending' => \E p \in Pids : Daemon(p)'
                    /\ client'[Tui].op = "start" /\ ~At(Tui, "idle")' => ~view.piggyback
                    /\ ~view.piggyback /\ ~muted => view.logging
  BY DEF NoGap
<1>1. /\ view.piggyback /\ ~Ending => \E p \in Pids : Daemon(p)
      /\ client[Tui].op = "start" /\ ~At(Tui, "idle") => ~view.piggyback
      /\ ~view.piggyback /\ ~muted => view.logging
  BY Counters DEF NoGap
<1>2. ASSUME view.piggyback, ~Ending' PROVE \E p \in Pids : Daemon(p)'
  <2>1. ~Ending
    BY <1>2, EndingStays
  <2>2. PICK p \in Pids : Daemon(p)
    BY <1>1, <1>2, <2>1
  <2>3. ~Over(p)
    <3>1. SUFFICES ASSUME Over(p) PROVE FALSE
      OBVIOUS
    <3>2. Die(p)
      BY <2>2, <3>1, Counters DEF Over, NotRoot, Daemon
    <3>3. At(Tui, "stopPoll")
      BY <2>2, <3>2 DEF Die, WhenOpen
    <3>4. client[Tui].op = "stop"
      BY <3>3, HandOps, TuiIsClient DEF At, StepsOf
    <3> QED  BY <2>1, <3>3, <3>4 DEF Ending, At
  <2>4. proc[p].st \in LiveStates /\ proc[p].root /\ ~Born(p) /\ ~Reused(p)
    BY <2>2 DEF Daemon, Live, LiveStates, Born, Reused
  <2>5. proc'[p].st \in LiveStates /\ proc'[p].root
    BY <2>3, <2>4, Fate DEF Adoption, Struck, Grown, LiveStates
  <2> QED  BY <2>5 DEF Daemon, Live
<1>3. client'[Tui].op = "start" /\ ~At(Tui, "idle")' =>
          client[Tui].op = "start" /\ ~At(Tui, "idle")
  <2>1. ClientStep(Tui) => client'[Tui].op = client[Tui].op /\ ~At(Tui, "idle")
    BY MoveTable, OneClientMoves, TuiIsClient DEF Core
  <2> QED  BY <2>1, TuiMoves DEF At, Idle
<1> QED  BY <1>1, <1>2, <1>3

(* --------------------------- steps of the TUI ---------------------------- *)

(* What is left of UnitInv where there is no unit.                         *)
LEMMA UnitOther ==
    ASSUME Alone, OpSteps', Signals', Managing', ~unit'.file, systemd' = "inactive"
    PROVE  UnitInv'
<1>1. \A c \in Clients : client'[c].op \notin {"enable", "disable"}
  BY DEF Alone, Transient, ByHandOps, OpSteps
<1>2. Apart'
  BY <1>1 DEF Apart
<1>3. DisableSteady'
  BY <1>1 DEF DisableSteady, Disabling
<1> QED  BY <1>2, <1>3 DEF UnitInv

(* Outside the wait of start() a probe finds the daemon, if there is one.  *)
LEMMA Finds ==
    ASSUME Alone, ByHand, ~At(Tui, "startPoll"), NEW p \in Pids, Daemon(p)
    PROVE  Running /\ run.pid = p /\ proc[p].st \notin {"boot", "naming"}
<1>1. proc[p].st \notin {"boot", "naming"}
  BY DEF Alone, ByHand, BootIsPolled
<1>2. run.pid = p
  BY <1>1, DaemonCases DEF ByHand, DaemonReachable
<1> QED  BY <1>1, <1>2 DEF Running, InProc, Daemon

(* As long as nothing has crashed and no pid been reused, it finds only    *)
(* that.                                                                   *)
LEMMA FindsDaemon ==
    ASSUME Core, Family, PidNames, Running, ~Ending, used.reuses = 0, used.crashes = 0
    PROVE  Daemon(run.pid)
<1>1. run.pid \in Pids /\ proc[run.pid].root /\ proc[run.pid].st # "zombie"
  BY DEF Running, PidNames
<1>2. proc[run.pid].st # "foreign"
  BY <1>1 DEF Family
<1> QED  BY <1>1, <1>2 DEF Running, InProc, Daemon

(* The TUI comes to rest, or looks while it rests: Launch, Refresh, Finish.*)
Settles ==
    /\ client[Tui].at \in {"idle", "ok", "err"} /\ At(Tui, "idle")'
    /\ At(Tui, "idle") => client' = client
    /\ ~At(Tui, "idle") => client'[Tui].ret = client[Tui].at
    /\ client'[Tui].op = client[Tui].op /\ client'[Tui].then = client[Tui].then
    /\ \A d \in Clients \ {Tui} : client'[d] = client[d]
    /\ run' \in {run, Cleaned}
    /\ UNCHANGED <<proc, unit, systemd, used>>

LEMMA SettlesCore ==
    ASSUME Alone, Core, Settles, TypeOK'
    PROVE  Core'
<1>1. OneOperation'
  <2> SUFFICES ASSUME NEW c \in Clients, NEW d \in Clients, c # d, ~At(d, "idle")'
               PROVE  client'[c] = Idle
    BY DEF OneOperation
  <2>1. d # Tui /\ ~At(d, "idle")
    BY DEF Settles, At
  <2>2. client[c] = Idle
    BY <2>1 DEF Core, OneOperation
  <2> QED  BY <2>2 DEF Settles, At, Idle
<1>2. OpSteps'
  <2>1. ASSUME NEW c \in Clients PROVE client'[c].at \in {client[c].at, "idle"}
          /\ client'[c].op = client[c].op /\ client'[c].then = client[c].then
    BY <2>1 DEF Settles, At
  <2> QED  BY <2>1 DEF Core, OpSteps, At
<1>3. Signals' /\ Managing' /\ NamedIsRoot'
  BY DEF Settles, Core, UnitInv, Signals, Managing, Managed, Live, NamedIsRoot
<1>4. ~unit'.file /\ systemd' = "inactive"
  BY NoUnit DEF Settles
<1> QED  BY <1>1, <1>2, <1>3, <1>4, UnitOther DEF Core

LEMMA SettlesHand ==
    ASSUME Alone, Core, ByHand, Settles
    PROVE  ByHand' /\ (StopOk(Tui)' => StopOk(Tui))
<1>0. TypeOK /\ ~At(Tui, "startPoll") /\ \A p \in Pids : Daemon(p)' <=> Daemon(p)
  BY DEF Core, Settles, At, Daemon, Live
<1>1. \A p \in Pids : Daemon(p) => run' = run /\ run.pid = p /\ proc[p].st \notin {"boot", "naming"}
  BY <1>0, Finds DEF Settles, Cleaned, Running, Stale
<1>2. BootIsPolled' /\ DaemonReachable'
  <2>1. \A p \in Pids : proc[p].st \in {"named", "setup", "serve"} => Daemon(p)
    BY NamedIsDaemon DEF Core
  <2> QED  BY <1>0, <1>1, <2>1 DEF BootIsPolled, DaemonReachable, Settles
<1>3. NoneBeforeSpawn'
  BY DEF Alone, NoneBeforeSpawn, Settles, At
<1>4. StopOk(Tui)' => StopOk(Tui)
  BY DEF StopOk, Returned, Settles, At
<1>5. StopAt(Tui)'
  <2>1. StopOk(Tui) => /\ \A p \in Pids : ~Daemon(p)
                       /\ run.pid = None /\ ~run.snap
    BY DEF Alone, ByHand, StopSteady, StopAt
  <2>2. run.pid = None => run' = run
    BY PidAssumption DEF Settles, Cleaned, Stale
  <2> QED  BY <1>0, <1>4, <2>1, <2>2 DEF StopAt, Settles, At
<1> QED  BY <1>2, <1>3, <1>4, <1>5 DEF ByHand, StopSteady, Alone

LEMMA SettlesRest ==
    ASSUME Alone, Core, ByHand, Family, PidNames, Settles
    PROVE  Family' /\ PidNames'
<1>1. Family'
  BY DEF Family, Settles
<1>2. PidNames'
  <2>1. SUFFICES ASSUME run'.pid \in Pids
                 PROVE  /\ proc[run'.pid].st # "unborn"
                        /\ used.reuses = 0 => proc[run'.pid].root
                        /\ used.reuses = 0 /\ used.crashes = 0 => proc[run'.pid].st # "zombie"
    BY DEF PidNames, Settles
  <2>2. run'.pid = run.pid
    BY <2>1, CleanedFields, PidAssumption DEF Settles, Core
  <2>3. ~Ending
    <3>1. SUFFICES ASSUME Ending PROVE FALSE
      OBVIOUS
    <3>2. StopOk(Tui)
      BY <3>1 DEF Ending, Settles, StopOk, At
    <3>3. run.pid = None
      BY <3>2 DEF Alone, ByHand, StopSteady, StopAt
    <3> QED  BY <2>1, <2>2, <3>3, PidAssumption
  <2> QED  BY <2>1, <2>2, <2>3 DEF PidNames
<1> QED  BY <1>1, <1>2

(* It has looked.                                                          *)
LEMMA LooksRight ==
    ASSUME Alone, Core, ByHand, Family, PidNames, Settles, run' = Cleaned,
           \A p \in Pids : Daemon(p) => ~proc[p].sig,
           Ending => ~Running,
           view'.piggyback = Running, view'.monitor = ~Running,
           Running => ~view'.logging,
           used.reuses = 0 /\ used.crashes = 0 /\ ~Running /\ ~muted' => view'.logging
    PROVE  WhenOpen' /\ Own' /\ NoGap'
<1>0. TypeOK /\ ~At(Tui, "startPoll") /\ \A p \in Pids : Daemon(p)' <=> Daemon(p)
  BY DEF Core, Settles, At, Daemon, Live
<1>1. \A p \in Pids : Daemon(p) => Running /\ proc[p].st \notin {"boot", "naming"}
  BY <1>0, Finds
<1>2. WhenOpen'
  BY <1>0, <1>1 DEF WhenOpen, Settles
<1>3. ~Running => NoneRuns'
  BY <1>0, <1>1, CleanedFields, PidAssumption DEF NoneRuns, Running, Stale, Alone
<1>4. Own'
  BY <1>3 DEF Own
<1>5. Running /\ used.reuses = 0 /\ used.crashes = 0 => \E p \in Pids : Daemon(p)'
  BY <1>0, FindsDaemon DEF Running
<1>6. NoGap'
  BY <1>5 DEF NoGap, Settles, At
<1> QED  BY <1>2, <1>4, <1>6

(* It has not.                                                             *)
LEMMA LooksAway ==
    ASSUME Alone, Core, ByHand, WhenOpen, Own, NoGap, Settles, run' = run,
           UNCHANGED <<view, muted>>, ~Starting, ~Ending
    PROVE  WhenOpen' /\ Own' /\ NoGap'
<1>0. \A p \in Pids : Daemon(p)' <=> Daemon(p)
  BY DEF Settles, Daemon, Live
<1>1. WhenOpen'
  BY <1>0 DEF WhenOpen, Settles, At
<1>2. Own'
  BY <1>0 DEF Own, NoneRuns
<1>3. NoGap'
  BY <1>0 DEF NoGap, Settles, At
<1> QED  BY <1>1, <1>2, <1>3

LEMMA LaunchInv ==
    ASSUME Alone, SessionInv, Launch
    PROVE  SessionInv'
<1>0. SessionTypeOK' /\ Core /\ TypeOK'
  BY SessionTypes DEF SessionInv, SessionNext, SessionTypeOK
<1>1. Settles /\ At(Tui, "idle") /\ run' = Cleaned
  BY DEF Launch, LaunchedLater, Settles, SessionInv, WhenClosed, At
<1>2. ByHand
  BY DEF Launch, LaunchedLater, SessionInv, Loose, Alone, Transient
<1>3. /\ view'.open /\ view'.piggyback = Running /\ view'.monitor = ~Running
      /\ Running => ~view'.logging
      /\ ~Running => view'.logging
  <2> DEFINE v == [Closed EXCEPT !.open = TRUE]
  <2>1. v \in View /\ v.open /\ ~v.logging
    BY DEF View, Closed
  <2>2. Refreshed(v) \in View
    BY <1>0, <2>1, ViewTypes DEF Core
  <2>3. view' = IF Refreshed(v).piggyback THEN Refreshed(v) ELSE Logging(Refreshed(v))
    BY DEF Launch
  <2> HIDE DEF v
  <2>4. /\ Refreshed(v).open /\ ~Refreshed(v).logging /\ Refreshed(v).piggyback = Running
        /\ Refreshed(v).monitor = ~Running
    BY <2>1, ViewFields
  <2>5. /\ Logging(Refreshed(v)).open /\ Logging(Refreshed(v)).logging
        /\ Logging(Refreshed(v)).piggyback = Running /\ Logging(Refreshed(v)).monitor = ~Running
    BY <2>2, <2>4, ViewFields DEF Alone
  <2> QED  BY <2>3, <2>4, <2>5
<1>4. \A p \in Pids : ~proc[p].sig
  BY DEF Launch, LaunchedLater, Alone, Transient
<1>5. ~Ending
  BY <1>1 DEF Ending, At
<1>6. WhenOpen' /\ Own' /\ NoGap'
  BY <1>0, <1>1, <1>2, <1>3, <1>4, <1>5, LooksRight DEF SessionInv
<1>7. Core' /\ ByHand' /\ Family' /\ PidNames'
  BY <1>0, <1>1, <1>2, SettlesCore, SettlesHand, SettlesRest DEF SessionInv
<1> QED  BY <1>0, <1>3, <1>6, <1>7 DEF SessionInv, WhenClosed

(* At rest, what the TUI has seen is still so.                             *)
LEMMA AtRestRight ==
    ASSUME Alone, SessionInv, AtRest
    PROVE  /\ ByHand /\ ~Ending /\ ~Starting
           /\ \A p \in Pids : Daemon(p) => ~proc[p].sig
           /\ Running => view.piggyback /\ ~view.logging
           /\ used.reuses = 0 /\ used.crashes = 0 =>
                /\ view.piggyback => Running
                /\ ~view.piggyback /\ ~muted => view.logging
<1>1. ByHand /\ view.open /\ ~Ending /\ ~Starting
  BY DEF SessionInv, Loose, AtRest, Ending, Starting, At
<1>2. \A p \in Pids : Daemon(p) => ~proc[p].sig
  BY DEF SessionInv, WhenOpen, AtRest, At
<1>3. Running => view.piggyback /\ ~view.logging
  BY <1>1 DEF SessionInv, Own, NoneRuns, Running
<1>4. ASSUME used.reuses = 0, used.crashes = 0
      PROVE  /\ view.piggyback => Running
             /\ ~view.piggyback /\ ~muted => view.logging
  BY <1>1, <1>4, Finds DEF SessionInv, NoGap, AtRest, At
<1> QED  BY <1>1, <1>2, <1>3, <1>4

LEMMA RefreshInv ==
    ASSUME Alone, SessionInv, Refresh
    PROVE  SessionInv'
<1>0. SessionTypeOK' /\ Core /\ TypeOK' /\ view \in View /\ AtRest
  BY SessionTypes DEF SessionInv, SessionNext, SessionTypeOK, Refresh
<1>1. Settles /\ run' = Cleaned
  BY DEF Refresh, Settles, AtRest, At
<1>2. /\ ByHand /\ ~Ending /\ ~Starting
      /\ \A p \in Pids : Daemon(p) => ~proc[p].sig
      /\ Running => view.piggyback /\ ~view.logging
      /\ used.reuses = 0 /\ used.crashes = 0 =>
           /\ view.piggyback => Running
           /\ ~view.piggyback /\ ~muted => view.logging
  BY <1>0, AtRestRight
<1>3. /\ view'.open = view.open /\ view'.piggyback = Running /\ view'.monitor = ~Running
      /\ view'.logging = view.logging /\ muted' = muted
  BY <1>0, ViewFields DEF Refresh
<1>4. WhenOpen' /\ Own' /\ NoGap'
  BY <1>0, <1>1, <1>2, <1>3, LooksRight DEF SessionInv
<1>5. Core' /\ ByHand' /\ Family' /\ PidNames'
  BY <1>0, <1>1, <1>2, SettlesCore, SettlesHand, SettlesRest DEF SessionInv
<1> QED  BY <1>0, <1>3, <1>4, <1>5 DEF SessionInv, WhenClosed, AtRest

LEMMA FinishInv ==
    ASSUME Alone, SessionInv, Finish
    PROVE  SessionInv'
<1> DEFINE r == client[Tui]
<1>0. /\ SessionTypeOK' /\ Core /\ TypeOK /\ TypeOK' /\ view \in View
      /\ r.at \in {"ok", "err"}
  BY SessionTypes DEF SessionInv, SessionNext, SessionTypeOK, Finish
<1>1. Settles
  BY <1>0, FinishClient DEF Finish, Settles, At
<1>2. view.open /\ ByHand
  BY <1>0 DEF SessionInv, WhenClosed, Loose, At, Idle
<1>3. \A p \in Pids : Daemon(p) => ~proc[p].sig
  BY <1>0, <1>2 DEF SessionInv, WhenOpen, At
<1>4. r.op \in {"start", "stop", "status"}
  BY <1>0, HandOps, TuiIsClient DEF At
<1>5. Core' /\ ByHand' /\ Family' /\ PidNames'
  BY <1>0, <1>1, <1>2, SettlesCore, SettlesHand, SettlesRest DEF SessionInv
<1>6. /\ Refreshed(view) \in View
      /\ Refreshed(view).open /\ Refreshed(view).logging = view.logging
      /\ Refreshed(view).piggyback = Running /\ Refreshed(view).monitor = ~Running
  BY <1>0, <1>2, ViewTypes, ViewFields
<1>7. CASE r.at = "err" \/ r.op = "status"
  <2>1. UNCHANGED view /\ run' = run
    BY <1>7 DEF Finish, AfterOp
  <2>2. UNCHANGED muted
    <3>1. r.at = "ok" => muted' = (muted /\ r.op \notin {"stop", "disable"})
      BY DEF Finish
    <3>2. r.at # "ok" => muted' = muted
      BY DEF Finish
    <3>3. muted \in BOOLEAN
      BY DEF SessionInv, SessionTypeOK
    <3> QED  BY <1>0, <1>7, <3>1, <3>2, <3>3
  <2>3. ~Starting /\ ~Ending
    BY <1>7 DEF Starting, Ending, At
  <2>4. WhenOpen' /\ Own' /\ NoGap'
    BY <1>0, <1>1, <1>2, <2>1, <2>2, <2>3, LooksAway DEF SessionInv
  <2> QED  BY <1>0, <1>2, <1>5, <2>1, <2>4 DEF SessionInv, WhenClosed
<1>8. CASE r.at = "ok" /\ r.op = "start"
  <2>1. view' = Adopted(view) /\ run' = Cleaned
    BY <1>8 DEF Finish, AfterOp
  <2>2. muted' = muted
    <3>1. muted' = (muted /\ r.op \notin {"stop", "disable"}) /\ muted \in BOOLEAN
      BY <1>8 DEF Finish, SessionInv, SessionTypeOK
    <3> QED  BY <1>8, <3>1
  <2>3. /\ view'.open /\ view'.piggyback = Running /\ view'.monitor = ~Running
        /\ view'.logging = (~Running /\ view.logging)
    BY <1>6, <2>1 DEF Adopted, View
  <2>4. used.reuses = 0 /\ used.crashes = 0 /\ ~muted => view.logging
    BY <1>2, <1>8 DEF SessionInv, NoGap, At
  <2>5. ~Ending
    BY <1>8 DEF Ending
  <2>6. WhenOpen' /\ Own' /\ NoGap'
    BY <1>0, <1>1, <1>2, <1>3, <2>1, <2>2, <2>3, <2>4, <2>5, LooksRight DEF SessionInv
  <2> QED  BY <1>0, <1>5, <2>3, <2>6 DEF SessionInv, WhenClosed
<1>9. CASE r.at = "ok" /\ r.op = "stop"
  <2>1. view' = Dropped(view) /\ run' = Cleaned
    BY <1>9 DEF Finish, AfterOp
  <2>2. ~Running
    <3>1. StopOk(Tui)
      BY <1>9 DEF StopOk, At
    <3>2. run.pid = None
      BY <1>2, <3>1 DEF Alone, ByHand, StopSteady, StopAt
    <3> QED  BY <3>2, PidAssumption DEF Running
  <2>3. /\ view'.open /\ view'.piggyback = Running /\ view'.monitor = ~Running /\ view'.logging
    BY <1>6, <2>1, ViewFields DEF Dropped, Alone
  <2>4. WhenOpen' /\ Own' /\ NoGap'
    BY <1>0, <1>1, <1>2, <1>3, <2>1, <2>2, <2>3, LooksRight DEF SessionInv
  <2> QED  BY <1>0, <1>5, <2>3, <2>4 DEF SessionInv, WhenClosed
<1> QED  BY <1>0, <1>4, <1>7, <1>8, <1>9

LEMMA CommandInv ==
    ASSUME Alone, SessionInv, NEW op \in Ops, Command(op)
    PROVE  SessionInv'
<1>0. /\ SessionTypeOK' /\ Core /\ AtRest /\ view.open /\ UNCHANGED <<view, muted, proc, run>>
      /\ used'.reuses = used.reuses /\ used'.crashes = used.crashes
  <2>1. used'.reuses = used.reuses /\ used'.crashes = used.crashes
    BY DEF SessionInv, SessionTypeOK, TypeOK, Command, Begin
  <2> QED  BY <2>1, SessionTypes DEF SessionInv, SessionNext, SessionTypeOK, Command, Begin, AtRest
<1>1. /\ ByHand /\ ~Ending /\ ~Starting
      /\ \A p \in Pids : Daemon(p) => ~proc[p].sig
      /\ used.reuses = 0 /\ used.crashes = 0 =>
           /\ view.piggyback => Running
           /\ ~view.piggyback /\ ~muted => view.logging
  BY <1>0, AtRestRight
<1>2. [Next]_vars
  BY TuiIsClient DEF Command, Next
<1>3. Core' /\ ByHand'
  BY <1>0, <1>1, <1>2, CoreNext, HandNext
<1>4. \A p \in Pids : Daemon(p)' <=> Daemon(p)
  BY <1>0 DEF Daemon, Live
<1>5. Family' /\ WhenOpen' /\ Own'
  BY <1>0, <1>1, <1>4 DEF SessionInv, Family, WhenOpen, Own, NoneRuns
<1>6. PidNames'
  BY <1>0, <1>1 DEF SessionInv, PidNames
<1>7. NoGap'
  <2>1. client'[Tui].op = "start" => ~Running
    <3>1. client'[Tui].op = op
      BY <1>0, BeginStep, TuiIsClient DEF Core, Command
    <3> QED  BY <3>1 DEF Command
  <2>2. used.reuses = 0 /\ used.crashes = 0 /\ view.piggyback => \E p \in Pids : Daemon(p)'
    BY <1>0, <1>1, <1>4 DEF SessionInv, NoGap
  <2> QED  BY <1>0, <1>1, <2>1, <2>2 DEF NoGap
<1> QED  BY <1>0, <1>3, <1>5, <1>6, <1>7 DEF SessionInv, WhenClosed

LEMMA LogInv ==
    ASSUME Alone, SessionInv, LogStart \/ LogStop
    PROVE  SessionInv'
<1>0. SessionTypeOK' /\ Core /\ UNCHANGED vars /\ view \in View /\ view.open /\ ~view.piggyback
      /\ [Next]_vars
  BY SessionTypes DEF SessionInv, SessionNext, SessionTypeOK, LogStart, LogStop, AtRest
<1>1. /\ view'.open /\ view'.piggyback = view.piggyback /\ view'.monitor = view.monitor
      /\ view'.logging \/ muted'
  BY <1>0, ViewFields DEF LogStart, LogStop, View, Alone
<1>2. ByHand
  BY <1>0 DEF SessionInv, Loose
<1>3. Core' /\ ByHand'
  BY <1>0, <1>2, CoreNext, HandNext
<1>4. (Starting' <=> Starting) /\ (Ending' <=> Ending)
      /\ \A p \in Pids : Daemon(p)' <=> Daemon(p)
  BY <1>0 DEF vars, Starting, Ending, At, Daemon, Live
<1>5. Family' /\ WhenOpen' /\ PidNames'
  BY <1>0, <1>4 DEF SessionInv, vars, Family, WhenOpen, PidNames, At
<1>6. Own' /\ NoGap'
  BY <1>0, <1>1, <1>4 DEF SessionInv, vars, Own, NoneRuns, NoGap, At
<1> QED  BY <1>0, <1>1, <1>3, <1>5, <1>6 DEF SessionInv, WhenClosed

(* The TUI goes.                                                           *)
Leaves ==
    /\ view' = Closed /\ At(Tui, "idle")' /\ UNCHANGED <<run, used>>
    /\ \A p \in Pids :
        /\ proc'[p].root = proc[p].root
        /\ proc'[p].parent = IF proc[p].parent = Tui THEN "init" ELSE proc[p].parent
        /\ proc'[p].st = IF proc[p].parent = Tui /\ proc[p].st = "zombie" THEN "gone"
                         ELSE proc[p].st

LEMMA LeavesRest ==
    ASSUME Alone, Core, Family, PidNames, Leaves
    PROVE  WhenClosed' /\ Family' /\ WhenOpen' /\ Own' /\ PidNames' /\ NoGap'
<1>0. Tui # "init" /\ "init" \notin Clients
  BY TuiIsClient, ClientAssumption
<1>1. WhenClosed'
  BY <1>0 DEF WhenClosed, Leaves
<1>2. WhenOpen' /\ Own' /\ NoGap'
  BY DEF WhenOpen, Own, NoGap, Leaves, Closed
<1>3. Family'
  <2> SUFFICES ASSUME NEW p \in Pids
               PROVE  /\ proc'[p].st = "unborn" => proc'[p].parent = "init"
                      /\ proc'[p].root => proc'[p].parent \in {Tui, "init"}
                      /\ proc'[p].st = "zombie" => proc'[p].parent \in Clients
                      /\ proc'[p].st = "foreign" => used'.reuses > 0
    BY DEF Family
  <2> QED  BY DEF Family, Leaves
<1>4. PidNames'
  <2>1. SUFFICES ASSUME run.pid \in Pids
                 PROVE  /\ proc'[run.pid].st # "unborn"
                        /\ used.reuses = 0 => proc'[run.pid].root
                        /\ used.reuses = 0 => proc'[run.pid].st # "zombie"
    BY DEF PidNames, Leaves
  <2>2. proc[run.pid].st # "unborn" /\ (used.reuses = 0 => proc[run.pid].root)
    BY <2>1 DEF PidNames
  <2>3. used.reuses = 0 /\ proc[run.pid].st = "zombie" => proc[run.pid].parent = Tui
    BY <1>0, <2>1, <2>2 DEF Family
  <2> QED  BY <2>1, <2>2, <2>3 DEF Leaves
<1> QED  BY <1>1, <1>2, <1>3, <1>4

LEMMA ExitInv ==
    ASSUME Alone, SessionInv, Exit
    PROVE  SessionInv'
<1>0. SessionTypeOK' /\ Core /\ TypeOK /\ ByHand
  BY SessionTypes DEF SessionInv, SessionNext, SessionTypeOK, Exit, AtRest, Loose
<1>1. [Next]_vars
  <2>1. CASE \E p \in Pids : proc[p].parent = Tui
    BY <2>1, TuiIsClient DEF Exit, AtRest, TuiExit, Next
  <2>2. CASE \A p \in Pids : proc[p].parent # Tui
    <3>1. proc' = [p \in Pids |-> proc[p]]
      BY <2>2 DEF Exit, Orphaned
    <3>2. proc' = proc
      BY <1>0, <3>1 DEF TypeOK
    <3> QED  BY <3>2 DEF Exit, vars
  <2> QED  BY <2>1, <2>2
<1>2. Core' /\ ByHand'
  BY <1>0, <1>1, CoreNext, HandNext
<1>3. Leaves
  BY <1>0, OrphanedFields, TuiIsClient DEF Exit, AtRest, Leaves, At
<1> QED  BY <1>0, <1>2, <1>3, LeavesRest DEF SessionInv

LEMMA HangupCore ==
    ASSUME Alone, Core, Hangup, TypeOK'
    PROVE  Core'
<1>0. TypeOK /\ client'[Tui] = Idle /\ \A d \in Clients \ {Tui} : client'[d] = client[d]
  BY TuiIsClient DEF Core, TypeOK, Hangup
<1>1. OneOperation'
  <2> SUFFICES ASSUME NEW c \in Clients, NEW d \in Clients, c # d, ~At(d, "idle")'
               PROVE  client'[c] = Idle
    BY DEF OneOperation
  <2>1. d # Tui /\ ~At(d, "idle")
    BY <1>0 DEF At, Idle
  <2> QED  BY <1>0, <2>1 DEF Core, OneOperation
<1>2. OpSteps'
  <2>1. \A c \in Clients : client'[c] \in {client[c], Idle}
    BY <1>0
  <2> QED  BY <2>1 DEF Core, OpSteps, At, Idle
<1>3. /\ \A p \in Pids :
            /\ proc'[p].mode = proc[p].mode /\ proc'[p].root = proc[p].root
            /\ proc'[p].parent = IF proc[p].parent = Tui THEN "init" ELSE proc[p].parent
            /\ proc'[p].st = IF proc[p].parent = Tui /\ proc[p].st = "zombie" THEN "gone"
                             ELSE proc[p].st
            /\ proc'[p].sig = (proc[p].sig \/ (proc[p].parent = Tui /\ Live(p)))
            /\ Live(p)' <=> Live(p)
  BY <1>0, HangupFields DEF Live, LiveStates
<1>4. Tui # "systemd"
  BY TuiIsClient, ClientAssumption
<1>5. UNCHANGED <<unit, systemd>>
  BY DEF Hangup
<1>6. Signals'
  <2> SUFFICES ASSUME NEW p \in Pids
               PROVE  /\ proc'[p].sig => Live(p)' \/ proc'[p].st = "foreign"
                      /\ proc'[p].st = "foreign" => proc'[p].parent = "init"
    BY DEF Signals
  <2>1. /\ proc[p].sig => Live(p) \/ proc[p].st = "foreign"
        /\ proc[p].st = "foreign" => proc[p].parent = "init"
    BY DEF Core, UnitInv, Signals
  <2> QED  BY <1>3, <2>1
<1>7. Managing'
  <2>1. \A p \in Pids : Managed(p)' <=> Managed(p)
    BY <1>3, <1>4 DEF Managed
  <2> QED  BY <1>3, <1>4, <1>5, <2>1 DEF Core, UnitInv, Managing
<1>8. NamedIsRoot'
  BY <1>3 DEF Core, NamedIsRoot, LiveStates
<1>9. ~unit'.file /\ systemd' = "inactive"
  BY <1>5, NoUnit
<1> QED  BY <1>1, <1>2, <1>6, <1>7, <1>8, <1>9, UnitOther DEF Core

LEMMA HangupInv ==
    ASSUME Alone, SessionInv, Hangup
    PROVE  SessionInv'
<1>0. SessionTypeOK' /\ Core /\ TypeOK /\ TypeOK' /\ ByHand /\ view.open
  BY SessionTypes DEF SessionInv, SessionNext, SessionTypeOK, Hangup, Loose
<1>1. client'[Tui] = Idle /\ UNCHANGED run /\ view' = Closed
  BY <1>0, TuiIsClient DEF Hangup, TypeOK
<1>2. Core'
  BY <1>0, HangupCore
<1>3. \A p \in Pids :
            /\ Live(p)' <=> Live(p)
            /\ Daemon(p)' <=> Daemon(p)
            /\ Live(p) => proc'[p].st = proc[p].st
            /\ Live(p) /\ proc[p].parent = Tui => proc'[p].sig
            /\ proc'[p].st \in LiveStates => proc'[p].st = proc[p].st
  BY <1>0, HangupFields DEF Daemon, Live, LiveStates
<1>4. ASSUME NEW p \in Pids, Daemon(p), proc[p].st \in {"boot", "naming"}
      PROVE  Loose'
  <2>1. run.pid \notin Pids /\ proc[p].parent = Tui /\ Live(p)
    BY <1>0, <1>4 DEF ByHand, BootIsPolled, SessionInv, WhenOpen, Daemon
  <2>2. \A q \in Pids : Daemon(q) => q = p
    BY <1>0, <1>4, OneDaemon DEF Core, OneDaemonInv, AtMostOneDaemon
  <2> QED  BY <1>1, <1>3, <1>4, <2>1, <2>2 DEF Loose, Closed
<1>5. ASSUME \A p \in Pids : Daemon(p) => proc[p].st \notin {"boot", "naming"}
      PROVE  ByHand'
  <2>1. BootIsPolled'
    BY <1>3, <1>5 DEF BootIsPolled, Daemon
  <2>2. DaemonReachable'
    BY <1>0, <1>1, <1>3 DEF ByHand, DaemonReachable, LiveStates
  <2>3. NoneBeforeSpawn' /\ StopSteady'
    BY <1>1 DEF Alone, NoneBeforeSpawn, StopSteady, StopAt, StopOk, Returned, At, Idle
  <2> QED  BY <2>1, <2>2, <2>3 DEF ByHand
<1>6. Leaves
  <2>1. At(Tui, "idle")' /\ UNCHANGED <<run, used>>
    BY <1>1 DEF Hangup, At, Idle
  <2>2. ASSUME NEW p \in Pids
        PROVE  /\ proc'[p].root = proc[p].root
               /\ proc'[p].parent = IF proc[p].parent = Tui THEN "init" ELSE proc[p].parent
               /\ proc'[p].st = IF proc[p].parent = Tui /\ proc[p].st = "zombie" THEN "gone"
                                ELSE proc[p].st
    BY <1>0, HangupFields
  <2> QED  BY <1>1, <2>1, <2>2 DEF Leaves
<1> QED  BY <1>0, <1>2, <1>4, <1>5, <1>6, LeavesRest DEF SessionInv

LEMMA RestartInv ==
    ASSUME Alone, SessionInv, Restart
    PROVE  SessionInv'
<1>0. SessionTypeOK' /\ Core /\ TypeOK /\ [Next]_vars /\ Reboot /\ view' = Closed
  BY SessionTypes DEF SessionInv, SessionNext, SessionTypeOK, Restart, Next
<1>1. Core'
  BY <1>0, CoreNext
<1>2. client'[Tui] = Idle /\ run'.pid = None
  BY <1>0, TuiIsClient DEF Reboot
<1>3. ASSUME NEW p \in Pids
      PROVE  /\ ~Live(p)' /\ proc'[p].parent = "init"
             /\ proc'[p].st \notin {"zombie", "foreign"}
  <2>1. CASE proc[p].st = "unborn"
    <3>1. proc'[p] = proc[p] /\ proc[p].parent = "init"
      BY <1>0, <2>1 DEF Reboot, SessionInv, Family
    <3> QED  BY <2>1, <3>1 DEF Live, LiveStates
  <2>2. CASE proc[p].st # "unborn"
    BY <1>0, <2>2 DEF Reboot, Unborn, Live, LiveStates
  <2> QED  BY <2>1, <2>2
<1>4. ByHand'
  BY <1>1, <1>2, <1>3, IdleQuiet DEF Core, Daemon
<1>5. WhenClosed'
  <2>1. Tui # "init"
    BY TuiIsClient, ClientAssumption
  <2> QED  BY <1>0, <1>2, <1>3, <2>1 DEF WhenClosed, At, Idle
<1>6. Family' /\ PidNames'
  BY <1>2, <1>3, PidAssumption DEF Family, PidNames
<1>7. WhenOpen' /\ Own' /\ NoGap'
  BY <1>0 DEF WhenOpen, Own, NoGap, Closed
<1> QED  BY <1>0, <1>1, <1>4, <1>5, <1>6, <1>7 DEF SessionInv

LEMMA InnerInv ==
    ASSUME Alone, SessionInv, Inner, UNCHANGED <<view, muted>>, SessionTypeOK'
    PROVE  SessionInv'
<1>1. Core /\ [Next]_vars /\ (view.open => ByHand)
  BY InnerIsNext DEF SessionInv, Loose
<1>2. Core' /\ (ByHand' \/ Loose')
  BY <1>1, CoreNext, HandNext, LooseNext DEF SessionInv
<1> QED  BY <1>1, <1>2, InnerClosed, InnerFamily, InnerOpen, InnerOwn, InnerPidNames, InnerNoGap
         DEF SessionInv

LEMMA SessionStep ==
    ASSUME Alone, SessionInv, [SessionNext]_sessionVars
    PROVE  SessionInv'
<1>1. Core /\ SessionTypeOK'
  BY SessionTypes DEF SessionInv
<1> QED  BY <1>1, SessionFrames, InnerInv, LogInv, LaunchInv, RefreshInv, FinishInv, ExitInv,
            HangupInv, RestartInv, CommandInv

LEMMA SessionStart ==
    ASSUME Alone, SessionInit
    PROVE  SessionInv
<1>1. Init /\ view = Closed /\ Closed \in View /\ muted \in BOOLEAN
  BY DEF SessionInit, Closed, View
<1>2. ServiceInv
  BY <1>1, ServiceInit
<1>3. Core /\ ByHand
  BY <1>1, <1>2 DEF ServiceInv, Core, Init
<1>4. client[Tui] = Idle /\ run.pid = None
      /\ \A p \in Pids : proc[p] = Unborn
  BY <1>1, TuiIsClient DEF Init
<1>5. WhenClosed
  BY <1>1, <1>4, TuiIsClient, ClientAssumption DEF WhenClosed, At, Idle, Unborn
<1>6. Family /\ PidNames
  BY <1>4, PidAssumption DEF Family, PidNames, Unborn
<1>7. WhenOpen /\ Own /\ NoGap
  BY <1>1 DEF WhenOpen, Own, NoGap, Closed
<1> QED  BY <1>1, <1>3, <1>5, <1>6, <1>7 DEF SessionInv, SessionTypeOK, Core

LEMMA SessionAlways == ASSUME Alone PROVE SessionSpec => []SessionInv
  BY SessionStart, SessionStep, PTL DEF SessionSpec

(* ------------------------------- the results ----------------------------- *)

LEMMA NoneServes ==
    ASSUME SessionInv, AtRest, ~view.piggyback, NEW p \in Pids
    PROVE  proc[p].st # "serve"
<1>1. ~Daemon(p)
  BY DEF SessionInv, Own, NoneRuns, AtRest, Starting, At
<1> QED  BY <1>1 DEF SessionInv, Core, NamedIsRoot, Daemon, Live, LiveStates

(* A TUI at rest that records is the only one to do so: whatever was       *)
(* started, stopped, crashed or hung up on before, no daemon serves then   *)
(* (app.rs:238, 588-595, 682-733).                                         *)
THEOREM NeverTwice == ASSUME Alone PROVE SessionSpec => []OneRecorder
<1>1. SessionInv => OneRecorder
  BY NoneServes DEF OneRecorder, Recording
<1> QED  BY <1>1, SessionAlways, PTL

(* While it piggybacks it keeps no log of its own (app.rs:148, 238).       *)
THEOREM NoLogOfItsOwn == ASSUME Alone PROVE SessionSpec => []LoggerIsOwn
<1>1. SessionInv => LoggerIsOwn
  BY DEF SessionInv, Own, LoggerIsOwn, AtRest
<1> QED  BY <1>1, SessionAlways, PTL

(* Unless a daemon crashes, a pid is reused or the user stops the log,     *)
(* somebody records whenever the TUI is at rest: handing over to a daemon  *)
(* and back leaves no gap (app.rs:682-733).                                *)
THEOREM NeverNobody == ASSUME Alone PROVE SessionSpec => []SomebodyRecords
<1>1. SessionInv => SomebodyRecords
  <2>1. SUFFICES ASSUME SessionInv, AtRest, ~muted, used.crashes = 0, used.reuses = 0,
                        \A p \in Pids : ~Daemon(p)
                 PROVE  Recording
    BY DEF SomebodyRecords
  <2>2. view.open /\ ~Ending
    BY <2>1 DEF AtRest, Ending, At
  <2>3. ~view.piggyback /\ view.logging
    BY <2>1, <2>2 DEF SessionInv, NoGap
  <2>4. view.monitor
    BY <2>1, <2>2, <2>3 DEF SessionInv, Own
  <2> QED  BY <2>2, <2>3, <2>4 DEF Recording
<1> QED  BY <1>1, SessionAlways, PTL

LEMMA SessionFinds ==
    ASSUME Alone, SessionInv
    PROVE  DaemonReachable /\ StoppedStaysStopped /\ StopLeavesNothing
<1>1. CASE ByHand
  BY <1>1, StoppedMeans DEF SessionInv, Core, OneDaemonInv, ByHand
<1>2. CASE Loose
  <2>1. DaemonReachable
    BY <1>2, NamedIsDaemon DEF Loose, DaemonReachable, SessionInv, Core
  <2>2. StoppedStaysStopped /\ StopLeavesNothing
    BY <1>2 DEF Alone, Loose, StoppedStaysStopped, StopLeavesNothing, Returned, Idle
  <2> QED  BY <2>1, <2>2
<1> QED  BY <1>1, <1>2 DEF SessionInv

(* With a TUI that quits or is hung up on at any moment, too, the PID file *)
(* names the daemon that runs (service.rs:59-71, app.rs:588-595).          *)
THEOREM SessionReaches == ASSUME Alone PROVE SessionSpec => []DaemonReachable
  BY SessionFinds, SessionAlways, PTL

(* And what the TUI has stopped stays down until it is started again       *)
(* (service.rs:136-161, app.rs:715).                                       *)
THEOREM SessionStops == ASSUME Alone PROVE SessionSpec => []StoppedStaysStopped
  BY SessionFinds, SessionAlways, PTL

(* It has left neither a PID file nor a snapshot behind, so that the next  *)
(* look of the TUI finds no daemon (service.rs:149, 158-159).              *)
THEOREM SessionStopsClean == ASSUME Alone PROVE SessionSpec => []StopLeavesNothing
  BY SessionFinds, SessionAlways, PTL

=============================================================================
