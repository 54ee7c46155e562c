-------------------------------- MODULE Session --------------------------------
(***************************************************************************)
(* A TUI session next to the daemon (tui/src/app.rs over Service): who     *)
(* samples and who records.  The TUI either owns a monitor or "piggybacks" *)
(* on the daemon's snapshot file; it learns that a daemon came or went     *)
(* only when it looks, which refresh_verify() does.  The thread of the TUI *)
(* is blocked while an operation of Service runs, and handles its result   *)
(* before the next key or tick.  (Foo_Bug is a wrong version of Foo.)      *)
(***************************************************************************)
EXTENDS Service

CONSTANT Tui    \* the client that is the TUI

ASSUME SessionAssumption == Tuis = {Tui}

VARIABLES
    view,   \* the TUI: open, piggyback_mode, monitor, logging_active, service_mode
    muted   \* history: the user has stopped the log

sessionVars == <<vars, view, muted>>

View == [open : BOOLEAN, piggyback : BOOLEAN, monitor : BOOLEAN, logging : BOOLEAN,
         mode : Modes \cup {None}]

SessionTypeOK == TypeOK /\ view \in View /\ muted \in BOOLEAN

Closed == [open |-> FALSE, piggyback |-> FALSE, monitor |-> FALSE, logging |-> FALSE,
           mode |-> None]

SessionInit == Init /\ view = Closed /\ muted = FALSE

-----------------------------------------------------------------------------
(* Pieces of App.                                                          *)

(* A label takes the place of the missing mode.                            *)
Refreshed_Label(v) ==
    [v EXCEPT !.piggyback = Running, !.monitor = ~Running,
              !.mode = IF ~Running THEN None ELSE IF run.mode = None THEN "unknown" ELSE run.mode]

(* refresh_verify(): piggyback if daemon_pid() finds a daemon, else a      *)
(* monitor of its own (allocation failures are left out).                  *)
Refreshed(v) ==
    [v EXCEPT !.piggyback = Running, !.monitor = ~Running,
              !.mode = IF Running THEN run.mode ELSE None]

(* daemon_pid() on the way removes a stale PID file.                       *)
Cleaned == IF Stale /\ Tui \in Roots THEN [run EXCEPT !.pid = None] ELSE run

(* start_logging(): the log directory takes root.                          *)
Logging(v) == [v EXCEPT !.logging = @ \/ Tui \in Roots]

(* The log is left open.                                                   *)
Adopted_KeepsLog(v) == Refreshed(v)

(* After start and enable: refresh, and leave the log to the daemon, if    *)
(* one is found.                                                           *)
Adopted(v) ==
    LET r == Refreshed(v) IN IF r.piggyback THEN [r EXCEPT !.logging = FALSE] ELSE r

(* The log stays closed.                                                   *)
Dropped_NoLog(v) == Refreshed(v)

(* After stop and disable: refresh, and record again.                      *)
Dropped(v) == Logging(Refreshed(v))

(* After start and enable the TUI goes on as before.                       *)
AfterOp_NoRefresh(op, v) ==
    CASE op \in {"stop", "disable"} -> Dropped(v)
      [] OTHER -> v

(* What exec_terminal_command() does once an operation has returned Ok.    *)
AfterOp(op, v) ==
    CASE op \in {"start", "enable"} -> Adopted(v)
      [] op \in {"stop", "disable"} -> Dropped(v)
      [] OTHER -> v

(* log_snapshot() is called in a tick when all of this holds.              *)
Recording == view.open /\ view.monitor /\ ~view.piggyback /\ view.logging

-----------------------------------------------------------------------------
(* The TUI at rest, between two keys or ticks.                             *)
AtRest == view.open /\ At(Tui, "idle")

(* No operation of another client is under way, and a daemon that the last *)
(* hang-up has signalled is gone, before a TUI is launched.  Assumptions   *)
(* on the user and on timing that the code does not check, in force when   *)
(* Serial and when Prompt holds.                                           *)
LaunchedLater ==
    /\ Serial => \A c \in Clients : At(c, "idle")
    /\ Prompt => \A p \in Pids : ~proc[p].sig

(* App::new()                                                              *)
Launch ==
    /\ ~view.open /\ LaunchedLater
    /\ view' = LET v == Refreshed([Closed EXCEPT !.open = TRUE])
               IN IF v.piggyback THEN v ELSE Logging(v)
    /\ run' = Cleaned /\ muted' = FALSE
    /\ UNCHANGED <<proc, unit, systemd, client, used>>

(* `service start' and `service stop' look before they begin.              *)
Command(op) ==
    /\ AtRest
    /\ op = "start" => ~Running
    /\ op = "stop"  => Running
    /\ Begin(Tui, op)
    /\ UNCHANGED <<view, muted>>

(* The operation returns.                                                  *)
Finish ==
    LET r == client[Tui] IN
    /\ r.at \in {"ok", "err"}
    /\ client' = [client EXCEPT ![Tui].at = "idle", ![Tui].ret = r.at]
    /\ IF r.at = "ok"
       THEN /\ view' = AfterOp(r.op, view)
            /\ run' = IF r.op = "status" THEN run ELSE Cleaned
            /\ muted' = (muted /\ r.op \notin {"stop", "disable"})
       ELSE UNCHANGED <<view, run, muted>>
    /\ UNCHANGED <<proc, unit, systemd, used>>

(* `r', `verify', and the end of Apply and Teardown.                       *)
Refresh ==
    /\ AtRest
    /\ view' = Refreshed(view) /\ run' = Cleaned
    /\ UNCHANGED <<proc, unit, systemd, client, used, muted>>

(* `log start' and `log stop' are refused while piggybacking.              *)
LogStart ==
    /\ AtRest /\ ~view.piggyback
    /\ view' = Logging(view) /\ muted' = FALSE
    /\ UNCHANGED vars

LogStop ==
    /\ AtRest /\ ~view.piggyback
    /\ view' = [view EXCEPT !.logging = FALSE] /\ muted' = TRUE
    /\ UNCHANGED vars

(* The user quits.                                                         *)
Exit ==
    /\ AtRest
    /\ view' = Closed /\ proc' = Orphaned(Tui)
    /\ UNCHANGED <<run, unit, systemd, client, used, muted>>

(* The terminal goes away: SIGHUP to its foreground process group, which   *)
(* is the TUI, whatever it is doing, and the daemons it has spawned.       *)
Hangup ==
    /\ view.open
    /\ view' = Closed
    /\ proc' = [p \in Pids |-> IF proc[p].parent = Tui /\ Live(p)
                               THEN [Orphaned(Tui)[p] EXCEPT !.sig = TRUE]
                               ELSE Orphaned(Tui)[p]]
    /\ client' = [client EXCEPT ![Tui] = Idle]
    /\ UNCHANGED <<run, unit, systemd, used, muted>>

(* The other clients, the daemons and the machine, as in Service.          *)
Others ==
    /\ \/ \E c \in Clients \ {Tui} : (\E op \in Ops : Begin(c, op)) \/ ClientStep(c)
       \/ ~(client[Tui].at \in {"ok", "err"}) /\ ClientStep(Tui)
       \/ \E p \in Pids :
            \/ DaemonStep(p) \/ MonitorFails(p) \/ Publish(p)
            \/ Die(p) \/ Crash(p) \/ PidReused(p)
       \/ SystemdSpawn
    /\ UNCHANGED <<view, muted>>

Restart == Reboot /\ view' = Closed /\ UNCHANGED muted

SessionNext ==
    \/ Launch \/ Finish \/ Refresh \/ LogStart \/ LogStop \/ Exit \/ Hangup
    \/ \E op \in Ops : Command(op)
    \/ Others
    \/ Restart

SessionSpec == SessionInit /\ [][SessionNext]_sessionVars

-----------------------------------------------------------------------------
(* Properties.                                                             *)

(* The TUI at rest and a daemon never both record (app.rs:238, 588-595):   *)
(* every sample would be logged twice, by two monitors on the same cores.  *)
OneRecorder == AtRest /\ Recording => \A p \in Pids : proc[p].st # "serve"

(* As long as nothing crashes, no pid is reused and the user has not       *)
(* stopped the log, a session of root never leaves a gap: the TUI records, *)
(* or there is a daemon that does or is about to (app.rs:682-733).         *)
SomebodyRecords ==
    AtRest /\ Tui \in Roots /\ ~muted /\ used.crashes = 0 /\ used.reuses = 0 =>
        Recording \/ \E p \in Pids : Daemon(p)

(* The TUI has no log of its own while it piggybacks (app.rs:148 "only     *)
(* used when NOT in piggyback mode", app.rs:238).                          *)
LoggerIsOwn == AtRest /\ view.piggyback => ~view.logging

(* Closing the TUI stops no daemon (app.rs:795 "closing the TUI does NOT   *)
(* stop monitoring"; app.rs:796 "Only 'service stop' or 'service disable'  *)
(* can stop the daemon").                                                  *)
ClosingStopsNothing ==
    [][view.open /\ ~view'.open =>
        \A p \in Pids : proc'[p].sig => proc[p].sig]_sessionVars

=============================================================================
