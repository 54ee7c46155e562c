-------------------------------- MODULE Setup --------------------------------
(***************************************************************************)
(* Configuring and restoring the machine: benchmon_setup() and             *)
(* benchmon_teardown() (src/setup.c), called by the TUI's Apply and        *)
(* Teardown (tui/src/tabs/setup.rs, app.rs) and by a daemon that starts    *)
(* (service.rs), over what outlives them: the boot parameters in           *)
(* /etc/default/grub, in grub.cfg and in the running kernel, the runtime   *)
(* settings, and the files under /var/lib/benchmon.                        *)
(*                                                                         *)
(* A core list is a model value; Within tells which lists are substrings   *)
(* of which.  All settings that setup.c saves in preconfig_sysctl.json are *)
(* one value, and so are swap, SMT and the pair of namespaces.  Steps that *)
(* touch one file or one shared value are atomic, and two callers of the   *)
(* library interleave between them.  (Foo_Bug is a wrong version of Foo.)  *)
(***************************************************************************)
EXTENDS Naturals, FiniteSets

CONSTANTS
    None,           \* no value, no file
    Empty,          \* the content of a file that was opened and not written
    Lists,          \* core lists, as they are written in a parameter
    Within,         \* <<a, b>> : the text of list a occurs in that of list b
    Ranges,         \* the lists with a range or a word in each item, as "2-5"
    Flags,          \* the optional parameters, nohz_full and rcu_nocbs
    Names,          \* network namespaces
    DefaultNs,      \* the one that capture_current_state() looks for
    Forms,          \* what the user may enter in the form
    Default,        \* SetupConfig::default()
    Original,       \* the kernel parameters before benchmon's first Apply
    Procs,          \* which of "tui" and "daemon" there are
    Serial,         \* one of them at a time configures the machine
    Prompt,         \* whoever has changed grub.cfg reboots before going on
    Bare,           \* only restore points without isolated cores are used
    Elsewhere,      \* the lists that occur in other parameters of /proc/cmdline
    Faults,         \* which of "kill" (or a power failure), "update" (-grub fails), "smt"
                    \* or "swap" (cannot be switched off), and "nogrub" (no /etc/default/grub)
    KernelUpdates   \* the package manager runs update-grub

Params == Flags \cup {"isolcpus"}

Config == [cores : Lists \cup {None}, flags : SUBSET Flags, tune : BOOLEAN,
           swapoff : BOOLEAN, nosmt : BOOLEAN, ns : Names \cup {None}]

ASSUME SetupAssumption ==
    /\ None \notin Lists \cup Names /\ None # Empty /\ "isolcpus" \notin Flags
    /\ {None, Empty} \cap {"orig", "tuned", "defaults"} = {}
    /\ None \notin Config /\ {None, Empty} \cap [Flags -> Lists \cup {None}] = {}
    /\ Within \subseteq Lists \X Lists /\ \A l \in Lists : <<l, l>> \in Within
    /\ DefaultNs \in Names /\ Forms \subseteq Config /\ Default \in Config
    /\ Ranges \subseteq Lists /\ \A cfg \in Forms \cup {Default} : cfg.cores \notin Ranges
    /\ Original \in [Params -> Lists \cup {None}]
    /\ Procs \subseteq {"tui", "daemon"}
    /\ {Serial, Prompt, Bare, KernelUpdates} \subseteq BOOLEAN
    /\ Elsewhere \subseteq Lists
    /\ \A a \in Lists, b \in Elsewhere : <<a, b>> \in Within => a \in Elsewhere
    /\ Faults \subseteq {"kill", "update", "smt", "swap", "nogrub"}

VARIABLES
    grub,       \* parameters in /etc/default/grub
    boot,       \* in the generated grub.cfg
    cmdline,    \* in /proc/cmdline
    live,       \* runtime settings, lost at a reboot
    grubPre,    \* grub_preconfig.json: None, Empty, or the flags' saved values
    sysPre,     \* preconfig_sysctl.json: None, Empty, or the saved value
    active,     \* active_config.json
    points,     \* the restore points below /var/lib/benchmon/snapshots
    form,       \* the TUI's setup_config
    proc,       \* the callers of the library
    applied     \* history: the last Apply that has ended, until the next task, unless
                \* it failed in part

vars == <<grub, boot, cmdline, live, grubPre, sysPre, active, points, form, proc, applied>>

Tasks == {"apply", "restore", "boot"}   \* run_action(26), run_teardown_inner, run_daemon
Steps == {"idle", "unstrip", "reinject", "regenerate", "forget", "cleanup", "untune",
          "strip_all", "update_all", "sysctl_stat", "sysctl_open", "sysctl_put", "grub_stat",
          "grub_open", "grub_put", "strip", "strip_iso", "inject", "update", "smt", "swap",
          "tune", "net", "return"}
Sysctls == {"orig", "tuned", "defaults"}

NoProc == [at |-> "idle", task |-> "apply", cfg |-> Default, seen |-> "orig", reboot |-> FALSE,
           err |-> FALSE]

TypeOK ==
    /\ {grub, boot, cmdline} \subseteq [Params -> Lists \cup {None}]
    /\ live \in [sysctl : Sysctls, swap : BOOLEAN, smt : BOOLEAN, ns : SUBSET Names]
    /\ grubPre \in {None, Empty} \cup [Flags -> Lists \cup {None}]
    /\ sysPre \in {None, Empty} \cup Sysctls
    /\ active \in {None} \cup Config
    /\ applied \in {None} \cup [cfg : Config, reboot : BOOLEAN]
    /\ points \subseteq Config /\ form \in Config
    /\ proc \in [Procs -> [at : Steps, task : Tasks, cfg : Config, seen : Sysctls,
                           reboot : BOOLEAN, err : BOOLEAN]]

(* Fresh is what a boot sets up.                                           *)
Fresh == [sysctl |-> "orig", swap |-> TRUE, smt |-> TRUE, ns |-> {}]

Init ==
    /\ grub = Original /\ boot = Original /\ cmdline = Original /\ live = Fresh
    /\ grubPre = None /\ sysPre = None /\ active = None /\ points = {}
    /\ form = Default /\ applied = None
    /\ proc = [p \in Procs |-> NoProc]

-----------------------------------------------------------------------------
(* Kernel parameters.                                                      *)

(* sed 's/ nohz_full=...//g; ...'                                          *)
Stripped(params, names) == [k \in Params |-> IF k \in names THEN None ELSE params[k]]

(* The parameter string that setup_grub() appends.                         *)
Injected(params, cfg) ==
    [k \in Params |-> IF k \in cfg.flags \cup {"isolcpus"} THEN cfg.cores ELSE params[k]]

(* strstr() finds a core list in any parameter there is.                   *)
Mentioned(cores) ==
    cores \in Elsewhere \/ \E k \in Params : cmdline[k] # None /\ <<cores, cmdline[k]>> \in Within

(* The flags do not count.                                                 *)
AlreadyActive_IsolcpusOnly(cfg) == cmdline["isolcpus"] # None /\ Mentioned(cfg.cores)

(* Each wanted parameter is there, and the core list somewhere.            *)
AlreadyActive(cfg) ==
    (\A k \in cfg.flags \cup {"isolcpus"} : cmdline[k] # None) /\ Mentioned(cfg.cores)

(* capture_current_state(): the machine as it is, for a restore point; of  *)
(* a core list only plain numbers are understood.                          *)
Captured ==
    [cores   |-> IF cmdline["isolcpus"] \in Ranges THEN None ELSE cmdline["isolcpus"],
     flags   |-> {f \in Flags : cmdline[f] # None},
     tune    |-> live.sysctl = "tuned",
     swapoff |-> ~live.swap,
     nosmt   |-> ~live.smt,
     ns      |-> IF DefaultNs \in live.ns THEN DefaultNs ELSE None]

(* all_checks_passed of benchmon_verify(), on bare metal and for cores that *)
(* exist.  What else it looks at is shown, and does not count.             *)
Passed == ~live.smt /\ cmdline["isolcpus"] # None

-----------------------------------------------------------------------------
(* Who calls the library.                                                  *)

Idle(p) == proc[p].at = "idle"

MayBegin(p) ==
    /\ p \in Procs /\ Idle(p)
    /\ Serial => \A q \in Procs : Idle(q)
    /\ Prompt => boot = cmdline

Started(p, at, task, cfg) ==
    proc' = [proc EXCEPT ![p] = [NoProc EXCEPT !.at = at, !.task = task, !.cfg = cfg]]

(* commit_edit() and toggle_field(); or a new TUI, which starts from the   *)
(* defaults.                                                               *)
Edit ==
    /\ "tui" \in Procs /\ Idle("tui")
    /\ form' \in Forms \cup {Default} /\ form' # form
    /\ UNCHANGED <<grub, boot, cmdline, live, grubPre, sysPre, active, points, proc, applied>>

(* Apply saves both restore points first.                                  *)
Apply ==
    /\ MayBegin("tui")
    /\ points' = points \cup {Captured, form}
    /\ Started("tui", "sysctl_stat", "apply", form)
    /\ applied' = None
    /\ UNCHANGED <<grub, boot, cmdline, live, grubPre, sysPre, active, form>>

(* teardown_picker_confirm() on some restore point.                        *)
Teardown ==
    /\ MayBegin("tui")
    /\ \E cfg \in points :
        /\ Bare => cfg.cores = None
        /\ Started("tui", IF grubPre = None THEN "cleanup" ELSE "unstrip", "restore", cfg)
    /\ applied' = None
    /\ UNCHANGED <<grub, boot, cmdline, live, grubPre, sysPre, active, points, form>>

(* run_daemon(), from "service start", from systemd, or at boot.           *)
DaemonStart ==
    /\ MayBegin("daemon")
    /\ Started("daemon", "sysctl_stat", "boot", IF active = None THEN Default ELSE active)
    /\ applied' = None
    /\ UNCHANGED <<grub, boot, cmdline, live, grubPre, sysPre, active, points, form>>

At(p, step) == proc[p].at = step
Goto(p, step) == proc' = [proc EXCEPT ![p].at = step]

-----------------------------------------------------------------------------
(* benchmon_setup().                                                       *)

(* The saved settings are not looked for.                                  *)
SysctlStat_Always(p) ==
    /\ At(p, "sysctl_stat")
    /\ proc' = [proc EXCEPT ![p].at = "sysctl_open", ![p].seen = live.sysctl]
    /\ UNCHANGED <<grub, boot, cmdline, live, grubPre, sysPre, active, points, form, applied>>

(* capture_sysctl_preconfig(): stat(), and the values now in force.        *)
SysctlStat(p) ==
    /\ At(p, "sysctl_stat")
    /\ IF sysPre # None THEN Goto(p, "grub_stat")
       ELSE proc' = [proc EXCEPT ![p].at = "sysctl_open", ![p].seen = live.sysctl]
    /\ UNCHANGED <<grub, boot, cmdline, live, grubPre, sysPre, active, points, form, applied>>

SysctlOpen(p) ==
    /\ At(p, "sysctl_open")
    /\ sysPre' = Empty
    /\ Goto(p, "sysctl_put")
    /\ UNCHANGED <<grub, boot, cmdline, live, grubPre, active, points, form, applied>>

(* fputs() and fclose(), to a file that another teardown may have removed. *)
SysctlPut(p) ==
    /\ At(p, "sysctl_put")
    /\ sysPre' = IF sysPre = None THEN None ELSE proc[p].seen
    /\ Goto(p, "grub_stat")
    /\ UNCHANGED <<grub, boot, cmdline, live, grubPre, active, points, form, applied>>

(* The saved flags are not looked for.                                     *)
GrubStat_Always(p) ==
    /\ At(p, "grub_stat")
    /\ Goto(p, IF proc[p].cfg.cores = None THEN "smt" ELSE "grub_open")
    /\ UNCHANGED <<grub, boot, cmdline, live, grubPre, sysPre, active, points, form, applied>>

(* setup_grub() does nothing without cores; save_grub_preconfig() saves    *)
(* once.                                                                   *)
GrubStat(p) ==
    /\ At(p, "grub_stat")
    /\ Goto(p, IF proc[p].cfg.cores = None THEN "smt"
               ELSE IF grubPre # None THEN "strip" ELSE "grub_open")
    /\ UNCHANGED <<grub, boot, cmdline, live, grubPre, sysPre, active, points, form, applied>>

GrubOpen(p) ==
    /\ At(p, "grub_open")
    /\ grubPre' = Empty
    /\ Goto(p, "grub_put")
    /\ UNCHANGED <<grub, boot, cmdline, live, sysPre, active, points, form, applied>>

GrubPut(p) ==
    /\ At(p, "grub_put")
    /\ grubPre' = IF grubPre = None THEN None ELSE [f \in Flags |-> cmdline[f]]
    /\ Goto(p, "strip")
    /\ UNCHANGED <<grub, boot, cmdline, live, sysPre, active, points, form, applied>>

(* Flags that have been toggled off stay where they are.                   *)
StripFlags_OnlyWanted(p) ==
    /\ At(p, "strip")
    /\ grub' = Stripped(grub, proc[p].cfg.flags)
    /\ Goto(p, IF AlreadyActive(proc[p].cfg) THEN "smt" ELSE "strip_iso")
    /\ UNCHANGED <<boot, cmdline, live, grubPre, sysPre, active, points, form, applied>>

(* The flags leave /etc/default/grub before anything is decided.           *)
StripFlags(p) ==
    /\ At(p, "strip")
    /\ grub' = Stripped(grub, Flags)
    /\ Goto(p, IF AlreadyActive(proc[p].cfg) THEN "smt" ELSE "strip_iso")
    /\ UNCHANGED <<boot, cmdline, live, grubPre, sysPre, active, points, form, applied>>

StripIsolcpus(p) ==
    /\ At(p, "strip_iso")
    /\ grub' = Stripped(grub, {"isolcpus"})
    /\ Goto(p, "inject")
    /\ UNCHANGED <<boot, cmdline, live, grubPre, sysPre, active, points, form, applied>>

Inject(p) ==
    /\ At(p, "inject")
    /\ grub' = Injected(grub, proc[p].cfg)
    /\ Goto(p, "update")
    /\ UNCHANGED <<boot, cmdline, live, grubPre, sysPre, active, points, form, applied>>

(* The reboot is not asked for.                                            *)
UpdateGrub_NoReboot(p) ==
    /\ At(p, "update")
    /\ boot' = grub \/ ("update" \in Faults /\ boot' = boot)
    /\ Goto(p, "smt")
    /\ UNCHANGED <<grub, cmdline, live, grubPre, sysPre, active, points, form, applied>>

(* The error of a failed update-grub is a message.                         *)
UpdateGrub(p) ==
    /\ At(p, "update")
    /\ boot' = grub \/ ("update" \in Faults /\ boot' = boot)
    /\ proc' = [proc EXCEPT ![p].at = "smt", ![p].reboot = TRUE]
    /\ UNCHANGED <<grub, cmdline, live, grubPre, sysPre, active, points, form, applied>>

(* The settings are tuned whether or not it is asked for.                  *)
Tune_Always(p) ==
    /\ At(p, "tune")
    /\ live' = [live EXCEPT !.sysctl = "tuned"]
    /\ Goto(p, "net")
    /\ UNCHANGED <<grub, boot, cmdline, grubPre, sysPre, active, points, form, applied>>

(* setup_sysctl(): whatever was tuned before stays so.                     *)
Tune(p) ==
    /\ At(p, "tune")
    /\ live' = IF proc[p].cfg.tune THEN [live EXCEPT !.sysctl = "tuned"] ELSE live
    /\ Goto(p, "net")
    /\ UNCHANGED <<grub, boot, cmdline, grubPre, sysPre, active, points, form, applied>>

(* setup_smt(): off already, or switched off.                              *)
SwitchOffSmt(p) ==
    /\ At(p, "smt")
    /\ live' = [live EXCEPT !.smt = @ /\ ~proc[p].cfg.nosmt]
    /\ Goto(p, "swap")
    /\ UNCHANGED <<grub, boot, cmdline, grubPre, sysPre, active, points, form, applied>>

(* The failure is taken for a success.                                     *)
SmtFails_Unnoticed(p) ==
    /\ "smt" \in Faults /\ At(p, "smt") /\ live.smt /\ proc[p].cfg.nosmt
    /\ Goto(p, "swap")
    /\ UNCHANGED <<grub, boot, cmdline, live, grubPre, sysPre, active, points, form, applied>>

(* The kernel does not let SMT be switched off.                            *)
SmtFails(p) ==
    /\ "smt" \in Faults /\ At(p, "smt") /\ live.smt /\ proc[p].cfg.nosmt
    /\ proc' = [proc EXCEPT ![p].at = "swap", ![p].err = TRUE]
    /\ UNCHANGED <<grub, boot, cmdline, live, grubPre, sysPre, active, points, form, applied>>

(* Nobody looks whether swapoff(8) has failed.                             *)
SwapOff(p) ==
    /\ At(p, "swap")
    /\ \/ live' = [live EXCEPT !.swap = @ /\ ~proc[p].cfg.swapoff]
       \/ "swap" \in Faults /\ UNCHANGED live
    /\ Goto(p, "tune")
    /\ UNCHANGED <<grub, boot, cmdline, grubPre, sysPre, active, points, form, applied>>

(* setup_network() removes the namespaces and creates them again, or fails *)
(* before or after that.                                                   *)
Network(p) ==
    LET ns == proc[p].cfg.ns IN
    /\ At(p, "net")
    /\ \/ ns = None /\ Goto(p, "return") /\ UNCHANGED live
       \/ ns # None /\ \E made \in {{}, {ns}}, failed \in BOOLEAN :
            /\ made = {} => failed
            /\ live' = [live EXCEPT !.ns = (@ \ {ns}) \cup made]
            /\ proc' = [proc EXCEPT ![p].at = "return", ![p].err = @ \/ failed]
    /\ UNCHANGED <<grub, boot, cmdline, grubPre, sysPre, active, points, form, applied>>

(* The status: a reboot comes before an error.                             *)
Partial(p) == proc[p].err /\ ~proc[p].reboot

(* Back in the caller: only Apply saves the active config, and only when   *)
(* no reboot is required, failed in part or not.                           *)
Return(p) ==
    LET s == proc[p] IN
    /\ At(p, "return")
    /\ IF s.task = "apply"
       THEN /\ applied' = IF Partial(p) THEN None ELSE [cfg |-> s.cfg, reboot |-> s.reboot]
            /\ active' = IF s.reboot THEN active ELSE s.cfg
       ELSE UNCHANGED <<active, applied>>
    /\ proc' = [proc EXCEPT ![p] = NoProc]
    /\ UNCHANGED <<grub, boot, cmdline, live, grubPre, sysPre, points, form>>

-----------------------------------------------------------------------------
(* benchmon_teardown(), and what run_teardown_inner() adds.                *)

(* restore_grub_cmdline(): the flags leave /etc/default/grub ...           *)
Unstrip(p) ==
    /\ At(p, "unstrip")
    /\ grub' = Stripped(grub, Flags)
    /\ Goto(p, "reinject")
    /\ UNCHANGED <<boot, cmdline, live, grubPre, sysPre, active, points, form, applied>>

(* ... and those that were saved come back; an unreadable value counts as  *)
(* absent.                                                                 *)
Reinject(p) ==
    /\ At(p, "reinject")
    /\ grub' = IF grubPre \in {None, Empty} THEN grub
               ELSE [k \in Params |-> IF k \in Flags /\ grubPre[k] # None
                                       THEN grubPre[k] ELSE grub[k]]
    /\ Goto(p, "regenerate")
    /\ UNCHANGED <<boot, cmdline, live, grubPre, sysPre, active, points, form, applied>>

Regenerate(p) ==
    /\ At(p, "regenerate")
    /\ boot' = grub \/ ("update" \in Faults /\ boot' = boot)
    /\ Goto(p, "forget")
    /\ UNCHANGED <<grub, cmdline, live, grubPre, sysPre, active, points, form, applied>>

Forget(p) ==
    /\ At(p, "forget")
    /\ grubPre' = None
    /\ Goto(p, "cleanup")
    /\ UNCHANGED <<grub, boot, cmdline, live, sysPre, active, points, form, applied>>

(* The restore point says what there is to undo.                           *)
Cleanup_RestorePoint(p) ==
    /\ At(p, "cleanup")
    /\ live' = [live EXCEPT !.ns = @ \ {proc[p].cfg.ns}, !.swap = @ \/ proc[p].cfg.swapoff]
    /\ Goto(p, "untune")
    /\ UNCHANGED <<grub, boot, cmdline, grubPre, sysPre, active, points, form, applied>>

(* The form as it is now, not the config that was applied, says what there *)
(* is to undo.                                                             *)
Cleanup(p) ==
    /\ At(p, "cleanup")
    /\ live' = [live EXCEPT !.ns = @ \ {form.ns}, !.swap = @ \/ form.swapoff]
    /\ Goto(p, "untune")
    /\ UNCHANGED <<grub, boot, cmdline, grubPre, sysPre, active, points, form, applied>>

(* The file is removed without its values having been restored.            *)
Untune_Forgets(p) ==
    /\ At(p, "untune")
    /\ sysPre' = None
    /\ Goto(p, IF proc[p].cfg.cores = None THEN "strip_all" ELSE "sysctl_stat")
    /\ UNCHANGED <<grub, boot, cmdline, live, grubPre, active, points, form, applied>>

(* restore_sysctl_preconfig(): an empty file yields built-in defaults.  A  *)
(* restore point without cores then clears every parameter.                *)
Untune(p) ==
    /\ At(p, "untune")
    /\ live' = [live EXCEPT !.sysctl = IF sysPre = None THEN @
                                       ELSE IF sysPre = Empty THEN "defaults" ELSE sysPre]
    /\ sysPre' = None
    /\ Goto(p, IF proc[p].cfg.cores = None THEN "strip_all" ELSE "sysctl_stat")
    /\ UNCHANGED <<grub, boot, cmdline, grubPre, active, points, form, applied>>

(* sed ... && update-grub, in a shell whose status is not looked at.       *)
StripAll(p) ==
    /\ At(p, "strip_all")
    /\ grub' = Stripped(grub, Params)
    /\ Goto(p, "update_all")
    /\ UNCHANGED <<boot, cmdline, live, grubPre, sysPre, active, points, form, applied>>

UpdateAll(p) ==
    /\ At(p, "update_all")
    /\ boot' = grub \/ ("update" \in Faults /\ boot' = boot)
    /\ Goto(p, "sysctl_stat")
    /\ UNCHANGED <<grub, cmdline, live, grubPre, sysPre, active, points, form, applied>>

-----------------------------------------------------------------------------
(* There is no /etc/default/grub when a step looks for it: setup counts an *)
(* error, a restore forgets the saved flags, sed fails.                    *)

NoGrubFile(p) ==
    /\ "nogrub" \in Faults
    /\ \/ At(p, "strip") /\ UNCHANGED grubPre
          /\ proc' = [proc EXCEPT ![p].at = "smt", ![p].err = TRUE]
       \/ At(p, "unstrip") /\ grubPre' = None /\ Goto(p, "cleanup")
       \/ At(p, "strip_all") /\ UNCHANGED grubPre /\ Goto(p, "sysctl_stat")
    /\ UNCHANGED <<grub, boot, cmdline, live, sysPre, active, points, form, applied>>

-----------------------------------------------------------------------------
(* The machine.                                                            *)

Kill(p) ==
    /\ "kill" \in Faults /\ ~Idle(p)
    /\ proc' = [proc EXCEPT ![p] = NoProc]
    /\ UNCHANGED <<grub, boot, cmdline, live, grubPre, sysPre, active, points, form, applied>>

Reboot ==
    /\ "kill" \in Faults \/ \A p \in Procs : Idle(p)
    /\ cmdline' = boot /\ live' = Fresh /\ form' = Default
    /\ proc' = [p \in Procs |-> NoProc]
    /\ UNCHANGED <<grub, boot, grubPre, sysPre, active, points, applied>>

(* A kernel package is installed.                                          *)
KernelUpdate ==
    /\ KernelUpdates
    /\ boot' = grub
    /\ UNCHANGED <<grub, cmdline, live, grubPre, sysPre, active, points, form, proc, applied>>

Step(p) ==
    \/ SysctlStat(p) \/ SysctlOpen(p) \/ SysctlPut(p)
    \/ GrubStat(p) \/ GrubOpen(p) \/ GrubPut(p)
    \/ StripFlags(p) \/ StripIsolcpus(p) \/ Inject(p) \/ UpdateGrub(p)
    \/ SwitchOffSmt(p) \/ SmtFails(p) \/ SwapOff(p) \/ Tune(p) \/ Network(p) \/ Return(p)
    \/ Unstrip(p) \/ Reinject(p) \/ Regenerate(p) \/ Forget(p) \/ Cleanup(p) \/ Untune(p)
    \/ StripAll(p) \/ UpdateAll(p) \/ NoGrubFile(p)

Next ==
    \/ Edit \/ Apply \/ Teardown \/ DaemonStart \/ Reboot \/ KernelUpdate
    \/ \E p \in Procs : Step(p) \/ Kill(p)

Spec == Init /\ [][Next]_vars

-----------------------------------------------------------------------------
(* Properties.                                                             *)

(* What grub_preconfig.json holds is how the flags were before benchmon    *)
(* first touched them (setup.c:45-49 "BEFORE benchmon ever touches GRUB"). *)
GrubBaseline == grubPre \notin {None, Empty} => \A f \in Flags : grubPre[f] = Original[f]

(* What preconfig_sysctl.json holds is how the settings were before        *)
(* benchmon changed them (setup.c:415 "capture current values before       *)
(* modifying"): no sequence of Apply, Teardown, reboot and daemon start    *)
(* makes a tuned value the baseline.                                       *)
SysctlBaseline == sysPre # "tuned"

(* A teardown that has come to its end without a restore point's tuning    *)
(* leaves no setting tuned, whatever was killed or rebooted before.        *)
TeardownUntunes ==
    \A p \in Procs :
        At(p, "return") /\ proc[p].task = "restore" /\ ~proc[p].cfg.tune => live.sysctl # "tuned"

(* What the form says was switched on or created is gone when a teardown   *)
(* ends, unless the restore point has it as well: swap that a point had is *)
(* back although setup, which runs after the cleanup, never switches it on *)
(* (app.rs:425-470, setup.c:785-805).                                      *)
TeardownUndoesForm ==
    \A p \in Procs :
        LET cfg == proc[p].cfg IN
        At(p, "return") /\ proc[p].task = "restore" =>
            /\ form.ns # cfg.ns => form.ns \notin live.ns
            /\ form.swapoff /\ ~cfg.swapoff => live.swap

(* After an Apply that reported no failure, and that nothing was run       *)
(* after, a reboot brings up a kernel with the isolated cores and the      *)
(* flags that were asked for and, if it was the Apply that asked for the   *)
(* reboot, without a flag that was toggled off (setup.c:228-303).          *)
LastApplyHolds ==
    [][Reboot /\ applied # None /\ applied.cfg.cores # None =>
        LET wanted == applied.cfg.flags \cup {"isolcpus"} IN
        /\ \A k \in wanted : cmdline'[k] = applied.cfg.cores
        /\ applied.reboot => \A k \in Params \ wanted : cmdline'[k] = None]_vars

(* A setup that was to isolate cores and switch SMT off, and that returns  *)
(* BENCHMON_OK, neither asking for a reboot nor reporting an error, leaves *)
(* a machine that passes the verification that follows, whichever of its   *)
(* steps have failed (setup.c:763-765, tabs/setup.rs:586, verify.c:148-176).*)
SetupPasses ==
    \A p \in Procs :
        LET s == proc[p] IN
        At(p, "return") /\ s.cfg.cores # None /\ s.cfg.nosmt /\ ~s.reboot /\ ~s.err => Passed

(* The flags name the same cores as isolcpus, or nothing, in what boots    *)
(* next and in what an update-grub by anybody else would pick up, although *)
(* they are written, stripped and restored apart (setup.c:145-200,         *)
(* 206-304).                                                               *)
FlagsMatchIsolcpus ==
    \A params \in {grub, boot} : \A f \in Flags : params[f] \in {None, params["isolcpus"]}

(* An Apply that ends without asking for a reboot leaves the parameters    *)
(* where the next kernel will look for them (setup.c:4 "Each sub-step is   *)
(* idempotent"; benchmon.h:140-141).                                       *)
SetupIsIdempotent ==
    \A p \in Procs :
        At(p, "return") /\ proc[p].cfg.cores # None =>
            \A f \in proc[p].cfg.flags : grub[f] = proc[p].cfg.cores

=============================================================================
