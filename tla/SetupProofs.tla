------------------------------ MODULE SetupProofs ------------------------------
(***************************************************************************)
(* Theorems about Setup, for any lists, flags, forms and restore points.   *)
(***************************************************************************)
EXTENDS Setup, TLAPS

Values == Lists \cup {None}
Caller == [at : Steps, task : Tasks, cfg : Config, seen : Sysctls, reboot : BOOLEAN,
           err : BOOLEAN]
Settings == [sysctl : Sysctls, swap : BOOLEAN, smt : BOOLEAN, ns : SUBSET Names]
Ended == [cfg : Config, reboot : BOOLEAN]

LEMMA ParamsTyped ==
    ASSUME NEW params \in [Params -> Values], NEW names, NEW cfg \in Config
    PROVE  /\ Stripped(params, names) \in [Params -> Values]
           /\ Injected(params, cfg) \in [Params -> Values]
  BY DEF Stripped, Injected, Values, Config

LEMMA CapturedTyped == ASSUME TypeOK PROVE Captured \in Config
<1>1. cmdline["isolcpus"] \in Lists \cup {None}
  BY DEF TypeOK, Params
<1> QED
  BY <1>1, SetupAssumption DEF TypeOK, Captured, Config

(* The record of the caller at a step.                                     *)
LEMMA MovedTyped ==
    ASSUME proc \in [Procs -> Caller], NEW p \in Procs, NEW step \in Steps, Goto(p, step)
    PROVE  /\ proc' \in [Procs -> Caller]
           /\ proc'[p] = [proc[p] EXCEPT !.at = step]
           /\ \A q \in Procs \ {p} : proc'[q] = proc[q]
<1>1. [proc[p] EXCEPT !.at = step] \in Caller
  BY DEF Caller
<1> QED
  BY <1>1 DEF Goto

LEMMA NoProcTyped == NoProc \in Caller
  BY SetupAssumption DEF NoProc, Caller, Steps, Tasks, Sysctls

LEMMA StartedTyped ==
    ASSUME proc \in [Procs -> Caller], NEW p \in Procs, NEW at \in Steps, NEW task \in Tasks,
           NEW cfg \in Config, Started(p, at, task, cfg)
    PROVE  /\ proc' \in [Procs -> Caller]
           /\ proc'[p].at = at /\ proc'[p].task = task /\ proc'[p].cfg = cfg
           /\ ~proc'[p].reboot /\ ~proc'[p].err
           /\ \A q \in Procs \ {p} : proc'[q] = proc[q]
<1>1. [NoProc EXCEPT !.at = at, !.task = task, !.cfg = cfg] \in Caller
  BY NoProcTyped DEF Caller
<1> QED
  BY <1>1 DEF Started, NoProc

LEMMA InitTyped == Init => TypeOK
<1> SUFFICES ASSUME Init PROVE TypeOK
  OBVIOUS
<1>1. Fresh \in Settings
  BY DEF Fresh, Settings, Sysctls
<1>2. proc \in [Procs -> Caller]
  BY NoProcTyped DEF Init
<1> QED
  BY <1>1, <1>2, SetupAssumption DEF Init, TypeOK, Caller, Settings

LEMMA StepTyped ==
    ASSUME TypeOK, NEW p \in Procs, Step(p)
    PROVE  TypeOK'
<1> USE DEF Values, Settings
<1>t. /\ proc \in [Procs -> Caller] /\ proc[p] \in Caller
      /\ {grub, boot, cmdline} \subseteq [Params -> Values]
      /\ grubPre \in {None, Empty} \cup [Flags -> Values] /\ sysPre \in {None, Empty} \cup Sysctls
  BY DEF TypeOK, Caller
<1>m. ASSUME NEW step \in Steps, Goto(p, step) PROVE proc' \in [Procs -> Caller]
  BY <1>t, <1>m, MovedTyped
<1>s. Steps = {"idle", "unstrip", "reinject", "regenerate", "forget", "cleanup", "untune",
          "strip_all", "update_all", "sysctl_stat", "sysctl_open", "sysctl_put", "grub_stat",
          "grub_open", "grub_put", "strip", "strip_iso", "inject", "update", "smt", "swap",
          "tune", "net", "return"}
  BY DEF Steps
<1>1. CASE SysctlStat(p)
  <2>1. ASSUME proc' = [proc EXCEPT ![p].at = "sysctl_open", ![p].seen = live.sysctl]
        PROVE  proc' \in [Procs -> Caller]
    <3>1. [proc[p] EXCEPT !.at = "sysctl_open", !.seen = live.sysctl] \in Caller
      BY <1>t, <1>s DEF TypeOK, Caller
    <3> QED
      BY <1>t, <2>1, <3>1
  <2> QED
    BY <1>1, <1>m, <1>s, <2>1 DEF SysctlStat, TypeOK, Caller
<1>2. CASE SysctlOpen(p)
  BY <1>2, <1>m, <1>s DEF SysctlOpen, TypeOK, Caller
<1>3. CASE SysctlPut(p)
  <2>1. proc[p].seen \in Sysctls
    BY <1>t DEF Caller
  <2> QED
    BY <1>3, <1>m, <1>s, <2>1 DEF SysctlPut, TypeOK, Caller
<1>4. CASE GrubStat(p)
  BY <1>4, <1>m, <1>s DEF GrubStat, TypeOK, Caller
<1>5. CASE GrubOpen(p)
  BY <1>5, <1>m, <1>s DEF GrubOpen, TypeOK, Caller
<1>6. CASE GrubPut(p)
  <2>1. [f \in Flags |-> cmdline[f]] \in [Flags -> Values]
    BY <1>t DEF Params
  <2> QED
    BY <1>6, <1>m, <1>s, <2>1 DEF GrubPut, TypeOK, Caller
<1>7. CASE StripFlags(p)
  <2>1. Stripped(grub, Flags) \in [Params -> Values]
    BY <1>t, ParamsTyped, SetupAssumption
  <2> QED
    BY <1>7, <1>m, <1>s, <2>1 DEF StripFlags, TypeOK, Caller
<1>8. CASE StripIsolcpus(p)
  <2>1. Stripped(grub, {"isolcpus"}) \in [Params -> Values]
    BY <1>t, ParamsTyped, SetupAssumption
  <2> QED
    BY <1>8, <1>m, <1>s, <2>1 DEF StripIsolcpus, TypeOK, Caller
<1>9. CASE Inject(p)
  <2>1. Injected(grub, proc[p].cfg) \in [Params -> Values]
    BY <1>t, ParamsTyped DEF Caller
  <2> QED
    BY <1>9, <1>m, <1>s, <2>1 DEF Inject, TypeOK, Caller
<1>10. CASE UpdateGrub(p)
  <2>1. [proc[p] EXCEPT !.at = "smt", !.reboot = TRUE] \in Caller
    BY <1>t, <1>s DEF Caller
  <2>2. proc' \in [Procs -> Caller]
    BY <1>t, <1>10, <2>1 DEF UpdateGrub
  <2> QED
    BY <1>10, <2>2 DEF UpdateGrub, TypeOK, Caller
<1>11. CASE SwitchOffSmt(p) \/ SwapOff(p) \/ Tune(p)
  <2>1. proc[p].cfg \in Config
    BY <1>t DEF Caller
  <2>2. live' \in Settings
    <3>1. CASE SwitchOffSmt(p)
      BY <2>1, <3>1 DEF SwitchOffSmt, TypeOK, Config
    <3>2. CASE SwapOff(p)
      BY <2>1, <3>2 DEF SwapOff, TypeOK, Config
    <3>3. CASE Tune(p)
      BY <2>1, <3>3 DEF Tune, TypeOK, Config, Sysctls
    <3> QED
      BY <1>11, <3>1, <3>2, <3>3
  <2>3. \E step \in {"swap", "tune", "net"} : Goto(p, step)
    BY <1>11 DEF SwitchOffSmt, SwapOff, Tune
  <2>4. proc' \in [Procs -> Caller]
    BY <1>m, <1>s, <2>3
  <2>5. UNCHANGED <<grub, boot, cmdline, grubPre, sysPre, active, points, form, applied>>
    BY <1>11 DEF SwitchOffSmt, SwapOff, Tune
  <2> QED
    BY <2>2, <2>4, <2>5 DEF TypeOK, Caller
<1>12. CASE Network(p)
  <2>1. proc[p].cfg.ns \in Names \cup {None}
    BY <1>t DEF Caller, Config
  <2>2. ASSUME NEW made \in {{}, {proc[p].cfg.ns}}, proc[p].cfg.ns # None
        PROVE  [live EXCEPT !.ns = (@ \ {proc[p].cfg.ns}) \cup made] \in
                 Settings
    BY <2>1, <2>2 DEF TypeOK
  <2>3. live' \in Settings
    BY <1>12, <2>2 DEF Network, TypeOK
  <2>4. ASSUME NEW failed \in BOOLEAN
        PROVE  [proc[p] EXCEPT !.at = "return", !.err = @ \/ failed] \in Caller
    BY <1>t, <1>s DEF Caller
  <2>5. proc' \in [Procs -> Caller]
    <3>1. CASE Goto(p, "return")
      BY <1>m, <1>s, <3>1
    <3>2. CASE \E failed \in BOOLEAN :
                  proc' = [proc EXCEPT ![p].at = "return", ![p].err = @ \/ failed]
      BY <1>t, <2>4, <3>2
    <3> QED
      BY <1>12, <3>1, <3>2 DEF Network
  <2> QED
    BY <1>12, <2>3, <2>5 DEF Network, TypeOK, Caller
<1>13. CASE Return(p)
  <2>1. proc' \in [Procs -> Caller]
    BY <1>13, <1>t, NoProcTyped DEF Return
  <2>2. active' \in {None} \cup Config /\ applied' \in {None} \cup Ended
    BY <1>13, <1>t DEF Return, TypeOK, Caller, Ended
  <2> QED
    BY <1>13, <2>1, <2>2 DEF Return, TypeOK, Caller, Ended
<1>14. CASE Unstrip(p) \/ Reinject(p)
  <2>1. grub' \in [Params -> Values]
    <3>1. Stripped(grub, Flags) \in [Params -> Values]
      BY <1>t, ParamsTyped, SetupAssumption
    <3>2. ASSUME grubPre \notin {None, Empty}
          PROVE  [k \in Params |-> IF k \in Flags /\ grubPre[k] # None THEN grubPre[k] ELSE grub[k]]
                   \in [Params -> Values]
      BY <1>t, <3>2
    <3> QED
      BY <1>14, <1>t, <3>1, <3>2 DEF Unstrip, Reinject
  <2>2. \E step \in {"reinject", "regenerate"} : Goto(p, step)
    BY <1>14 DEF Unstrip, Reinject
  <2>3. proc' \in [Procs -> Caller]
    BY <1>m, <1>s, <2>2
  <2>4. UNCHANGED <<boot, cmdline, live, grubPre, sysPre, active, points, form, applied>>
    BY <1>14 DEF Unstrip, Reinject
  <2> QED
    BY <2>1, <2>3, <2>4 DEF TypeOK, Caller
<1>15. CASE Regenerate(p)
  BY <1>15, <1>m, <1>s DEF Regenerate, TypeOK, Caller
<1>16. CASE Forget(p)
  BY <1>16, <1>m, <1>s DEF Forget, TypeOK, Caller
<1>17. CASE Cleanup(p)
  <2>1. live' \in Settings
    BY <1>17 DEF Cleanup, TypeOK, Config
  <2> QED
    BY <1>17, <1>m, <1>s, <2>1 DEF Cleanup, TypeOK, Caller
<1>18. CASE Untune(p)
  <2>1. live' \in Settings
    BY <1>18 DEF Untune, TypeOK, Sysctls
  <2> QED
    BY <1>18, <1>m, <1>s, <2>1 DEF Untune, TypeOK, Caller
<1>19. CASE StripAll(p)
  <2>1. Stripped(grub, Params) \in [Params -> Values]
    BY <1>t, ParamsTyped, SetupAssumption
  <2> QED
    BY <1>19, <1>m, <1>s, <2>1 DEF StripAll, TypeOK, Caller
<1>20. CASE UpdateAll(p)
  BY <1>20, <1>m, <1>s DEF UpdateAll, TypeOK, Caller
<1>21. CASE SmtFails(p)
  <2>1. [proc[p] EXCEPT !.at = "swap", !.err = TRUE] \in Caller
    BY <1>t, <1>s DEF Caller
  <2>2. proc' \in [Procs -> Caller]
    BY <1>t, <1>21, <2>1 DEF SmtFails
  <2> QED
    BY <1>21, <2>2 DEF SmtFails, TypeOK, Caller
<1>22. CASE NoGrubFile(p)
  <2>1. [proc[p] EXCEPT !.at = "smt", !.err = TRUE] \in Caller
    BY <1>t, <1>s DEF Caller
  <2>2. proc' \in [Procs -> Caller]
    BY <1>t, <1>m, <1>s, <1>22, <2>1 DEF NoGrubFile
  <2>3. grubPre' \in {None, Empty} \cup [Flags -> Values]
    BY <1>22, <1>t DEF NoGrubFile
  <2> QED
    BY <1>22, <2>2, <2>3 DEF NoGrubFile, TypeOK, Caller
<1> QED
  BY <1>1, <1>2, <1>3, <1>4, <1>5, <1>6, <1>7, <1>8, <1>9, <1>10, <1>11, <1>12, <1>13,
     <1>14, <1>15, <1>16, <1>17, <1>18, <1>19, <1>20, <1>21, <1>22 DEF Step

LEMMA NextTyped == TypeOK /\ [Next]_vars => TypeOK'
<1> SUFFICES ASSUME TypeOK, [Next]_vars PROVE TypeOK'
  OBVIOUS
<1>t. proc \in [Procs -> Caller]
  BY DEF TypeOK, Caller
<1>1. CASE Edit
  BY <1>1, SetupAssumption DEF Edit, TypeOK
<1>2. CASE Apply
  <2>1. proc' \in [Procs -> Caller]
    BY <1>2, <1>t, StartedTyped DEF Apply, MayBegin, TypeOK, Steps, Tasks
  <2> QED
    BY <1>2, <2>1, CapturedTyped DEF Apply, TypeOK, Caller
<1>3. CASE Teardown
  <2>1. proc' \in [Procs -> Caller]
    BY <1>3, <1>t, StartedTyped DEF Teardown, MayBegin, TypeOK, Steps, Tasks
  <2> QED
    BY <1>3, <2>1 DEF Teardown, TypeOK, Caller
<1>4. CASE DaemonStart
  <2>1. (IF active = None THEN Default ELSE active) \in Config
    BY SetupAssumption DEF TypeOK
  <2>2. proc' \in [Procs -> Caller]
    BY <1>4, <1>t, <2>1, StartedTyped DEF DaemonStart, MayBegin, Steps, Tasks
  <2> QED
    BY <1>4, <2>2 DEF DaemonStart, TypeOK, Caller
<1>5. CASE Reboot
  <2>1. proc' \in [Procs -> Caller] /\ Fresh \in Settings
    BY <1>5, NoProcTyped DEF Reboot, Fresh, Sysctls, Settings
  <2> QED
    BY <1>5, <2>1, SetupAssumption DEF Reboot, TypeOK, Caller, Settings
<1>6. CASE KernelUpdate
  BY <1>6 DEF KernelUpdate, TypeOK
<1>7. ASSUME NEW p \in Procs, Kill(p) PROVE TypeOK'
  <2>1. proc' \in [Procs -> Caller]
    BY <1>7, <1>t, NoProcTyped DEF Kill
  <2> QED
    BY <1>7, <2>1 DEF Kill, TypeOK, Caller
<1>8. CASE UNCHANGED vars
  BY <1>8 DEF vars, TypeOK
<1> QED
  BY <1>1, <1>2, <1>3, <1>4, <1>5, <1>6, <1>7, <1>8, StepTyped DEF Next

(* Every reachable state of the machine and its files is well typed.       *)
THEOREM Typed == Spec => []TypeOK
  BY InitTyped, NextTyped, PTL DEF Spec

-----------------------------------------------------------------------------
(* What a step of one caller does to the callers, and that under Serial the*)
(* others are idle.                                                        *)

Alone == \A p, q \in Procs : Idle(p) \/ Idle(q) \/ p = q

LEMMA Moved ==
    ASSUME TypeOK, NEW p \in Procs, Step(p)
    PROVE  /\ ~Idle(p)
           /\ \A q \in Procs \ {p} : proc'[q] = proc[q]
<1>t. proc \in [Procs -> Caller]
  BY DEF TypeOK, Caller
<1> QED
  BY <1>t DEF Step, Idle, At, Goto, SysctlStat, SysctlOpen, SysctlPut, GrubStat, GrubOpen,
     GrubPut, StripFlags, StripIsolcpus, Inject, UpdateGrub, SwitchOffSmt, SmtFails, SwapOff,
     Tune, Network, Return, Unstrip, Reinject, Regenerate, Forget, Cleanup, Untune, StripAll,
     UpdateAll, NoGrubFile

LEMMA AloneInit == Init => Alone
  BY DEF Init, Alone, Idle, NoProc

LEMMA AloneStep ==
    ASSUME Serial, TypeOK, Alone, [Next]_vars
    PROVE  Alone'
<1>t. proc \in [Procs -> Caller]
  BY DEF TypeOK, Caller
<1>1. ASSUME NEW p \in Procs, \A q \in Procs \ {p} : Idle(q),
             \A q \in Procs \ {p} : proc'[q] = proc[q]
      PROVE  Alone'
  BY <1>1 DEF Alone, Idle
<1>2. ASSUME NEW p \in Procs, Step(p) PROVE Alone'
  BY <1>1, <1>2, Moved DEF Alone
<1>3. ASSUME NEW p \in Procs, Kill(p) PROVE Alone'
  BY <1>t, <1>1, <1>3 DEF Alone, Kill
<1>4. ASSUME Apply \/ Teardown \/ DaemonStart PROVE Alone'
  <2>1. PICK p \in Procs : MayBegin(p) /\ \E r : proc' = [proc EXCEPT ![p] = r]
    BY <1>4 DEF Apply, Teardown, DaemonStart, MayBegin, Started
  <2> QED
    BY <1>t, <1>1, <2>1 DEF MayBegin
<1>5. CASE Reboot
  BY <1>5 DEF Reboot, Alone, Idle, NoProc
<1>6. CASE UNCHANGED proc
  BY <1>6 DEF Alone, Idle
<1>7. ASSUME Edit \/ KernelUpdate \/ UNCHANGED vars PROVE UNCHANGED proc
  BY <1>7 DEF Edit, KernelUpdate, vars
<1> QED
  BY <1>2, <1>3, <1>4, <1>5, <1>6, <1>7 DEF Next

-----------------------------------------------------------------------------
(* Runtime settings.                                                       *)

(* A caller of benchmon_setup() past capture_sysctl_preconfig().           *)
Captive == {"grub_stat", "grub_open", "grub_put", "strip", "strip_iso", "inject", "update",
            "smt", "swap", "tune"}

(* A restore past benchmon_teardown().                                     *)
Undone == {"strip_all", "update_all", "sysctl_stat", "sysctl_open", "sysctl_put"} \cup Captive
            \cup {"net", "return"}

SettingsOf(p) ==
    LET s == proc[p] IN
    /\ s.at \in {"sysctl_open", "sysctl_put"} => s.seen # "tuned"
    /\ s.at = "sysctl_put" \/ s.at \in Captive => sysPre # None
    /\ s.task = "restore" /\ s.at \in Undone /\ (~s.cfg.tune \/ s.at \in {"strip_all", "update_all", "sysctl_stat"})
         => live.sysctl # "tuned"

SettingsInv ==
    /\ sysPre # "tuned"
    /\ sysPre = None => live.sysctl # "tuned"
    /\ \A p \in Procs : SettingsOf(p)

LEMMA SettingsStep ==
    ASSUME Serial, TypeOK, TypeOK', Alone, SettingsInv, [Next]_vars
    PROVE  SettingsInv'
<1>t. proc \in [Procs -> Caller] /\ sysPre \in {None, Empty} \cup Sysctls
  BY DEF TypeOK, Caller
<1>1. ASSUME NEW p \in Procs, Step(p) PROVE SettingsInv'
  <2>m. /\ \A q \in Procs \ {p} : proc'[q] = proc[q] /\ proc[q].at = "idle"
        /\ proc[p] \in Caller
    BY <1>1, <1>t, Moved DEF Alone, Idle
  <2>o. SettingsOf(p) /\ \A q \in Procs \ {p} : SettingsOf(q)'
    BY <2>m DEF SettingsInv, SettingsOf, Captive, Undone
  <2>g. ASSUME NEW step, Goto(p, step)
        PROVE  /\ proc'[p].at = step /\ proc'[p].task = proc[p].task
               /\ proc'[p].cfg = proc[p].cfg /\ proc'[p].seen = proc[p].seen
    BY <1>t, <2>g, <2>m DEF Goto, Caller
  <2>q. ASSUME sysPre' # "tuned", sysPre' = None => live'.sysctl # "tuned", SettingsOf(p)'
        PROVE  SettingsInv'
    BY <2>o, <2>q DEF SettingsInv
  <2>i. sysPre # "tuned" /\ (sysPre = None => live.sysctl # "tuned")
    BY DEF SettingsInv
  <2>a. "tuned" # None /\ Empty # "tuned" /\ None \notin Sysctls /\ None # Empty
    BY SetupAssumption DEF Sysctls
  <2>1. CASE SysctlStat(p)
    <3>1. UNCHANGED <<live, sysPre>> /\ proc[p].at = "sysctl_stat"
      BY <2>1 DEF SysctlStat, At
    <3>2. CASE sysPre # None /\ Goto(p, "grub_stat")
      BY <3>1, <3>2, <2>g, <2>o, <2>i, <2>q DEF SettingsOf, Captive, Undone
    <3>3. CASE sysPre = None /\ proc' = [proc EXCEPT ![p].at = "sysctl_open", ![p].seen = live.sysctl]
      <4>1. /\ proc'[p].at = "sysctl_open" /\ proc'[p].task = proc[p].task
            /\ proc'[p].cfg = proc[p].cfg /\ proc'[p].seen = live.sysctl
        BY <1>t, <3>3, <2>m DEF Caller
      <4> QED
        BY <3>1, <3>3, <4>1, <2>o, <2>i, <2>q DEF SettingsOf, Captive, Undone
    <3> QED
      BY <2>1, <3>2, <3>3 DEF SysctlStat
  <2>2. CASE SysctlOpen(p)
    <3>1. /\ live' = live /\ sysPre' = Empty /\ proc[p].at = "sysctl_open"
          /\ Goto(p, "sysctl_put")
      BY <2>2 DEF SysctlOpen, At
    <3> QED
      BY <3>1, <2>a, <2>g, <2>o, <2>i, <2>q DEF SettingsOf, Captive, Undone
  <2>3. CASE SysctlPut(p)
    <3>1. /\ live' = live /\ proc[p].at = "sysctl_put" /\ Goto(p, "grub_stat")
          /\ sysPre' = IF sysPre = None THEN None ELSE proc[p].seen
      BY <2>3 DEF SysctlPut, At
    <3>2. sysPre # None /\ proc[p].seen # "tuned" /\ proc[p].seen \in Sysctls
      BY <3>1, <2>o, <2>m DEF SettingsOf, Caller
    <3> QED
      BY <3>1, <3>2, <2>a, <2>g, <2>o, <2>i, <2>q DEF SettingsOf, Captive, Undone
  <2>4. CASE \/ GrubStat(p) \/ GrubOpen(p) \/ GrubPut(p) \/ StripFlags(p) \/ StripIsolcpus(p)
             \/ Inject(p)
    <3>1. /\ UNCHANGED <<live, sysPre>> /\ proc[p].at \in Captive
          /\ \E step \in Captive \ {"grub_stat"} : Goto(p, step)
      BY <2>4 DEF GrubStat, GrubOpen, GrubPut, StripFlags, StripIsolcpus, Inject, At, Captive
    <3> QED
      BY <3>1, <2>g, <2>o, <2>i, <2>q DEF SettingsOf, Captive, Undone
  <2>5. CASE UpdateGrub(p)
    <3>1. /\ UNCHANGED <<live, sysPre>> /\ proc[p].at = "update"
          /\ proc' = [proc EXCEPT ![p].at = "smt", ![p].reboot = TRUE]
      BY <2>5 DEF UpdateGrub, At
    <3>2. /\ proc'[p].at = "smt" /\ proc'[p].task = proc[p].task
          /\ proc'[p].cfg = proc[p].cfg /\ proc'[p].seen = proc[p].seen
      BY <1>t, <3>1, <2>m DEF Caller
    <3> QED
      BY <3>1, <3>2, <2>o, <2>i, <2>q DEF SettingsOf, Captive, Undone
  <2>6. CASE Tune(p)
    <3>1. /\ sysPre' = sysPre /\ proc[p].at = "tune" /\ Goto(p, "net")
          /\ live'.sysctl = IF proc[p].cfg.tune THEN "tuned" ELSE live.sysctl
      BY <2>6 DEF Tune, At, TypeOK
    <3> QED
      BY <3>1, <2>g, <2>o, <2>i, <2>q DEF SettingsOf, Captive, Undone
  <2>7. CASE Network(p) \/ SwitchOffSmt(p) \/ SmtFails(p) \/ SwapOff(p)
    <3>1. /\ live'.sysctl = live.sysctl /\ sysPre' = sysPre
          /\ \/ proc[p].at = "net" /\ proc'[p].at = "return"
             \/ proc[p].at \in {"smt", "swap"} /\ proc'[p].at \in {"swap", "tune"}
      BY <2>7, <1>t, <2>m DEF Network, SwitchOffSmt, SmtFails, SwapOff, TypeOK, At, Goto, Caller
    <3>2. proc'[p].task = proc[p].task /\ proc'[p].cfg = proc[p].cfg
      BY <2>7, <1>t, <2>m DEF Network, SwitchOffSmt, SmtFails, SwapOff, Goto, Caller
    <3> QED
      BY <3>1, <3>2, <2>o, <2>i, <2>q DEF SettingsOf, Captive, Undone
  <2>8. CASE Return(p)
    <3>1. UNCHANGED <<live, sysPre>> /\ proc'[p] = NoProc
      BY <2>8, <1>t DEF Return
    <3> QED
      BY <3>1, <2>i, <2>q DEF NoProc, SettingsOf, Captive, Undone
  <2>9. CASE Unstrip(p) \/ Reinject(p) \/ Regenerate(p) \/ Forget(p)
    <3>1. /\ UNCHANGED <<live, sysPre>>
          /\ \E step \in {"reinject", "regenerate", "forget", "cleanup"} : Goto(p, step)
      BY <2>9 DEF Unstrip, Reinject, Regenerate, Forget
    <3> QED
      BY <3>1, <2>g, <2>i, <2>q DEF SettingsOf, Captive, Undone
  <2>10. CASE Cleanup(p)
    <3>1. live'.sysctl = live.sysctl /\ sysPre' = sysPre /\ Goto(p, "untune")
      BY <2>10 DEF Cleanup, TypeOK
    <3> QED
      BY <3>1, <2>g, <2>i, <2>q DEF SettingsOf, Captive, Undone
  <2>11. CASE Untune(p)
    <3>1. live'.sysctl # "tuned" /\ sysPre' = None
      BY <2>11, <2>i DEF Untune, TypeOK
    <3>2. \E step \in {"strip_all", "sysctl_stat"} : Goto(p, step)
      BY <2>11 DEF Untune
    <3> QED
      BY <3>1, <3>2, <2>a, <2>g, <2>q DEF SettingsOf, Captive, Undone
  <2>12. CASE StripAll(p) \/ UpdateAll(p)
    <3>1. /\ UNCHANGED <<live, sysPre>> /\ proc[p].at \in {"strip_all", "update_all"}
          /\ \E step \in {"update_all", "sysctl_stat"} : Goto(p, step)
      BY <2>12 DEF StripAll, UpdateAll, At
    <3> QED
      BY <3>1, <2>g, <2>o, <2>i, <2>q DEF SettingsOf, Captive, Undone
  <2>13. CASE NoGrubFile(p)
    <3>1. /\ UNCHANGED <<live, sysPre>>
          /\ \/ proc[p].at = "strip" /\ proc'[p].at = "smt"
             \/ proc[p].at = "unstrip" /\ proc'[p].at = "cleanup"
             \/ proc[p].at = "strip_all" /\ proc'[p].at = "sysctl_stat"
      BY <2>13, <1>t, <2>m DEF NoGrubFile, At, Goto, Caller
    <3>2. proc'[p].task = proc[p].task /\ proc'[p].cfg = proc[p].cfg
      BY <2>13, <1>t, <2>m DEF NoGrubFile, Goto, Caller
    <3> QED
      BY <3>1, <3>2, <2>o, <2>i, <2>q DEF SettingsOf, Captive, Undone
  <2> QED
    BY <1>1, <2>1, <2>2, <2>3, <2>4, <2>5, <2>6, <2>7, <2>8, <2>9, <2>10, <2>11, <2>12, <2>13
       DEF Step
<1>2. ASSUME NEW p \in Procs, Kill(p) PROVE SettingsInv'
  BY <1>2, <1>t DEF Kill, NoProc, SettingsInv, SettingsOf, Captive, Undone
<1>3. CASE Apply \/ DaemonStart
  <2>1. PICK p \in Procs : \E cfg, task : task # "restore" /\ Started(p, "sysctl_stat", task, cfg)
    BY <1>3 DEF Apply, DaemonStart, MayBegin
  <2>2. proc'[p].at = "sysctl_stat" /\ proc'[p].task # "restore" /\ \A q \in Procs \ {p} : proc'[q] = proc[q]
    BY <1>t, <2>1 DEF Started, NoProc
  <2> QED
    BY <1>3, <2>2 DEF Apply, DaemonStart, SettingsInv, SettingsOf, Captive, Undone
<1>4. CASE Teardown
  <2>1. /\ "tui" \in Procs /\ proc'["tui"].at \in {"cleanup", "unstrip"}
        /\ \A q \in Procs \ {"tui"} : proc'[q] = proc[q]
    BY <1>4, <1>t DEF Teardown, MayBegin, Started, NoProc
  <2> QED
    BY <1>4, <2>1 DEF Teardown, SettingsInv, SettingsOf, Captive, Undone
<1>5. CASE Reboot
  BY <1>5 DEF Reboot, Fresh, NoProc, SettingsInv, SettingsOf, Captive, Undone
<1>6. CASE Edit \/ KernelUpdate \/ UNCHANGED vars
  BY <1>6 DEF Edit, KernelUpdate, vars, SettingsInv, SettingsOf
<1> QED
  BY <1>1, <1>2, <1>3, <1>4, <1>5, <1>6 DEF Next

LEMMA SettingsAlways == ASSUME Serial PROVE Spec => []SettingsInv
<1>1. Init => SettingsInv
  <2>1. Init => \A p \in Procs : proc[p].at = "idle"
    BY DEF Init, NoProc
  <2>2. None # "tuned"
    BY SetupAssumption
  <2> QED
    BY <2>1, <2>2 DEF Init, Fresh, SettingsInv, SettingsOf, Captive, Undone
<1> QED
  BY <1>1, AloneInit, AloneStep, SettingsStep, InitTyped, NextTyped, PTL DEF Spec

(* No sequence of Apply, Teardown, reboot, crash and daemon start, one at a*)
(* time, makes a tuned value the baseline (setup.c:415-461).               *)
THEOREM SysctlsSaved == ASSUME Serial PROVE Spec => []SysctlBaseline
<1>1. SettingsInv => SysctlBaseline
  BY DEF SettingsInv, SysctlBaseline
<1> QED
  BY <1>1, SettingsAlways, PTL

(* A teardown that has come to its end has undone the tuning, whatever was *)
(* killed, rebooted or failed before (setup.c:463-520, app.rs:419-471).    *)
THEOREM Untunes == ASSUME Serial PROVE Spec => []TeardownUntunes
<1>1. SettingsInv => TeardownUntunes
  BY DEF SettingsInv, SettingsOf, TeardownUntunes, At, Undone
<1> QED
  BY <1>1, SettingsAlways, PTL

-----------------------------------------------------------------------------
(* What a teardown takes from the form; and what a setup has verified.     *)

(* A restore past the cleanup of benchmon_teardown().                      *)
Cleaned == {"untune"} \cup Undone

FormOf(p) ==
    LET s == proc[p] IN
    s.task = "restore" /\ s.at # "idle" =>
        /\ p = "tui"
        /\ s.at \in Cleaned =>
             /\ form.ns # s.cfg.ns => form.ns \notin live.ns
             /\ form.swapoff /\ ~s.cfg.swapoff => live.swap

FormInv == \A p \in Procs : FormOf(p)

LEMMA FormStep ==
    ASSUME TypeOK, TypeOK', Alone, FormInv, [Next]_vars
    PROVE  FormInv'
<1>t. proc \in [Procs -> Caller]
  BY DEF TypeOK, Caller
<1>1. ASSUME NEW p \in Procs, Step(p) PROVE FormInv'
  <2>m. /\ \A q \in Procs \ {p} : proc'[q] = proc[q] /\ proc[q].at = "idle"
        /\ proc[p] \in Caller /\ proc[p].at # "idle"
    BY <1>1, <1>t, Moved DEF Alone, Idle
  <2>o. FormOf(p) /\ \A q \in Procs \ {p} : FormOf(q)'
    BY <2>m DEF FormInv, FormOf
  <2>g. ASSUME NEW step, Goto(p, step)
        PROVE  /\ proc'[p].at = step /\ proc'[p].task = proc[p].task /\ proc'[p].cfg = proc[p].cfg
    BY <1>t, <2>g, <2>m DEF Goto, Caller
  <2>q. ASSUME FormOf(p)' PROVE FormInv'
    BY <2>o, <2>q DEF FormInv
  <2>1. CASE SysctlStat(p)
    <3>1. /\ UNCHANGED <<live, form>> /\ proc[p].at \in Cleaned
          /\ proc'[p].task = proc[p].task /\ proc'[p].cfg = proc[p].cfg
      BY <2>1, <1>t, <2>m DEF SysctlStat, At, Goto, Caller, Cleaned, Undone
    <3> QED
      BY <3>1, <2>m, <2>o, <2>q DEF FormOf
  <2>2. CASE \/ SysctlOpen(p) \/ SysctlPut(p) \/ GrubStat(p) \/ GrubOpen(p) \/ GrubPut(p)
             \/ StripFlags(p) \/ StripIsolcpus(p) \/ Inject(p) \/ Untune(p) \/ StripAll(p)
             \/ UpdateAll(p) \/ SwitchOffSmt(p) \/ Tune(p)
    <3>1. /\ live'.ns = live.ns /\ live'.swap = live.swap /\ form' = form
          /\ proc[p].at \in Cleaned /\ \E step : Goto(p, step)
      BY <2>2 DEF SysctlOpen, SysctlPut, GrubStat, GrubOpen, GrubPut, StripFlags, StripIsolcpus,
         Inject, Untune, StripAll, UpdateAll, SwitchOffSmt, Tune, At, Cleaned, Undone, Captive, TypeOK
    <3> QED
      BY <3>1, <2>m, <2>g, <2>o, <2>q DEF FormOf
  <2>3. CASE UpdateGrub(p) \/ SmtFails(p)
    <3>1. /\ UNCHANGED <<live, form>> /\ proc[p].at \in Cleaned
          /\ proc'[p].task = proc[p].task /\ proc'[p].cfg = proc[p].cfg
      BY <2>3, <1>t, <2>m DEF UpdateGrub, SmtFails, At, Caller, Cleaned, Undone, Captive
    <3> QED
      BY <3>1, <2>m, <2>o, <2>q DEF FormOf
  <2>4. CASE SwapOff(p)
    <3>1. /\ live'.ns = live.ns /\ (live.swap /\ ~proc[p].cfg.swapoff => live'.swap) /\ form' = form
          /\ proc[p].at \in Cleaned /\ Goto(p, "tune")
      BY <2>4 DEF SwapOff, At, Cleaned, Undone, Captive, TypeOK
    <3> QED
      BY <3>1, <2>m, <2>g, <2>o, <2>q DEF FormOf
  <2>5. CASE Network(p)
    <3>1. /\ live'.ns \subseteq live.ns \cup {proc[p].cfg.ns} /\ live'.swap = live.swap /\ form' = form
          /\ proc[p].at \in Cleaned
      BY <2>5 DEF Network, At, Cleaned, Undone, TypeOK
    <3>2. proc'[p].task = proc[p].task /\ proc'[p].cfg = proc[p].cfg
      BY <2>5, <1>t, <2>m DEF Network, Goto, Caller
    <3> QED
      BY <3>1, <3>2, <2>m, <2>o, <2>q DEF FormOf
  <2>6. CASE Return(p)
    <3>1. proc'[p].at = "idle"
      BY <2>6, <1>t DEF Return, NoProc
    <3> QED
      BY <3>1, <2>q DEF FormOf
  <2>7. CASE Unstrip(p) \/ Reinject(p) \/ Regenerate(p) \/ Forget(p)
    <3>1. \E step \in {"reinject", "regenerate", "forget", "cleanup"} : Goto(p, step)
      BY <2>7 DEF Unstrip, Reinject, Regenerate, Forget
    <3> QED
      BY <3>1, <2>m, <2>g, <2>o, <2>q DEF FormOf, Cleaned, Undone, Captive
  <2>8. CASE Cleanup(p)
    <3>1. /\ live'.ns = live.ns \ {form.ns} /\ live'.swap = (live.swap \/ form.swapoff)
          /\ form' = form /\ Goto(p, "untune")
      BY <2>8 DEF Cleanup, TypeOK
    <3> QED
      BY <3>1, <2>m, <2>g, <2>o, <2>q DEF FormOf
  <2>9. CASE NoGrubFile(p)
    <3>1. /\ UNCHANGED <<live, form>> /\ proc'[p].task = proc[p].task /\ proc'[p].cfg = proc[p].cfg
          /\ \/ proc[p].at \in Cleaned
             \/ proc'[p].at = "cleanup"
      BY <2>9, <1>t, <2>m DEF NoGrubFile, At, Goto, Caller, Cleaned, Undone, Captive
    <3> QED
      BY <3>1, <2>m, <2>o, <2>q DEF FormOf, Cleaned, Undone, Captive
  <2> QED
    BY <1>1, <2>1, <2>2, <2>3, <2>4, <2>5, <2>6, <2>7, <2>8, <2>9 DEF Step
<1>2. ASSUME NEW p \in Procs, Kill(p) PROVE FormInv'
  BY <1>2, <1>t DEF Kill, NoProc, FormInv, FormOf
<1>3. CASE Apply \/ DaemonStart
  <2>1. PICK p \in Procs : \E cfg, task : task # "restore" /\ Started(p, "sysctl_stat", task, cfg)
    BY <1>3 DEF Apply, DaemonStart, MayBegin
  <2>2. proc'[p].task # "restore" /\ \A q \in Procs \ {p} : proc'[q] = proc[q]
    BY <1>t, <2>1 DEF Started, NoProc
  <2> QED
    BY <1>3, <2>2 DEF Apply, DaemonStart, FormInv, FormOf
<1>4. CASE Teardown
  <2>1. /\ "tui" \in Procs /\ proc'["tui"].at \in {"cleanup", "unstrip"}
        /\ \A q \in Procs \ {"tui"} : proc'[q] = proc[q]
    BY <1>4, <1>t DEF Teardown, MayBegin, Started, NoProc
  <2> QED
    BY <1>4, <2>1 DEF Teardown, FormInv, FormOf, Cleaned, Undone, Captive
<1>5. CASE Reboot
  BY <1>5 DEF Reboot, NoProc, FormInv, FormOf
<1>6. CASE Edit
  BY <1>6 DEF Edit, Idle, FormInv, FormOf
<1>7. CASE KernelUpdate \/ UNCHANGED vars
  BY <1>7 DEF KernelUpdate, vars, FormInv, FormOf
<1> QED
  BY <1>1, <1>2, <1>3, <1>4, <1>5, <1>6, <1>7 DEF Next

(* What the form names is gone when a teardown ends, unless the restore    *)
(* point has it too (app.rs:425-470, setup.c:785-805).                     *)
THEOREM UndoesForm == ASSUME Serial PROVE Spec => []TeardownUndoesForm
<1>1. Init => FormInv
  BY DEF Init, NoProc, FormInv, FormOf
<1>2. FormInv => TeardownUndoesForm
  BY DEF FormInv, FormOf, TeardownUndoesForm, At, Cleaned, Undone
<1> QED
  BY <1>1, <1>2, AloneInit, AloneStep, FormStep, InitTyped, NextTyped, PTL DEF Spec

(* Unless an error was counted, SMT is off once it was to be switched off, *)
(* and isolcpus is in force where no reboot is asked for.                  *)
VerifiedOf(p) ==
    LET s == proc[p] IN
    /\ s.at \in {"smt", "swap", "tune", "net", "return"} /\ s.cfg.cores # None /\ ~s.reboot /\ ~s.err
         => cmdline["isolcpus"] # None
    /\ s.at \in {"swap", "tune", "net", "return"} /\ s.cfg.nosmt /\ ~s.err => ~live.smt

VerifiedInv == \A p \in Procs : VerifiedOf(p)

LEMMA VerifiedStep ==
    ASSUME TypeOK, TypeOK', VerifiedInv, [Next]_vars
    PROVE  VerifiedInv'
<1>t. proc \in [Procs -> Caller]
  BY DEF TypeOK, Caller
<1>1. ASSUME NEW p \in Procs, Step(p) PROVE VerifiedInv'
  <2>m. /\ \A q \in Procs \ {p} : proc'[q] = proc[q]
        /\ proc[p] \in Caller /\ cmdline' = cmdline /\ (~live.smt => ~live'.smt)
    BY <1>1, <1>t, Moved DEF Step, TypeOK, SysctlStat, SysctlOpen, SysctlPut, GrubStat, GrubOpen,
       GrubPut, StripFlags, StripIsolcpus, Inject, UpdateGrub, SwitchOffSmt, SmtFails, SwapOff, Tune,
       Network, Return, Unstrip, Reinject, Regenerate, Forget, Cleanup, Untune, StripAll,
       UpdateAll, NoGrubFile
  <2>q. ASSUME VerifiedOf(p)' PROVE VerifiedInv'
    BY <2>m, <2>q DEF VerifiedInv, VerifiedOf
  <2>o. VerifiedOf(p)
    BY DEF VerifiedInv
  <2>g. ASSUME NEW step, Goto(p, step)
        PROVE  /\ proc'[p].at = step /\ proc'[p].cfg = proc[p].cfg
               /\ proc'[p].reboot = proc[p].reboot /\ proc'[p].err = proc[p].err
    BY <1>t, <2>g, <2>m DEF Goto, Caller
  <2>1. CASE SysctlStat(p)
    <3>1. proc'[p].at \in {"sysctl_open", "grub_stat"}
      BY <2>1, <1>t, <2>m DEF SysctlStat, Goto, Caller
    <3> QED
      BY <3>1, <2>q DEF VerifiedOf
  <2>2. ASSUME NEW step, Goto(p, step), step \notin {"smt", "swap", "tune", "net", "return"} PROVE VerifiedInv'
    BY <2>2, <2>g, <2>q DEF VerifiedOf
  <2>3. CASE GrubStat(p)
    <3>1. \/ proc[p].cfg.cores = None /\ Goto(p, "smt")
          \/ Goto(p, "strip")
          \/ Goto(p, "grub_open")
      BY <2>3 DEF GrubStat
    <3>2. CASE proc[p].cfg.cores = None /\ Goto(p, "smt")
      BY <3>2, <2>g, <2>q DEF VerifiedOf
    <3> QED
      BY <3>1, <3>2, <2>2
  <2>4. CASE StripFlags(p)
    <3>1. \/ AlreadyActive(proc[p].cfg) /\ Goto(p, "smt")
          \/ Goto(p, "strip_iso")
      BY <2>4 DEF StripFlags
    <3>2. CASE AlreadyActive(proc[p].cfg) /\ Goto(p, "smt")
      BY <3>2, <2>g, <2>m, <2>q DEF VerifiedOf, AlreadyActive
    <3> QED
      BY <3>1, <3>2, <2>2
  <2>5. CASE UpdateGrub(p)
    <3>1. proc'[p].at = "smt" /\ proc'[p].reboot
      BY <2>5, <1>t, <2>m DEF UpdateGrub, Caller
    <3> QED
      BY <3>1, <2>q DEF VerifiedOf
  <2>6. CASE SwitchOffSmt(p)
    <3>1. /\ proc[p].at = "smt" /\ Goto(p, "swap") /\ live'.smt = (live.smt /\ ~proc[p].cfg.nosmt)
      BY <2>6 DEF SwitchOffSmt, At, TypeOK
    <3> QED
      BY <3>1, <2>m, <2>g, <2>o, <2>q DEF VerifiedOf
  <2>7. CASE Network(p) \/ SwapOff(p) \/ Tune(p)
    <3>1. /\ proc[p].at \in {"swap", "tune", "net"} /\ proc'[p].at \in {"tune", "net", "return"}
          /\ proc'[p].cfg = proc[p].cfg /\ proc'[p].reboot = proc[p].reboot
          /\ ~proc'[p].err => ~proc[p].err
      BY <2>7, <1>t, <2>m DEF Network, SwapOff, Tune, At, Goto, Caller
    <3> QED
      BY <3>1, <2>m, <2>o, <2>q DEF VerifiedOf
  <2>10. CASE SmtFails(p)
    <3>1. proc'[p].err
      BY <2>10, <1>t, <2>m DEF SmtFails, Caller
    <3> QED
      BY <3>1, <2>q DEF VerifiedOf
  <2>11. CASE NoGrubFile(p)
    <3>1. \/ proc'[p].err
          \/ Goto(p, "cleanup")
          \/ Goto(p, "sysctl_stat")
      BY <2>11, <1>t, <2>m DEF NoGrubFile, Caller
    <3>2. CASE proc'[p].err
      BY <3>2, <2>q DEF VerifiedOf
    <3> QED
      BY <3>1, <3>2, <2>2
  <2>8. CASE Return(p)
    <3>1. proc'[p].at = "idle"
      BY <2>8, <1>t DEF Return, NoProc
    <3> QED
      BY <3>1, <2>q DEF VerifiedOf
  <2>9. CASE \/ SysctlOpen(p) \/ SysctlPut(p) \/ GrubOpen(p) \/ GrubPut(p) \/ StripIsolcpus(p)
             \/ Inject(p) \/ Unstrip(p) \/ Reinject(p) \/ Regenerate(p) \/ Forget(p)
             \/ Cleanup(p) \/ Untune(p) \/ StripAll(p) \/ UpdateAll(p)
    <3>1. \E step : Goto(p, step) /\ step \notin {"smt", "swap", "tune", "net", "return"}
      BY <2>9 DEF SysctlOpen, SysctlPut, GrubOpen, GrubPut, StripIsolcpus, Inject, Unstrip,
         Reinject, Regenerate, Forget, Cleanup, Untune, StripAll, UpdateAll
    <3> QED
      BY <3>1, <2>2
  <2> QED
    BY <1>1, <2>1, <2>3, <2>4, <2>5, <2>6, <2>7, <2>8, <2>9, <2>10, <2>11 DEF Step
<1>2. ASSUME NEW p \in Procs, Kill(p) PROVE VerifiedInv'
  BY <1>2, <1>t DEF Kill, NoProc, VerifiedInv, VerifiedOf
<1>3. CASE Apply \/ DaemonStart \/ Teardown
  <2>1. \E p \in Procs : \E r : r.at \in {"sysctl_stat", "cleanup", "unstrip"}
                               /\ proc' = [proc EXCEPT ![p] = r]
    <3>1. ASSUME NEW p, NEW at, NEW task, NEW cfg, Started(p, at, task, cfg)
          PROVE  \E r : r.at = at /\ proc' = [proc EXCEPT ![p] = r]
      BY <3>1 DEF Started, NoProc
    <3>2. CASE Apply \/ DaemonStart
      BY <3>1, <3>2 DEF Apply, DaemonStart, MayBegin
    <3>3. CASE Teardown
      BY <3>1, <3>3 DEF Teardown, MayBegin
    <3> QED
      BY <1>3, <3>2, <3>3
  <2>2. PICK p \in Procs : /\ proc'[p].at \in {"sysctl_stat", "cleanup", "unstrip"}
                           /\ \A q \in Procs \ {p} : proc'[q] = proc[q]
    BY <1>t, <2>1
  <2>3. UNCHANGED <<live, cmdline>>
    BY <1>3 DEF Apply, DaemonStart, Teardown
  <2> QED
    BY <2>2, <2>3 DEF VerifiedInv, VerifiedOf
<1>4. CASE Reboot
  BY <1>4 DEF Reboot, NoProc, VerifiedInv, VerifiedOf
<1>5. CASE Edit \/ KernelUpdate \/ UNCHANGED vars
  BY <1>5 DEF Edit, KernelUpdate, vars, VerifiedInv, VerifiedOf
<1> QED
  BY <1>1, <1>2, <1>3, <1>4, <1>5 DEF Next

(* A setup that was to isolate cores and switch SMT off and returns        *)
(* BENCHMON_OK leaves a machine that verifies, whichever steps have failed *)
(* and whoever else configures it meanwhile (setup.c:763-765, verify.c).   *)
THEOREM Verifies == Spec => []SetupPasses
<1>1. Init => VerifiedInv
  BY DEF Init, NoProc, VerifiedInv, VerifiedOf
<1>2. VerifiedInv => SetupPasses
  BY DEF VerifiedInv, VerifiedOf, SetupPasses, Passed, At
<1> QED
  BY <1>1, <1>2, VerifiedStep, InitTyped, NextTyped, PTL DEF Spec

-----------------------------------------------------------------------------
(* Boot parameters, on a machine that had none of them before benchmon.    *)

Flagless(params) == \A f \in Flags : params[f] = None
Matched(params) == \A f \in Flags : params[f] \in {None, params["isolcpus"]}

BootAssumption ==
    /\ Serial /\ Prompt /\ Bare /\ "update" \notin Faults /\ "nogrub" \notin Faults
    /\ Original = [k \in Params |-> None]

(* A restore before it calls benchmon_setup().                             *)
Undoing == {"unstrip", "reinject", "regenerate", "forget", "cleanup", "untune", "strip_all",
            "update_all"}

(* No caller writes flags before it, or one before it, has saved those in  *)
(* force, and what is saved are no flags.                                  *)
ParamsOf(p) ==
    LET s == proc[p] IN
    /\ s.task = "restore" \/ s.at \in Undoing => s.cfg.cores = None
    /\ s.at \in {"sysctl_stat", "sysctl_open", "sysctl_put", "grub_stat"}
         /\ s.cfg.cores # None /\ grubPre = None => Flagless(cmdline)
    /\ s.at \in {"grub_open", "grub_put"} => Flagless(cmdline)
    /\ s.at \in {"grub_put", "strip", "strip_iso", "inject", "update"} => grubPre # None
    /\ s.at \in {"strip_iso", "inject", "reinject", "regenerate", "forget", "update_all"} => Flagless(grub)
    /\ s.at = "forget" => Flagless(boot)

ParamsInv ==
    /\ grubPre \notin {None, Empty} => Flagless(grubPre)
    /\ grubPre = None => Flagless(boot) /\ Flagless(grub)
    /\ Matched(grub) /\ Matched(boot) /\ Matched(cmdline)
    /\ \A p \in Procs : ParamsOf(p)

LEMMA ParamsStep ==
    ASSUME BootAssumption, TypeOK, TypeOK', Alone, ParamsInv, [Next]_vars
    PROVE  ParamsInv'
<1>a. Serial /\ Prompt /\ Bare /\ "update" \notin Faults /\ "nogrub" \notin Faults
      /\ None # Empty /\ Flags \subseteq Params
      /\ "isolcpus" \in Params /\ "isolcpus" \notin Flags
  BY SetupAssumption DEF BootAssumption, Params
<1>t. /\ proc \in [Procs -> Caller] /\ {grub, boot, cmdline} \subseteq [Params -> Values]
      /\ grubPre \in {None, Empty} \cup [Flags -> Values]
  BY DEF TypeOK, Caller, Values
<1>i. /\ grubPre \notin {None, Empty} => Flagless(grubPre)
      /\ grubPre = None => Flagless(boot) /\ Flagless(grub)
      /\ Matched(grub) /\ Matched(boot) /\ Matched(cmdline)
  BY DEF ParamsInv
<1>f. ASSUME NEW params, Flagless(params) PROVE Matched(params)
  BY <1>f DEF Flagless, Matched
<1>1. ASSUME NEW p \in Procs, Step(p) PROVE ParamsInv'
  <2>m. /\ \A q \in Procs \ {p} : proc'[q] = proc[q] /\ proc[q].at = "idle"
        /\ proc[p] \in Caller /\ cmdline' = cmdline
    BY <1>1, <1>t, Moved DEF Alone, Idle, Step, SysctlStat, SysctlOpen, SysctlPut, GrubStat, GrubOpen,
       GrubPut, StripFlags, StripIsolcpus, Inject, UpdateGrub, SwitchOffSmt, SmtFails, SwapOff, Tune,
       Network, Return, Unstrip, Reinject, Regenerate, Forget, Cleanup, Untune, StripAll,
       UpdateAll, NoGrubFile
  <2>o. ParamsOf(p) /\ \A q \in Procs \ {p} : ParamsOf(q)'
    BY <2>m DEF ParamsInv, ParamsOf, Undoing
  <2>g. ASSUME NEW step, Goto(p, step)
        PROVE  proc'[p].at = step /\ proc'[p].task = proc[p].task /\ proc'[p].cfg = proc[p].cfg
    BY <1>t, <2>g, <2>m DEF Goto, Caller
  <2>q. ASSUME ParamsOf(p)', grubPre' \notin {None, Empty} => Flagless(grubPre'),
               grubPre' = None => Flagless(boot') /\ Flagless(grub'), Matched(grub'), Matched(boot')
        PROVE  ParamsInv'
    BY <2>q, <2>o, <2>m, <1>i DEF ParamsInv, Matched, Flagless
  <2>1. CASE SysctlStat(p) \/ SysctlOpen(p) \/ SysctlPut(p)
    <3>1. /\ UNCHANGED <<grub, boot, grubPre>>
          /\ proc[p].at \in {"sysctl_stat", "sysctl_open", "sysctl_put"}
          /\ proc'[p].at \in {"sysctl_open", "sysctl_put", "grub_stat"}
          /\ proc'[p].task = proc[p].task /\ proc'[p].cfg = proc[p].cfg
      BY <2>1, <1>t, <2>m DEF SysctlStat, SysctlOpen, SysctlPut, At, Goto, Caller
    <3>2. ParamsOf(p)'
      BY <3>1, <2>o, <2>m DEF ParamsOf, Flagless, Undoing
    <3> QED
      BY <3>1, <3>2, <2>q, <1>i
  <2>2. CASE GrubStat(p)
    <3>1. /\ UNCHANGED <<grub, boot, grubPre>> /\ proc[p].at = "grub_stat"
          /\ Goto(p, IF proc[p].cfg.cores = None THEN "smt"
                     ELSE IF grubPre # None THEN "strip" ELSE "grub_open")
      BY <2>2 DEF GrubStat, At
    <3>2. ParamsOf(p)'
      BY <3>1, <2>g, <2>o, <2>m DEF ParamsOf, Flagless, Undoing
    <3> QED
      BY <3>1, <3>2, <2>q, <1>i
  <2>3. CASE GrubOpen(p)
    <3>1. UNCHANGED <<grub, boot>> /\ proc[p].at = "grub_open" /\ Goto(p, "grub_put") /\ grubPre' = Empty
      BY <2>3 DEF GrubOpen, At
    <3>2. ParamsOf(p)'
      BY <3>1, <1>a, <2>g, <2>o, <2>m DEF ParamsOf, Flagless, Undoing
    <3> QED
      BY <3>1, <3>2, <1>a, <2>q, <1>i
  <2>4. CASE GrubPut(p)
    <3>1. /\ UNCHANGED <<grub, boot>> /\ proc[p].at = "grub_put" /\ Goto(p, "strip")
          /\ grubPre' = IF grubPre = None THEN None ELSE [f \in Flags |-> cmdline[f]]
      BY <2>4 DEF GrubPut, At
    <3>2. grubPre # None /\ Flagless(cmdline)
      BY <3>1, <2>o DEF ParamsOf
    <3>3. [f \in Flags |-> cmdline[f]] # None
      <4>1. [f \in Flags |-> cmdline[f]] \in [Flags -> Values]
        BY <1>a, <1>t
      <4> QED
        BY <4>1, SetupAssumption DEF Values
    <3>4. ParamsOf(p)'
      BY <3>1, <3>2, <3>3, <2>g, <2>o, <2>m DEF ParamsOf, Undoing
    <3>5. Flagless(grubPre') /\ grubPre' # None
      BY <3>1, <3>2, <3>3 DEF Flagless
    <3> QED
      BY <3>1, <3>4, <3>5, <2>q, <1>i
  <2>5. CASE StripFlags(p)
    <3>1. /\ UNCHANGED <<boot, grubPre>> /\ proc[p].at = "strip" /\ grub' = Stripped(grub, Flags)
          /\ \E step \in {"smt", "strip_iso"} : Goto(p, step)
      BY <2>5 DEF StripFlags, At
    <3>2. Flagless(grub')
      BY <3>1, <1>a DEF Stripped, Flagless
    <3>3. ParamsOf(p)'
      BY <3>1, <3>2, <2>g, <2>o DEF ParamsOf, Undoing
    <3> QED
      BY <3>1, <3>2, <3>3, <1>f, <2>q, <1>i
  <2>6. CASE StripIsolcpus(p)
    <3>1. /\ UNCHANGED <<boot, grubPre>> /\ proc[p].at = "strip_iso" /\ grub' = Stripped(grub, {"isolcpus"})
          /\ Goto(p, "inject")
      BY <2>6 DEF StripIsolcpus, At
    <3>2. Flagless(grub)
      BY <3>1, <2>o DEF ParamsOf
    <3>3. Flagless(grub')
      BY <3>1, <3>2, <1>a DEF Stripped, Flagless
    <3>4. ParamsOf(p)'
      BY <3>1, <3>3, <2>g, <2>o DEF ParamsOf, Undoing
    <3> QED
      BY <3>1, <3>3, <3>4, <1>f, <2>q, <1>i
  <2>7. CASE Inject(p)
    <3>1. /\ UNCHANGED <<boot, grubPre>> /\ proc[p].at = "inject" /\ grub' = Injected(grub, proc[p].cfg)
          /\ Goto(p, "update")
      BY <2>7 DEF Inject, At
    <3>2. Flagless(grub) /\ grubPre # None
      BY <3>1, <2>o DEF ParamsOf
    <3>3. Matched(grub')
      BY <3>1, <3>2, <1>a DEF Injected, Flagless, Matched
    <3>4. ParamsOf(p)'
      BY <3>1, <3>2, <2>g, <2>o DEF ParamsOf, Undoing
    <3> QED
      BY <3>1, <3>2, <3>3, <3>4, <2>q, <1>i
  <2>8. CASE UpdateGrub(p)
    <3>1. UNCHANGED <<grub, grubPre>> /\ proc[p].at = "update" /\ boot' = grub
      BY <2>8, <1>a DEF UpdateGrub, At
    <3>2. proc'[p].at = "smt" /\ proc'[p].task = proc[p].task /\ proc'[p].cfg = proc[p].cfg
      BY <2>8, <1>t, <2>m DEF UpdateGrub, Caller
    <3>3. grubPre # None
      BY <3>1, <2>o DEF ParamsOf
    <3>4. ParamsOf(p)'
      BY <3>2, <2>o DEF ParamsOf, Undoing
    <3> QED
      BY <3>1, <3>3, <3>4, <2>q, <1>i
  <2>9. CASE \/ SwitchOffSmt(p) \/ SmtFails(p) \/ SwapOff(p) \/ Tune(p) \/ Network(p) \/ Cleanup(p)
    <3>1. /\ UNCHANGED <<grub, boot, grubPre>>
          /\ proc[p].at \in {"smt", "swap", "tune", "net", "cleanup"}
          /\ proc'[p].at \in {"swap", "tune", "net", "return", "untune"}
          /\ proc'[p].at = "untune" => proc[p].at = "cleanup"
      BY <2>9, <1>t, <2>m DEF SwitchOffSmt, SmtFails, SwapOff, Tune, Network, Cleanup, At, Goto, Caller
    <3>2. proc'[p].task = proc[p].task /\ proc'[p].cfg = proc[p].cfg
      BY <2>9, <1>t, <2>m DEF SwitchOffSmt, SmtFails, SwapOff, Tune, Network, Cleanup, Goto, Caller
    <3>3. ParamsOf(p)'
      BY <3>1, <3>2, <2>o DEF ParamsOf, Undoing
    <3> QED
      BY <3>1, <3>3, <2>q, <1>i
  <2>10. CASE Untune(p)
    <3>1. UNCHANGED <<grub, boot, grubPre>> /\ proc[p].at = "untune" /\ proc[p].cfg.cores = None
      BY <2>10, <2>o DEF Untune, At, ParamsOf, Undoing
    <3>2. Goto(p, "strip_all")
      BY <2>10, <3>1 DEF Untune
    <3>3. ParamsOf(p)'
      BY <3>1, <3>2, <2>g, <2>o DEF ParamsOf, Undoing
    <3> QED
      BY <3>1, <3>3, <2>q, <1>i
  <2>11. CASE StripAll(p)
    <3>1. /\ UNCHANGED <<boot, grubPre>> /\ proc[p].at = "strip_all" /\ grub' = Stripped(grub, Params)
          /\ Goto(p, "update_all")
      BY <2>11 DEF StripAll, At
    <3>2. Flagless(grub')
      BY <3>1, <1>a DEF Stripped, Flagless
    <3>3. proc[p].cfg.cores = None
      BY <3>1, <2>o DEF ParamsOf, Undoing
    <3>4. ParamsOf(p)'
      BY <3>1, <3>2, <3>3, <2>g, <2>o DEF ParamsOf, Undoing
    <3> QED
      BY <3>1, <3>2, <3>4, <1>f, <2>q, <1>i
  <2>12. CASE Unstrip(p)
    <3>1. /\ UNCHANGED <<boot, grubPre>> /\ proc[p].at = "unstrip" /\ grub' = Stripped(grub, Flags)
          /\ Goto(p, "reinject")
      BY <2>12 DEF Unstrip, At
    <3>2. Flagless(grub')
      BY <3>1, <1>a DEF Stripped, Flagless
    <3>3. ParamsOf(p)'
      BY <3>1, <3>2, <2>g, <2>o DEF ParamsOf, Undoing
    <3> QED
      BY <3>1, <3>2, <3>3, <1>f, <2>q, <1>i
  <2>16. CASE Reinject(p)
    <3>1. /\ UNCHANGED <<boot, grubPre>> /\ proc[p].at = "reinject" /\ Goto(p, "regenerate")
          /\ grub' = IF grubPre \in {None, Empty} THEN grub
                     ELSE [k \in Params |-> IF k \in Flags /\ grubPre[k] # None
                                             THEN grubPre[k] ELSE grub[k]]
      BY <2>16 DEF Reinject, At
    <3>2. Flagless(grub)
      BY <3>1, <2>o DEF ParamsOf
    <3>3. Flagless(grub')
      BY <3>1, <3>2, <1>a, <1>i DEF Flagless
    <3>4. ParamsOf(p)'
      BY <3>1, <3>3, <2>g, <2>o DEF ParamsOf, Undoing
    <3> QED
      BY <3>1, <3>2, <3>3, <3>4, <1>f, <2>q, <1>i
  <2>17. CASE UpdateAll(p)
    <3>1. /\ UNCHANGED <<grub, grubPre>> /\ proc[p].at = "update_all" /\ boot' = grub
          /\ Goto(p, "sysctl_stat")
      BY <2>17, <1>a DEF UpdateAll, At
    <3>2. Flagless(grub) /\ proc[p].cfg.cores = None
      BY <3>1, <2>o DEF ParamsOf, Undoing
    <3>3. ParamsOf(p)'
      BY <3>1, <3>2, <2>g, <2>o DEF ParamsOf, Undoing
    <3> QED
      BY <3>1, <3>2, <3>3, <1>f, <2>q, <1>i
  <2>13. CASE Regenerate(p)
    <3>1. UNCHANGED <<grub, grubPre>> /\ proc[p].at = "regenerate" /\ boot' = grub /\ Goto(p, "forget")
      BY <2>13, <1>a DEF Regenerate, At
    <3>2. Flagless(grub)
      BY <3>1, <2>o DEF ParamsOf
    <3>3. ParamsOf(p)'
      BY <3>1, <3>2, <2>g, <2>o DEF ParamsOf, Undoing
    <3> QED
      BY <3>1, <3>2, <3>3, <2>q, <1>i
  <2>14. CASE Forget(p)
    <3>1. UNCHANGED <<grub, boot>> /\ proc[p].at = "forget" /\ grubPre' = None /\ Goto(p, "cleanup")
      BY <2>14 DEF Forget, At
    <3>2. Flagless(grub) /\ Flagless(boot)
      BY <3>1, <2>o DEF ParamsOf
    <3>3. ParamsOf(p)'
      BY <3>1, <2>g, <2>o DEF ParamsOf, Undoing
    <3> QED
      BY <3>1, <3>2, <3>3, <2>q, <1>i
  <2>15. CASE Return(p)
    <3>1. UNCHANGED <<grub, boot, grubPre>> /\ proc'[p].at = "idle" /\ proc'[p].task = "apply"
      BY <2>15, <1>t DEF Return, NoProc
    <3>2. ParamsOf(p)'
      BY <3>1 DEF ParamsOf, Undoing
    <3> QED
      BY <3>1, <3>2, <2>q, <1>i
  <2> QED
    BY <1>1, <2>1, <2>2, <2>3, <2>4, <2>5, <2>6, <2>7, <2>8, <2>9, <2>10, <2>11, <2>12, <2>13,
       <2>14, <2>15, <2>16, <2>17, <1>a DEF Step, NoGrubFile
<1>2. ASSUME NEW p \in Procs, Kill(p) PROVE ParamsInv'
  <2>1. /\ UNCHANGED <<grub, boot, cmdline, grubPre>>
        /\ proc'[p].at = "idle" /\ proc'[p].task = "apply" /\ \A q \in Procs \ {p} : proc'[q] = proc[q]
    BY <1>2, <1>t DEF Kill, NoProc
  <2> QED
    BY <2>1 DEF ParamsInv, ParamsOf, Undoing, Flagless, Matched
<1>3. CASE Apply \/ DaemonStart
  <2>1. PICK p \in Procs : \E cfg, task : task # "restore" /\ Started(p, "sysctl_stat", task, cfg)
    BY <1>3 DEF Apply, DaemonStart, MayBegin
  <2>2. /\ proc'[p].at = "sysctl_stat" /\ proc'[p].task # "restore"
        /\ \A q \in Procs \ {p} : proc'[q] = proc[q]
    BY <1>t, <2>1 DEF Started, NoProc
  <2>3. UNCHANGED <<grub, boot, cmdline, grubPre>> /\ boot = cmdline
    BY <1>3, <1>a DEF Apply, DaemonStart, MayBegin
  <2>4. ParamsOf(p)'
    BY <2>2, <2>3, <1>i DEF ParamsOf, Undoing, Flagless
  <2> QED
    BY <2>2, <2>3, <2>4 DEF ParamsInv, ParamsOf, Flagless, Matched
<1>4. CASE Teardown
  <2>1. /\ "tui" \in Procs /\ proc'["tui"].at \in {"cleanup", "unstrip"} /\ proc'["tui"].cfg.cores = None
        /\ \A q \in Procs \ {"tui"} : proc'[q] = proc[q]
    BY <1>4, <1>t, <1>a DEF Teardown, MayBegin, Started, NoProc
  <2>2. UNCHANGED <<grub, boot, cmdline, grubPre>>
    BY <1>4 DEF Teardown
  <2>3. ParamsOf("tui")'
    BY <2>1 DEF ParamsOf
  <2> QED
    BY <2>1, <2>2, <2>3 DEF ParamsInv, ParamsOf, Flagless, Matched
<1>5. CASE Reboot
  <2>1. UNCHANGED <<grub, boot, grubPre>> /\ cmdline' = boot /\ \A p \in Procs : proc'[p] = NoProc
    BY <1>5 DEF Reboot
  <2>2. \A p \in Procs : ParamsOf(p)'
    BY <2>1 DEF NoProc, ParamsOf, Undoing
  <2> QED
    BY <1>i, <2>1, <2>2 DEF ParamsInv, Matched, Flagless
<1>6. CASE KernelUpdate
  <2>1. UNCHANGED <<grub, cmdline, grubPre, proc>> /\ boot' = grub
    BY <1>6 DEF KernelUpdate
  <2>2. ASSUME NEW p \in Procs PROVE ParamsOf(p)'
    BY <2>1 DEF ParamsInv, ParamsOf, Flagless
  <2> QED
    BY <1>i, <2>1, <2>2 DEF ParamsInv, Matched, Flagless
<1>7. CASE Edit \/ UNCHANGED vars
  <2>1. UNCHANGED <<grub, boot, cmdline, grubPre, proc>>
    BY <1>7 DEF Edit, vars
  <2> QED
    BY <2>1 DEF ParamsInv, ParamsOf, Flagless, Matched
<1> QED
  BY <1>1, <1>2, <1>3, <1>4, <1>5, <1>6, <1>7 DEF Next

LEMMA ParamsAlways == ASSUME BootAssumption PROVE Spec => []ParamsInv
<1>1. Init => ParamsInv
  <2> SUFFICES ASSUME Init PROVE ParamsInv
    OBVIOUS
  <2>1. /\ grub = Original /\ boot = Original /\ cmdline = Original /\ grubPre = None
        /\ \A p \in Procs : proc[p] = NoProc
    BY DEF Init
  <2>2. Flagless(Original)
    BY DEF BootAssumption, Flagless, Params
  <2>3. \A p \in Procs : ParamsOf(p)
    BY <2>1 DEF ParamsOf, NoProc, Undoing
  <2> QED
    BY <2>1, <2>2, <2>3 DEF ParamsInv, Matched, Flagless
<1>2. Serial
  BY DEF BootAssumption
<1> QED
  BY <1>1, <1>2, ParamsStep, AloneInit, AloneStep, InitTyped, NextTyped, PTL DEF Spec

(* What is saved as the flags before benchmon are the flags before         *)
(* benchmon, whatever was killed or rebooted (setup.c:39-110).             *)
THEOREM FlagsSaved == ASSUME BootAssumption PROVE Spec => []GrubBaseline
<1>1. ParamsInv => GrubBaseline
  BY DEF ParamsInv, Flagless, GrubBaseline, BootAssumption, Params
<1> QED
  BY <1>1, ParamsAlways, PTL

(* No kernel can come up with flags that name other cores than isolcpus    *)
(* (setup.c:145-304).                                                      *)
THEOREM FlagsMatch == ASSUME BootAssumption PROVE Spec => []FlagsMatchIsolcpus
<1>1. ParamsInv => FlagsMatchIsolcpus
  BY DEF ParamsInv, Matched, FlagsMatchIsolcpus
<1> QED
  BY <1>1, ParamsAlways, PTL

(* What an Apply was asked for is in grub.cfg when it ends, and stays; and *)
(* nothing else is, if it has written the parameters itself.               *)
Asked(cfg, params) == \A k \in cfg.flags \cup {"isolcpus"} : params[k] = cfg.cores
Exactly(cfg, params) == \A k \in Params \ (cfg.flags \cup {"isolcpus"}) : params[k] = None

ApplyOf(p) ==
    LET s == proc[p] IN
    /\ s.task = "apply" /\ s.at \in {"sysctl_stat", "sysctl_open", "sysctl_put", "grub_stat",
                                     "grub_open", "grub_put", "strip"} => boot = cmdline
    /\ s.at \in Undoing => s.task = "restore"
    /\ s.at = "update" => Asked(s.cfg, grub) /\ Exactly(s.cfg, grub)
    /\ s.task = "apply" /\ s.at \in {"smt", "swap", "tune", "net", "return"} /\ s.cfg.cores # None
         => Asked(s.cfg, boot)
    /\ s.reboot => s.at \in {"smt", "swap", "tune", "net", "return"}
    /\ s.reboot /\ s.task = "apply" => Exactly(s.cfg, boot)

ApplyInv ==
    /\ applied # None => \A p \in Procs : Idle(p)
    /\ applied # None /\ applied.cfg.cores # None => Asked(applied.cfg, boot)
    /\ applied # None /\ applied.reboot => Exactly(applied.cfg, boot)
    /\ \A p \in Procs : ApplyOf(p)

(* That the cores are mentioned and every wanted parameter is there means  *)
(* that each has these cores, where no list occurs in another and the      *)
(* flags in force are those of isolcpus.                                   *)
LEMMA ActiveIsAsked ==
    ASSUME TypeOK, NEW cfg \in Config, AlreadyActive(cfg), Matched(cmdline),
           \A pair \in Within : pair[1] = pair[2], Elsewhere = {}
    PROVE  Asked(cfg, cmdline)
<1>1. PICK k \in Params : cmdline[k] # None /\ cfg.cores = cmdline[k]
  BY DEF AlreadyActive, Mentioned
<1>2. cmdline["isolcpus"] = cfg.cores
  BY <1>1 DEF Matched, Params
<1>3. \A f \in cfg.flags : f \in Flags /\ cmdline[f] # None
  BY DEF AlreadyActive, Config
<1> QED
  BY <1>2, <1>3 DEF Asked, Matched

LEMMA ApplyStep ==
    ASSUME BootAssumption, ~KernelUpdates, \A pair \in Within : pair[1] = pair[2], Elsewhere = {},
           TypeOK, TypeOK', Alone, ParamsInv, ApplyInv, [Next]_vars
    PROVE  ApplyInv'
<1>a. Serial /\ Prompt /\ "update" \notin Faults /\ "nogrub" \notin Faults
  BY DEF BootAssumption
<1>t. proc \in [Procs -> Caller] /\ grub \in [Params -> Values]
  BY DEF TypeOK, Caller, Values
<1>1. ASSUME NEW p \in Procs, Step(p) PROVE ApplyInv'
  <2>m. /\ \A q \in Procs \ {p} : proc'[q] = proc[q] /\ proc[q].at = "idle"
        /\ proc[p] \in Caller /\ proc[p].at # "idle" /\ applied = None /\ cmdline' = cmdline
    BY <1>1, <1>t, Moved DEF Alone, Idle, ApplyInv, Step, SysctlStat, SysctlOpen, SysctlPut, GrubStat,
       GrubOpen, GrubPut, StripFlags, StripIsolcpus, Inject, UpdateGrub, SwitchOffSmt, SmtFails,
       SwapOff, Tune, Network, Return, Unstrip, Reinject, Regenerate, Forget, Cleanup, Untune,
       StripAll, UpdateAll, NoGrubFile
  <2>o. ApplyOf(p) /\ \A q \in Procs \ {p} : ApplyOf(q)'
    BY <2>m DEF ApplyInv, ApplyOf, Undoing
  <2>g. ASSUME NEW step, Goto(p, step)
        PROVE  /\ proc'[p].at = step /\ proc'[p].task = proc[p].task /\ proc'[p].cfg = proc[p].cfg
               /\ proc'[p].reboot = proc[p].reboot
    BY <1>t, <2>g, <2>m DEF Goto, Caller
  <2>q. ASSUME ApplyOf(p)', applied' = applied PROVE ApplyInv'
    BY <2>q, <2>o, <2>m DEF ApplyInv
  <2>1. CASE SysctlStat(p) \/ SysctlOpen(p) \/ SysctlPut(p) \/ GrubOpen(p) \/ GrubPut(p)
    <3>1. /\ UNCHANGED <<boot, applied>>
          /\ proc[p].at \in {"sysctl_stat", "sysctl_open", "sysctl_put", "grub_open", "grub_put"}
          /\ proc'[p].at \in {"sysctl_open", "sysctl_put", "grub_stat", "grub_put", "strip"}
          /\ proc'[p].task = proc[p].task /\ proc'[p].cfg = proc[p].cfg
          /\ proc'[p].reboot = proc[p].reboot
      BY <2>1, <1>t, <2>m DEF SysctlStat, SysctlOpen, SysctlPut, GrubOpen, GrubPut, At, Goto, Caller
    <3>2. ApplyOf(p)'
      BY <3>1, <2>o, <2>m DEF ApplyOf, Undoing
    <3> QED
      BY <3>1, <3>2, <2>q
  <2>2. CASE GrubStat(p)
    <3>1. /\ UNCHANGED <<boot, applied>> /\ proc[p].at = "grub_stat"
          /\ Goto(p, IF proc[p].cfg.cores = None THEN "smt"
                     ELSE IF grubPre # None THEN "strip" ELSE "grub_open")
      BY <2>2 DEF GrubStat, At
    <3>2. ApplyOf(p)'
      BY <3>1, <2>g, <2>o, <2>m DEF ApplyOf, Undoing
    <3> QED
      BY <3>1, <3>2, <2>q
  <2>3. CASE StripFlags(p)
    <3>1. /\ UNCHANGED <<boot, applied>> /\ proc[p].at = "strip"
          /\ \/ AlreadyActive(proc[p].cfg) /\ Goto(p, "smt")
             \/ Goto(p, "strip_iso")
      BY <2>3 DEF StripFlags, At
    <3>2. AlreadyActive(proc[p].cfg) => Asked(proc[p].cfg, cmdline)
      <4>1. Matched(cmdline) /\ proc[p].cfg \in Config
        BY <2>m DEF ParamsInv, Caller
      <4> QED
        BY <4>1, ActiveIsAsked
    <3>3. ApplyOf(p)'
      BY <3>1, <3>2, <2>g, <2>o, <2>m DEF ApplyOf, Asked, Undoing
    <3> QED
      BY <3>1, <3>3, <2>q
  <2>4. CASE Inject(p)
    <3>1. /\ UNCHANGED <<boot, applied>> /\ proc[p].at = "inject" /\ grub' = Injected(grub, proc[p].cfg)
          /\ Goto(p, "update")
      BY <2>4 DEF Inject, At
    <3>2. proc[p].cfg.flags \cup {"isolcpus"} \subseteq Params
      BY <2>m DEF Caller, Config, Params
    <3>3. Asked(proc[p].cfg, grub')
      BY <3>1, <3>2 DEF Injected, Asked
    <3>4. Flagless(grub)
      BY <3>1 DEF ParamsInv, ParamsOf
    <3>5. Exactly(proc[p].cfg, grub')
      BY <3>1, <3>4 DEF Injected, Exactly, Flagless, Params
    <3>6. ~proc[p].reboot
      BY <3>1, <2>o, <2>m DEF ApplyOf, Caller
    <3>7. ApplyOf(p)'
      BY <3>1, <3>3, <3>5, <3>6, <2>g DEF ApplyOf, Undoing
    <3> QED
      BY <3>1, <3>7, <2>q
  <2>5. CASE UpdateGrub(p)
    <3>1. UNCHANGED applied /\ proc[p].at = "update" /\ boot' = grub
      BY <2>5, <1>a DEF UpdateGrub, At
    <3>2. proc'[p].at = "smt" /\ proc'[p].cfg = proc[p].cfg
      BY <2>5, <1>t, <2>m DEF UpdateGrub, Caller
    <3>3. ApplyOf(p)'
      BY <3>1, <3>2, <2>o DEF ApplyOf, Asked, Exactly, Undoing
    <3> QED
      BY <3>1, <3>3, <2>q
  <2>6. CASE SwitchOffSmt(p) \/ SmtFails(p) \/ SwapOff(p) \/ Tune(p) \/ Network(p)
    <3>1. /\ UNCHANGED <<boot, applied>> /\ proc[p].at \in {"smt", "swap", "tune", "net"}
          /\ proc'[p].at \in {"swap", "tune", "net", "return"}
      BY <2>6, <1>t, <2>m DEF SwitchOffSmt, SmtFails, SwapOff, Tune, Network, At, Goto, Caller
    <3>2. /\ proc'[p].task = proc[p].task /\ proc'[p].cfg = proc[p].cfg
          /\ proc'[p].reboot = proc[p].reboot
      BY <2>6, <1>t, <2>m DEF SwitchOffSmt, SmtFails, SwapOff, Tune, Network, Goto, Caller
    <3>3. ApplyOf(p)'
      BY <3>1, <3>2, <2>o DEF ApplyOf, Asked, Exactly, Undoing
    <3> QED
      BY <3>1, <3>3, <2>q
  <2>7. CASE Return(p)
    <3>1. /\ proc'[p].at = "idle" /\ ~proc'[p].reboot /\ boot' = boot /\ proc[p].at = "return"
          /\ applied' = IF proc[p].task = "apply"
                        THEN IF Partial(p) THEN None
                             ELSE [cfg |-> proc[p].cfg, reboot |-> proc[p].reboot]
                        ELSE applied
      BY <2>7, <1>t DEF Return, NoProc, At
    <3>2. \A q \in Procs : Idle(q)'
      BY <3>1, <2>m DEF Idle
    <3>3. ApplyOf(p)'
      BY <3>1 DEF ApplyOf, Undoing
    <3>4. applied' # None => /\ proc[p].task = "apply"
                             /\ applied'.cfg = proc[p].cfg /\ applied'.reboot = proc[p].reboot
      BY <3>1, <2>m
    <3>5. /\ applied' # None /\ applied'.cfg.cores # None => Asked(applied'.cfg, boot')
          /\ applied' # None /\ applied'.reboot => Exactly(applied'.cfg, boot')
      BY <3>1, <3>4, <2>o DEF ApplyOf, Asked, Exactly
    <3> QED
      BY <2>o, <3>2, <3>3, <3>5 DEF ApplyInv, Asked, Exactly
  <2>8. CASE StripIsolcpus(p)
    <3>1. UNCHANGED applied /\ proc[p].at = "strip_iso" /\ Goto(p, "inject")
      BY <2>8 DEF StripIsolcpus, At
    <3>2. ~proc[p].reboot
      BY <3>1, <2>o DEF ApplyOf
    <3>3. ApplyOf(p)'
      BY <3>1, <3>2, <2>g DEF ApplyOf, Undoing
    <3> QED
      BY <3>1, <3>3, <2>q
  <2>9. CASE \/ Unstrip(p) \/ Reinject(p) \/ Regenerate(p) \/ Forget(p) \/ Cleanup(p) \/ Untune(p)
             \/ StripAll(p) \/ UpdateAll(p)
    <3>1. /\ UNCHANGED applied /\ proc[p].at \in Undoing
          /\ \E step \in Undoing \cup {"sysctl_stat"} : Goto(p, step)
      BY <2>9 DEF Unstrip, Reinject, Regenerate, Forget, Cleanup, Untune, StripAll, UpdateAll, At, Undoing
    <3>2. ~proc[p].reboot /\ proc[p].task = "restore"
      BY <3>1, <2>o DEF ApplyOf, Undoing
    <3>3. ApplyOf(p)'
      BY <3>1, <3>2, <2>g DEF ApplyOf, Undoing
    <3> QED
      BY <3>1, <3>3, <2>q
  <2> QED
    BY <1>1, <2>1, <2>2, <2>3, <2>4, <2>5, <2>6, <2>7, <2>8, <2>9, <1>a DEF Step, NoGrubFile
<1>2. ASSUME NEW p \in Procs, Kill(p) PROVE ApplyInv'
  <2>1. /\ UNCHANGED <<grub, boot, cmdline, applied>> /\ applied = None
        /\ proc'[p].at = "idle" /\ ~proc'[p].reboot
        /\ \A q \in Procs \ {p} : proc'[q] = proc[q]
    BY <1>2, <1>t DEF Kill, NoProc, ApplyInv
  <2> QED
    BY <2>1 DEF ApplyInv, ApplyOf, Asked, Exactly, Undoing
<1>3. CASE Apply \/ DaemonStart
  <2>1. PICK p \in Procs : \E cfg, task : Started(p, "sysctl_stat", task, cfg)
    BY <1>3 DEF Apply, DaemonStart, MayBegin
  <2>2. proc'[p].at = "sysctl_stat" /\ ~proc'[p].reboot /\ \A q \in Procs \ {p} : proc'[q] = proc[q]
    BY <1>t, <2>1 DEF Started, NoProc
  <2>3. UNCHANGED <<grub, boot, cmdline>> /\ boot = cmdline /\ applied' = None
    BY <1>3, <1>a DEF Apply, DaemonStart, MayBegin
  <2> QED
    BY <2>2, <2>3 DEF ApplyInv, ApplyOf, Asked, Exactly, Undoing
<1>4. CASE Teardown
  <2>1. /\ "tui" \in Procs /\ proc'["tui"].at \in {"cleanup", "unstrip"} /\ proc'["tui"].task = "restore"
        /\ ~proc'["tui"].reboot /\ \A q \in Procs \ {"tui"} : proc'[q] = proc[q]
    BY <1>4, <1>t DEF Teardown, MayBegin, Started, NoProc
  <2>2. UNCHANGED <<grub, boot, cmdline>> /\ applied' = None
    BY <1>4 DEF Teardown
  <2> QED
    BY <2>1, <2>2 DEF ApplyInv, ApplyOf, Asked, Exactly, Undoing
<1>5. CASE Reboot
  BY <1>5 DEF Reboot, NoProc, ApplyInv, ApplyOf, Idle, Asked, Exactly, Undoing
<1>6. CASE Edit \/ UNCHANGED vars
  <2>1. UNCHANGED <<grub, boot, cmdline, applied, proc>>
    BY <1>6 DEF Edit, vars
  <2> QED
    BY <2>1 DEF ApplyInv, ApplyOf, Idle, Asked, Exactly, Undoing
<1>7. ~KernelUpdate
  BY DEF KernelUpdate
<1> QED
  BY <1>1, <1>2, <1>3, <1>4, <1>5, <1>6, <1>7 DEF Next

(* After an Apply that reported no failure and that nothing was run after, *)
(* a reboot brings up a kernel with the cores and flags that were asked for*)
(* and, where the Apply asked for the reboot, with no other flag; where no *)
(* core list occurs in another or elsewhere in the command line and nobody *)
(* else runs update-grub (setup.c:228-303).                                *)
THEOREM AppliesHold ==
    ASSUME BootAssumption, ~KernelUpdates, \A pair \in Within : pair[1] = pair[2], Elsewhere = {}
    PROVE  Spec => LastApplyHolds
<1>1. Init => ApplyInv
  BY DEF Init, NoProc, ApplyInv, ApplyOf, Undoing
<1>2. ApplyInv /\ Reboot /\ applied # None /\ applied.cfg.cores # None =>
        LET wanted == applied.cfg.flags \cup {"isolcpus"} IN
        /\ \A k \in wanted : cmdline'[k] = applied.cfg.cores
        /\ applied.reboot => \A k \in Params \ wanted : cmdline'[k] = None
  BY DEF ApplyInv, Asked, Exactly, Reboot
<1>3. Serial
  BY DEF BootAssumption
<1> QED
  BY <1>1, <1>2, <1>3, ApplyStep, ParamsAlways, AloneInit, AloneStep, InitTyped, NextTyped,
     PTL DEF Spec, LastApplyHolds

================================================================================
