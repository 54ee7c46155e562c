# benchmon in TLA+

benchmon isolates and tunes a Linux machine for benchmarks and monitors it
while they run. It is a C library (`src/src/*.c`), a Rust program
(`src/tui/src/*.rs`) that is at once a TUI, a daemon and a command line, and a
set of files through which runs of that program find each other. The modules
here model the parts whose correctness depends on the order in which things
happen: the daemon's life cycle, the snapshot file, the TUI beside a daemon,
machine setup and its undoing, the monitor's descriptors, the key handling, the
form and its file, and what is shown of lists longer than the screen.

Line references are `file:line` with paths shortened: `service.rs`, `app.rs`,
`main.rs`, `snapshot_store.rs` are in `src/tui/src`, `tabs/setup.rs` below it,
`setup.c`, `monitor.c`, `verify.c` in `src/src`, `benchmon.h` in `src/include`.

## 1. Inventory

| Part | State it keeps | Operations | Talks to |
|---|---|---|---|
| Daemon life cycle (`service.rs`, `main.rs`) | `/var/run/benchmon/{benchmon.pid, mode, snap.bin}`, the unit file, the daemon process | `start`, `stop`, `enable`, `disable`, `status_string`, `daemon_pid`, `run_daemon` | systemctl, kill(1), /proc; the library's setup and monitor |
| Snapshot file (`service.rs`, `ffi.rs`) | `snap.tmp`, `snap.bin` | write and rename in the daemon's loop; `read_latest_snapshot`; unlink in stop and disable | the TUI of any user |
| TUI session (`app.rs`) | `piggyback_mode`, `monitor`, `logging_active`, `service_mode` | `App::new`, `refresh_verify`, the `service` and `log` commands, quit | the life cycle, the snapshot file, the log |
| Machine setup (`setup.c`) | `/etc/default/grub`, `grub.cfg`, sysctls, swap, SMT, IRQs, namespaces; `grub_preconfig.json`, `preconfig_sysctl.json` | `benchmon_setup`, `benchmon_teardown` | TUI and daemon call it, each in its own process |
| Restore points, active config (`snapshot_store.rs`, `tabs/setup.rs`) | `/var/lib/benchmon/snapshots/*`, `active_config.json` | save, capture, list, load | setup, the Teardown picker, the daemon at its start |
| Key handling (`main.rs`, `app.rs`, `tabs/setup.rs`) | tab, modals, picker, selection, edit, command line and history | `handle_key` | everything above |
| Metric log (`logger.rs`) | one NDJSON file | start, stop, write | TUI or daemon |
| Form (`tabs/setup.rs`, `ffi.rs`, `snapshot_store.rs`) | `setup_config`, `setup_edit_buffer`, `active_config.json` | `handle_enter`, `commit_edit`, `toggle_field`, `to_json`, `from_json`, `make_c_cfg` | the keys, the library, the next daemon |
| Display (`tabs/*.rs`, `main.rs`, `app.rs`) | scroll counters, histories behind the graphs, `latest_snapshot` | `scroll_up`, `scroll_down`, `ingest_snapshot`, `render` | the snapshots of monitor or daemon |
| Monitor library (`monitor.c`, `utils.c`) | perf, sysfs and proc descriptors, last counters | init, snapshot, destroy | kernel; made and dropped by every refresh of the TUI |
| Verification (`verify.c`) | none | `benchmon_verify`, passthrough stubs | /proc, /sys, `ip netns` |
| FFI (`ffi.rs`) | none | field-by-field conversions | |

What is hard about it, and what makes each part correct:

- **Life cycle.** No lock and no supervisor: a PID file, polls of 100 ms and
  the existence of `/proc/<pid>` stand in for both. Operations, daemons and
  systemd interleave; daemons crash, become zombies of the TUI that spawned
  them, are restarted by systemd; pids are reused; a reboot empties
  `/var/run`. It is correct when there is at most one daemon, the one that
  runs can be found, stop and disable end it, every operation returns, and a
  persistent daemon comes back.
- **Snapshot file.** Written at every interval by one process and read
  without a lock by others, while stop may unlink it. It is correct when it
  behaves as an atomic register.
- **Session.** The TUI learns of daemons only by looking. It is correct when
  samples are recorded by exactly one of TUI and daemon, and when closing the
  TUI leaves a daemon alone.
- **Setup.** Many system calls with two saved baselines, each interruptible;
  the boot parameters exist in three versions (`/etc/default/grub`,
  `grub.cfg`, running kernel) that agree only after reboots. It is correct when
  the saved baselines are those from before benchmon, the undo reaches them,
  and what was applied survives a reboot.
- **Keys.** Layers of modals with early returns, a selection that jumps over a
  separator, an index into a list that shrinks at its head.
- **Form.** Six places list the 27 fields of the config for themselves (shown,
  edited, toggled, written, read, given to the library), and the file is written in
  place. It is correct when an edit lands where it is shown, when the next daemon gives the library what
  the last Apply gave it, and when a file that was cut short is still a mixture of
  that config and the default.
- **Monitor.** Slots are reused, opens fail, directories change while they are
  read, and the struct starts as zeros, which are descriptors. It is correct when
  what `init` opened is closed once, nothing else is, and what was there is read.
- **Display.** Windows over lists that change length between the key press that
  set a counter and the frame that uses it, and graphs found by index. It is correct
  when no slice or index can be out of bounds and what is shown belongs together.
- **Verification.** One verdict over text that several modules of the machine write.

## 2. Modules

| Module | Models | Lines of TLA+ are organised as |
|---|---|---|
| `Service` | service.rs, main.rs | the three outcomes of `daemon_pid()`, one action per system call of an operation, `run_daemon`, systemd and the machine |
| `Session` | app.rs over `Service` | EXTENDS `Service`; adds the TUI's view and replaces the TUI's own steps of `Service` by those of `App` |
| `SnapFile` | service.rs, ffi.rs | inodes, chunks, one action per system call |
| `SnapRegister` | the promise of the header of service.rs | the abstract register that `SnapFile` refines |
| `Setup` | setup.c, snapshot_store.rs, tabs/setup.rs, app.rs | one action per step that touches one file or one shared setting |
| `Tui` | main.rs, app.rs, tabs/setup.rs | one action per layer of `handle_key`, in the order of its early returns |
| `Form` | tabs/setup.rs, ffi.rs, snapshot_store.rs over `Tui` | EXTENDS `Tui`; the lists of fields as data, and what each key does to form, buffer and file |
| `Monitor` | monitor.c, and `Monitor` of ffi.rs | the descriptor table of the process and the fields of the struct; one action per `open`, and one for each end of a directory |
| `Display` | tabs/*.rs, main.rs, app.rs | the window of each list as an operator, one action per key, tick, refresh and resize |
| `MC*` | | the values of the constants for TLC, and the bounds |
| `ServiceProofs`, `SessionProofs`, `SnapFileProofs`, `SetupProofs`, `MonitorProofs`, `DisplayProofs`, `TuiProofs`, `FormProofs` | | the theorems |

An operator called `Foo_Bug` is a plausible wrong version of `Foo` (a dropped
guard, a missing reset, a swapped order). Nothing uses it; put in the place of
`Foo` it has to break a property, which shows that the property depends on
that code.

### Service

A `Pid` is one incarnation of a process; `proc` says how far it is in
`run_daemon` (`boot`, `naming` between the truncation and the write of the PID
file, `named`, `setup`, `serve`), who its parent is, whether it runs as root and
whether a signal is pending. `run` is `/var/run/benchmon`. A client record holds
the operation in flight, its next step (`at`), the probe to resume after a stale
PID file was unlinked (`then`), the pid it works on and the polls left. `IfRunning`,
`IfDown` and `IfTimeout` are the control flow of the operations around
`daemon_pid()`; every other action is one system call: `Spawn`, `Kill`, `Remove`,
`ChangeUnit`, `StartUnit`, `StopUnit`. Not being root turns `remove_file` and
`kill` into no-ops, as their ignored results do.

External and modelled from how the code uses it: systemd with
`Restart=always` and `WantedBy=multi-user.target`, pid reuse, reboot, init.

Simplifications: `daemon_pid()` reads the file and looks at /proc in one step
(a pid once gone stays gone, so splitting it adds only a second daemon's
overwrite between the two); log rotation, the snapshot's age and output are left
out; `daemon-reload` changes no state that is kept.

`StepFails` is a failing command or system call, at the steps in `Failing`, and `FailsTo`
says where the operation goes on. `ReportedSteps` are those whose failure is looked at, or
which leave nothing behind that the operation's Ok would deny: a spawn, a kill, the write
of the unit file, `daemon-reload`, and the `systemctl enable` and `start` of `enable`.
`IgnoredSteps` are what `stop` and `disable` do with `let _ =` (service.rs:161-167,
224-237): the second signal, the removals, `systemctl stop` and `disable`. A command that cannot be run is an
error where `?` follows `run_cmd`, one that exits with a failure is not
(service.rs:391-397). A step that fails changes nothing; a write of the unit file that
fails half-way and leaves it truncated is left out.

### Session

`view` is the TUI, `muted` remembers that the user stopped the log. A command of
the TUI is `Command` (with the look that `exec_terminal_command` takes first), the
steps of `Service`, and `Finish` with what the code does on Ok: `Adopted` (refresh
and close the log if a daemon is found) or `Dropped` (refresh and log again). The
other clients move as in `Service`. `Hangup` is the loss of the terminal: SIGHUP
goes to its foreground process group, which the daemon spawned by the TUI shares.
`Launch` is a new TUI; `LaunchedLater` keeps it back, under `Serial`, while somebody else's
operation is under way, and, under `Prompt`, until a daemon that the last hang-up has signalled
is gone.

### SnapFile and SnapRegister

Two names (`snap.tmp`, `snap.bin`) and inodes of `N` chunks. `fs::write` is an
open that truncates followed by chunk writes at the writer's own offset;
`Rename` moves whatever `snap.tmp` names at that time; `Abandon` is a failed write or
the death of the daemon; a reader stats, opens by name and reads chunk by chunk
from the inode it opened. `SnapRegister` is the promise: publishing, removing,
and reads that return one whole snapshot current at some moment of the read.
The mapping takes the first chunk of the inode that `snap.bin` names for the
register and that of an open reader's inode for the value it is about to return.

### Setup

`grub`, `boot`, `cmdline` are the three versions of the parameters; `live` is what
a reboot resets; `grubPre` and `sysPre` are the saved baselines, `Empty` between
`fopen` and `fputs`. `proc` is the TUI and a daemon, each with the config it works
on, and with `reboot` and `err`, from which `benchmon_setup` makes its status (a reboot
comes before an error: setup.c:763-765). Apply is `SysctlStat … Return`; Teardown is `Unstrip … Untune`, the
`StripAll` and `UpdateAll` (sed, and after it update-grub) that `run_teardown_inner` adds
for a restore point without cores, and then the whole of setup with the restore point's config. A core list is a model
value; `Within` says which list's text occurs in which (`strstr`), `Elsewhere` which
occurs in a parameter of /proc/cmdline that is not benchmon's, `Ranges` which
lists `capture_current_state()` cannot parse.

`Faults` says what may go wrong: a kill or a power failure at any step, update-grub, SMT
that the kernel does not let be switched off (setup.c:320-327, an error), a failing
swapoff (which nobody notices), and a missing /etc/default/grub (`NoGrubFile`: an error
in setup, setup.c:222-226; in the restore the saved flags are forgotten, setup.c:162 and
783; in `run_teardown_inner` nothing). The step of the namespaces may always fail. The
other commands (sed itself, sysctl -w, swapon) are taken to succeed.

`Passed` is `all_checks_passed` of verify.c over the same state, so that what an
Apply leaves and what the verification behind it says can be compared (`SetupPasses`).

Simplifications: the settings saved in `preconfig_sysctl.json` are one value and are
tuned in one step; frequency, IRQ, service and process-isolation steps only switch things off like
SMT and swap and are left out; a namespace pair is created or not, in one step;
a parameter line is a function from names to values, without its order.

### Tui

The state of `App` that `handle_key` reads to decide. `HandleKey` is the cascade of
layers: root modal, reboot modal, picker, edit, Terminal, Logs/Monitor, global.
Scrolling is in `Display`, the values of the fields are in `Form`; whether a
teardown needs a reboot or saves points is chosen freely.

### Form

`Shows`, `Commits`, `Toggles` and `Keyed` are the numberings of the fields in
`get_config_value`, `commit_edit`, `toggle_field` and `to_json`, each translated from
its own `match`; `FoundIn` is the list of names that `from_json` looks for, `Given` the
struct of `make_c_cfg` with the names of the header. `Loaded` is `load_active`, with the default where
there is no config. `FormKey` is a key of
`Tui` together with its effect on the form, so a behaviour of `Form` is one of
`Tui`. The file is the config it was written from, how many of its keys are whole, and
what the key after them has been left with (`Remains`): a number keeps its first digits, a text
that is cut within a character makes the file invalid UTF-8, of which `load_active` reads
nothing (`Invalid`, for the texts in `Wide`), and everything else lacks its end and is not
found. `SaveFails` is a power
failure, or a full disk, in the middle of `fs::write`.

Simplifications: a text in the buffer stands for what it parses to; numbers are below
a hundred and not negative; `trim()` is left out; after `SaveFails` the model ends.

### Monitor

`table` is the descriptor table of the process, `fd` the fields of the struct, which
`calloc` makes 0, and `New … CloseDiskDir` is `benchmon_monitor_init` open by open; `Drop` is
`benchmon_monitor_destroy`, called when the TUI drops its monitor, and closes what the
counts say (`Closed`). Between the steps interfaces come and go. An open fails
where the file is not there, where the machine has no such event (`Denied`), for
a disk that has gone since it was listed (`OpenDisk`), and where no descriptor is
free; the process opens and closes a file of its own
(`OpenOwn`). `racing` and `stayed` remember which interfaces appeared, and which stayed,
during an init.

Simplifications: a core's descriptors are one event and the frequency in the run;
veths are found in one step (`FindVeth`); the same name in
two namespaces is two interfaces; `benchmon_snapshot` only reads.

### Display

A list is its length, a snapshot its three counts and the tick it was taken at.
`From`, `To`, `Visible` and `Clamped` are the arithmetic of each `render`, with its
saturating subtractions; `Up` and `Down` are those of main.rs, which clamp by another
number than `render` does. `Pushed` is `ingest_snapshot`; `Refresh` is the clearing
in `refresh_verify`.

## 3. Runs

| Run | Question | States, time |
|---|---|---|
| `service_disciplined` | all five operations one at a time, two root clients and one without root, a crash, a reboot, a reused pid, steps whose failure is reported: one daemon at most, disable brings all down, the mode file is the serving daemon's | 0.85 M, 45 s |
| `service_liveness` | overlapping start, stop, enable, disable by root and by a user without root, waits of two polls that run out at any moment, failing steps, ignored ones too: a stop by root that returned Ok has its target dead or dying; under fairness each operation returns and a unit due to start gets a serving daemon | 0.20 M, 2 min |
| `session_alone` | a root TUI and a user without root, transient daemons: reachable, stopped stays stopped; exactly one recorder | 0.33 M, 13 s |
| `snap_one` | one daemon that fails, dies, returns, two readers, removals: refinement of the register, no torn read | 0.35 M, 10 s |
| `setup_kills` | Apply, Teardown, daemon start, edit, kill, power failure: baselines, flags and isolcpus agree, undo reaches what the form names, the last Apply boots, without what was toggled off | 2.7 M, 2 min |
| `setup_faults` | any restore point, update-grub and SMT that fail, no /etc/default/grub, kernel updates, a machine with cores of its own that occur in the form's list and elsewhere in the command line: a finished Teardown leaves nothing tuned, a setup that reports Ok verifies | 1.2 M, 30 s |
| `tui_keys` | every key in every state: overlays stay on the Setup tab, selections exist, the history shows its entry, teardown is verified; edits land where they are shown, the next daemon gets what was applied, a torn file is a mixture | 0.35 M, 2 min |
| `monitor_refresh` | monitors made and dropped while interfaces come and go, SMT is switched and descriptors run out: each closes its own, misses nothing | 0.68 M, 1.5 min |
| `display_view` | keys, wheel, resizes, commands, ticks and refreshes: windows in their lists, counters in their texts, graphs that match | 85 K, 80 s |
| `service_disable_transient` | expected violation of `DisabledIsDown` | |
| `session_hangup` | expected violation of `ClosingStopsNothing` | |
| `setup_reapply` | expected violation of `SetupIsIdempotent` | |

Each property is stated in words, with the lines it is about, where it is defined.
The runs check no type invariant that section 4 proves, except that of `Session`, whose
variables are those of two modules.

### Switches, and what they assume

Several properties hold only of a user or a machine that behaves. The assumption
is a constant, so that it is visible and can be turned off:

- `Serial` (Service, Setup): one operation at a time. Nothing in the code enforces
  it; with two overlapping `start` both probes find no daemon.
- `Prompt` (Service): a child names itself within the two seconds of `start`, a
  signal arrives within the three of `stop` and, in Session, before the next TUI is
  launched. In Setup: whoever changed `grub.cfg`
  reboots before going on. Without it `GrubBaseline` and `FlagsMatchIsolcpus` fail.
- `Disciplined` (Service): no transient daemon beside a unit.
- `Bare` (Setup): Teardown only to restore points without isolated cores.
- `Failing` (Service), `Faults`, `KernelUpdates` (Setup): which faults there are. After a
  failing step that is ignored, `disable` returns Ok beside a daemon or a file that is
  still there (section 5), so `service_disciplined` has the reported ones and
  `service_liveness`, whose properties do not depend on it, has both.
- `Elsewhere` and `Within` (Setup): whether a core list occurs where `setup_grub` takes
  it for its own. It does in `setup_faults`; in `setup_kills`, where `LastApplyHolds` would
  fail (section 5), it does not.

### Bounds, and why they are enough

- Four operations and three or four incarnations reach start–stop–start, a
  second daemon, a restart by systemd and a reboot in any order; one crash and
  one reboot may strike at any step. The hazards need at most two operations and
  two daemons, as the violations found show. Two or three polls: first, last, and
  one between.
- `SnapFile`: two chunks tell a torn read from a whole one; three snapshots let a
  reader hold an old inode while two newer ones are placed; four inodes are the
  most that two readers, `snap.tmp` and `snap.bin` can hold. The theorem lifts it.
- `service_liveness`: two operations between three callers, one without root, so that
  each pair of them overlaps; two polls, so that a wait goes on once and then ends, and
  three incarnations: the two that two operations may spawn, or systemd's daemon, its
  successor after a crash, and a spawned one.
- `Setup`: two core lists (the same or another one), one flag (a second one is
  treated alike), in `setup_kills` the default and two more forms, one without the flag.
  `setup_faults` has no flag and one form, and is about what fails. No bound on Applies, Teardowns,
  reboots or kills.
- `Tui` and `Form`: four command lines (empty, quit, verify, other), a history of two,
  so that the cut at its head happens (500 in the code), two restore points; for each
  kind of field one value that parses, the empty or zero one, and one that does not.
  `CONSTRAINT OneOfThem` in `MCForm` keeps at most one field apart from its default and
  does not let a behaviour use both the command line and the form, which share
  nothing but the keys: a swapped or forgotten field shows with one field changed.
- `Monitor`: room for two cores, two interfaces and one disk (64, 8 and 8), one more
  of cores and interfaces than that, ten descriptors, which is fewer than a full
  monitor needs; one interface comes up while an init runs. SMT siblings have the
  highest numbers in the run, the theorem has any.
- `Display`: two shapes of snapshots that grow one list and shrink another, two areas,
  none at all and a small one; three lines, three ticks, graphs of two samples.
  `OneOfThem` in `MCDisplay` keeps the two texts and the Monitor tab apart, which
  share only the keys and the area. The theorems lift all of it.
- `MaxOps`, `MaxCrashes`, `MaxReboots`, `MaxReuses`, `MaxVersion`, `MaxHistory`,
  `MaxPoints`, `MaxFd`, `MaxLines`, `MaxTicks`, the bound in `IfaceUp` and the two
  constraints are the only bounds. `CHECK_DEADLOCK FALSE` stands where a model
  ends because its operations are used up or the TUI has quit.
- Process incarnations are symmetric in `service_disciplined` and `session_alone`: no
  action orders them. The liveness run uses no symmetry; its incarnations are numbered
  and born in the order of their numbers (`InOrder`), which no step depends on.

### Fairness

`FairSpec` asks weak fairness of each client's step, each daemon's step and
pending signal, and systemd's spawn: threads of the operating system that run, and
a supervisor that restarts. Invoking an operation, quitting, crashing,
rebooting and failing are never required: a step that fails moves the operation on, so a
client's step includes it. A client's wait is one step of a counted loop, so
weak fairness suffices for `OperationsReturn`.

## 4. Proofs

`tlapm` checks these for every value of the constants allowed by the named
assumptions of the modules.

- `Typed` in `Service`, `SnapFile`, `Setup`, `Tui`, `Monitor` and `Display`: `Spec => []TypeOK` (of `SnapFile` with one
  writer); `SessionTyped` and `FormTyped` for the two that extend one of them.
- `ServiceProofs`, without any assumption: `StopEndsWhatItFound` (`StopOkTargetDown`), from
  `TargetInv`, which says of each client with a pid in hand what its step makes certain
  about that process. Overlapping operations and waits that run out are in.
- `ServiceProofs`, with systemd: under `Orderly` (`Serial`, `Prompt`, only failures that are
  reported, and `Disciplined` or no `enable` at all) for any clients, root or not, any number of processes, operations,
  crashes, reboots and reuses: `NeverTwo` (`AtMostOneDaemon`), `DisabledStaysDown`
  (`DisabledIsDown`), `DisabledIsClean` (`DisableLeavesNothing`) and `ModeIsRight`
  (`ModeIsDaemons`). Under `Transient` (`Serial`, `Prompt`, only reported failures, operations start, stop,
  status):
  `Found` (`DaemonReachable`), `StaysDown` (`StoppedStaysStopped`) and `StopIsClean`
  (`StopLeavesNothing`), which need that systemd does not start a daemon behind the back
  of a stop. None of them is inductive: that a probe finds no daemon means something only
  if a daemon that has not yet named itself is being waited for, and that a stopped unit
  stays down only if no other daemon is systemd's. `ServiceInv` adds this. For any state:
  one operation is under way (`OneOperation`) and keeps to its own steps (`OpSteps`), only
  root gets to the PID file (`NamedIsRoot`), and `UnitInv`: systemd has at most one
  process, which is the persistent one (`Managing`), where a unit is installed no
  transient daemon is (`Apart`), how far a disable has come (`DisableSteady`). And where
  no unit is installed `ByHand`: an unnamed daemon is polled by its `start` while the PID
  file names nobody (`BootIsPolled`), root spawns or unlinks only when no daemon runs
  (`NoneBeforeSpawn`), how far a stop has come (`StopSteady`). One lemma per action
  preserves it. `Prompt` is used where the last poll of `start` and `stop` ends,
  `Disciplined` where `enable` and `start` begin.
- `SessionProofs`, under `Alone` (`Transient`, and the TUI is the only client of root; users
  without root are in, and so are quitting, hang-ups, new TUIs, crashes, reboots and pid
  reuse): `NeverTwice` (`OneRecorder`), `NeverNobody` (`SomebodyRecords`), `NoLogOfItsOwn`
  (`LoggerIsOwn`), and again `DaemonReachable`, `StoppedStaysStopped` and
  `StopLeavesNothing`, because a TUI that is hung up on leaves an operation unfinished,
  as no client of `Service` does. The steps of `Session` that `Service` has too keep
  `Core`, the part of `ServiceInv` without `ByHand`, by the lemmas of `ServiceProofs`.
  `ByHand` alone is not inductive: after a hang-up during `start` an unnamed daemon
  is polled by nobody (`Loose`; its SIGHUP is pending, and it is the only one). The rest of
  `SessionInv` relates view and daemon: a closed TUI has no children (`WhenClosed`,
  `Family`), a signal is one of its own stop (`WhenOpen`), a TUI that does not piggyback and
  has not just started a daemon has none beside it (`Own`), the PID file names a
  daemon or what is left of it (`PidNames`), a TUI that piggybacks has a daemon (`NoGap`).
- `SnapFileProofs`, `WholeReads` and `BinWhole`: with one writer, for any readers,
  inodes, chunks and snapshots, `NoTornRead` and `BinIsWhole`. The invariant `SnapInv`
  says that the writer's inode is the one `snap.tmp` names and nobody else's, with
  chunks up to its offset written; that what `snap.bin` names is whole; and that each
  open reader's inode is a placed, whole one of which it holds a prefix.
- `SnapFileProofs!FileIsRegister`: with one writer `Spec => IsRegister`, the
  refinement of `SnapRegister`, by one step or stutter per action.
- `SetupProofs`, about the runtime settings: with `Serial`, for any lists, flags, forms,
  restore points and faults, `SysctlBaseline` and `TeardownUntunes`. `SettingsInv` says
  that no tuned value is saved or about to be (`seen`), that while nothing is saved
  nothing is tuned, and that a caller past `capture_sysctl_preconfig` has something
  saved. `UndoesForm` (`TeardownUndoesForm`) adds that only the TUI restores, so that the
  form cannot change under it. `Verifies` (`SetupPasses`) assumes
  nothing, and with any faults: a caller past `setup_grub` that has neither a reboot nor an
  error to report has found its parameters in the running kernel, and one past `setup_smt` without
  an error has found or left SMT off (`VerifiedOf`).
- `SetupProofs`, about the boot parameters: `BootAssumption` is `Serial`, `Prompt`, `Bare`,
  an update-grub that works, an /etc/default/grub that is there, and a machine without the
  parameters; kills, power
  failures and kernel updates are in. `FlagsSaved` (`GrubBaseline`) and `FlagsMatch`
  (`FlagsMatchIsolcpus`) rest on `ParamsInv`: flags are written to GRUB only while a
  baseline is saved, so a caller that finds none saved runs under a kernel
  without flags, which needs `Prompt` (the running kernel is the one in `grub.cfg`)
  and `Bare` (setup after a restore saves nothing). `AppliesHold` (`LastApplyHolds`)
  also wants that no core list occurs in another one or elsewhere in the command line,
  and that nobody else runs update-grub: these are the
  ways in which the early return of `setup_grub` goes wrong.
- `MonitorProofs`, `ClosesItsOwn` (`Owned`) and `NoneLeft` (`NoLeak`): for any machine, any
  limits and any table. The invariant is an account of the table: a good field that
  init has filled is open on its file (`Refer`), no two share a descriptor (`Distinct`), and
  what is open is the process's, a field's, or the one case of a leak (`Accounted`).
- `MonitorProofs`, `MissesNothing` (`NothingMissed`): for any number of interfaces, slots and
  descriptors. `Reading` says that an interface which has been there since the init began is
  still ahead in a directory, or has a slot (`Handled`) with good counters (`Filled`); that it
  is in one directory (`Sorted`) and no name stands twice (`NamedOnce`). The last makes a
  full array harmless where there are no more interfaces than slots, by the
  pigeonhole principle (`AllNamed`). `ReadsAllCores` (`AllCoresRead`) is about any numbering
  of cores and siblings: `sysconf` counts at least the cores that stayed online
  (`CoresCounted`), so each of them that is numbered below how many they are is read. Where
  siblings are numbered last, these are all of them; otherwise they are not, and the
  code does not do what benchmon.h says (section 5).
- `DisplayProofs`, `Windows`, `Counters`, `Graphs`, `GraphsEnd`, `Ends` and `Reveals`: for any
  areas, shapes, pages and lengths. `HomeAndEnd` and `UpReveals` are action
  properties that only the proofs check.
- `TuiProofs`, `Overlays`, `Selections`, `History`, `Tidy` and `Verified`, from an invariant in
  two halves, the modals (`FrontInv`) and the command line (`TerminalInv`), each of
  which the keys of the other leave alone. They are about `Spec` of `Tui`. `HistoryIsTidy`
  (bounded, no entry empty, none like the one before) is in no run.
- `FormProofs`: `FormIsTui`, that `FormSpec` implements `Spec`, so that the theorems of
  `TuiProofs` hold with the form as well; `FormTyped`, `EditsShown`, `OthersStay`, `Applied`
  and `TornMixed`, for any texts, lists, numbers and losses. The invariant has the
  values that each field may have (`ConfigOK`), the buffer while an edit is open
  (`BufferOK`) and what a whole and a cut file say of the config that was saved
  (`ActiveOK`). `FormAssumption` tells a nan, a text with a quote, an invalid file and nothing
  apart from the other values.

Every invariant of the runs is stated by a theorem, under the assumptions that the run's
constants satisfy. Only model-checked: liveness (`OperationsReturn`, `PersistentRecovers`),
which is outside the prover's reach as `ENABLED` is; and what the assumptions leave out:
`Session` with a unit or with a second client of root is in no run and no theorem. The three
expected violations are single behaviours, which TLC shows.

## 5. Where the code and its documents part

Three disagreements have a run of their own (section 3):

- `disable` stops only the unit; a transient daemon goes on while its PID file is
  removed (service.rs:224, 233; main.rs:8 "Remove systemd unit + stop daemon").
- The daemon spawned by the TUI is in its process group: closing the terminal
  kills it (service.rs:119; app.rs:795 "closing the TUI does NOT stop monitoring").
- A second identical Apply strips `nohz_full` and `rcu_nocbs` from
  `/etc/default/grub` and returns before writing them again (setup.c:234, 263;
  setup.c:4 "calling setup twice is safe").

The others were met while modelling. Those of the first list are behaviours of these
models and bound what the passing runs may assume:

- Two daemons share `snap.tmp`, and a reader is given a mixed or zeroed struct
  (service.rs:363; 361-362 "so TUI never reads a partial struct").
- `daemon_pid()` takes a zombie child of the TUI for a running daemon
  (service.rs:62, 119; 57 "PID of the running daemon").
- `stop` of a persistent daemon is undone by `Restart=always` in five seconds
  (service.rs:186; app.rs:715 "daemon will restart on next boot").
- `stop` without root reports Ok though both signals were refused (service.rs:157).
- A probe that judged a PID file stale unlinks the one that systemd's new daemon
  has just written, and no client finds that daemon again (service.rs:64-66).
- A TUI that records and then finds a foreign daemon piggybacks with its own log
  open (app.rs:313; 148 "only used when NOT in piggyback mode").
- The PID file is visible before the mode file, and stop leaves the mode file: a
  client can show the previous daemon's mode (service.rs:305-311; app.rs:107).
- `strstr` finds a core list inside a longer one and the Apply is skipped
  (setup.c:257; 253 "exact params").
- A flag toggled off is stripped, but the early return skips `update-grub` and the
  next boot has it again (setup.c:263; 231-232). `LastApplyHolds` asks for its absence
  only after an Apply that wanted a reboot.
- The core list is looked for in the whole of /proc/cmdline, so that any other parameter
  with these digits in it will do (setup.c:257; 253 "exact params").
- `disable` reports Ok after a `systemctl stop` or a removal that failed, beside a daemon
  or files that are still there (service.rs:224-237; main.rs:8 "stop daemon").
- Teardown without an /etc/default/grub forgets the saved flags, and one that is put back
  later keeps benchmon's (setup.c:162, 783; 780-781 "restored verbatim").
- Teardown to a restore point with cores deletes the saved flags and lets setup save
  benchmon's own as the baseline (app.rs:458, setup.c:219; 45-46 "BEFORE").
- Setup in two processes at once can save tuned sysctls as the baseline
  (setup.c:422; 415).
- Flags the machine had are restored and then stripped again by
  `run_teardown_inner` (app.rs:446; setup.c:780-781 "restored verbatim").
- `isolcpus=2-5` is captured as no cores, and Teardown to that point removes the
  parameter (snapshot_store.rs:323; 301-302).
- An Apply that requires a reboot is not saved as active; the daemon applies an
  older config after it (tabs/setup.rs:571; app.rs:744).
- Teardown with cores reports "Pre-apply state restored" with SMT still off
  (app.rs:471).
- Teardown undoes what the form says at the time: a namespace or swap that was applied
  under another form stays (app.rs:425; 471 "Pre-apply state restored").
- `benchmon_teardown` rewrites GRUB (setup.c:783; benchmon.h:147 "Does NOT undo
  GRUB changes").
- F1 to F5 do nothing on the Monitor, Logs and Terminal tabs (main.rs:322-333;
  README.md:74-78 of the repository).
- Without a list of cores the monitor reads as many cores as are online, from 0
  on: with siblings numbered among the cores and SMT off, some that are offline are read
  and the last ones are not (monitor.c:330-335; benchmon.h:328 "NULL = all").
  `AllCoresRead` is about those numbered below how many are online.
- An interface that appears between the failed open of its `rx_bytes` and that of another
  counter leaves the descriptors of the others open for good (monitor.c:115-120).
- Home in the Monitor tab sets its counters to 999, which shows the last items under the
  title "top", and up to 999 presses of ↓ then have no effect (main.rs:304-308;
  monitor.rs:38-39).
- A new TUI shows the default config, not the active one (app.rs:178).
- The loss is shown with two digits, so that confirming an edit turns 0.123 into 0.12
  (tabs/setup.rs:394, 486); "nan" and "inf" are taken for a loss, and read back as the
  default (snapshot_store.rs:206).
- A quote in a text ends it on the next load, and a file that was cut short can give a
  number without its last digits, a real-time priority of 5 for 50
  (snapshot_store.rs:35). One that was cut within a character gives the default
  altogether (snapshot_store.rs:40).

And those of the second list are outside the models:

- "ALL PASSED ✓" stands over rows that are ✗: only the hypervisor, SMT and isolcpus clear
  `all_checks_passed` (dashboard.rs:118-127, verify.c:148-176).
- verify.c:20-24 says that its defaults match those of ffi.rs; `veth-s` and `veth-c` do
  not match `veth-srv` and `veth-cli` (ffi.rs:88-89).
- Restore points do not have IRQ balancing, `max_cstate`, multi-user mode, netem or
  offloading, and SMT and boost are not switched on again before a reboot
  (snapshot_store.rs:1-2 "so Teardown can restore any previous state", and line 1 names
  /tmp where line 15 has /var/lib/benchmon).
- A parameter that comes first after the quote, as in the line that `setup_grub` itself
  appends, is never stripped, since the sed patterns want a blank before it
  (setup.c:289, 234).
- A core list such as `2,x,4` loses the `x` without a message; `usage_pct` is never
  computed; the histories of networks and disks are filled and never drawn; the lines
  of log and terminal are never dropped.
- `used_bytes` is an unsigned difference of four numbers of /proc/meminfo and wraps
  where a container's file is not consistent (monitor.c:85).

## 6. Not modelled

- The values that `benchmon_snapshot` and `read_meminfo` compute, the lines of the NDJSON
  log, and the sed and /proc patterns: formats, of which only their effect is modelled.
- Colours, titles and the dashboard; the field-by-field FFI copies, which change no
  state; the generated bindings.
- Frequency, IRQ, service and process-isolation steps of setup, which only switch
  things off as SMT and swap do, and the inside of `setup_network`.
- The kernel passthrough, a set of stubs that return an error (verify.c:318-341).
- Times enter only as polls that run out: restore points named by the second and
  snapshots older than two seconds are not distinguished.

## 7. Plan

Done: `Service` (the core), `SnapFile` over `SnapRegister`, `Setup` with the verdict of
`verify.c`, `Tui`, `Session` over `Service`, `Form` over `Tui`, `Monitor`, `Display`, and
proofs about all of them.

Next:

1. Proofs: `DaemonReachable` with a unit, for which a stale PID file that is unlinked
   under systemd's new daemon has to be excluded (section 5); `SnapFile` with the daemons of
   `Service`, so that its one writer is a theorem and no longer a constant.
2. In `Session`: `enable` and `disable` from the TUI, and a second TUI.
3. In `Setup`: `max_cstate`, the order of parameters and the sed patterns; restore
   points with the second they were taken in.
