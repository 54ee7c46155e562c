---------------------------------- MODULE Form ----------------------------------
(***************************************************************************)
(* The configuration on its way from the keyboard to the library and the   *)
(* disk, and from there to the next daemon: the form of the Setup tab      *)
(* (tui/src/tabs/setup.rs), the C struct (ffi.rs) and active_config.json   *)
(* (snapshot_store.rs), on top of the keys of Tui.  Each of them lists the *)
(* fields of SetupConfig for itself.                                       *)
(*                                                                         *)
(* A loss is in thousandths of a percent and a number is below a hundred.  *)
(* A text in the buffer stands for the value it parses to.                 *)
(***************************************************************************)
EXTENDS Tui

CONSTANTS
    CoreLists,  \* what may be typed: lists of cores,
    Numbers,    \* numbers,
    Losses,     \* losses,
    Words,      \* words without a quote in them,
    Quoted,     \* the word x"y,
    Wide,       \* those of the words with a character of several bytes,
    NaN,        \* and "nan" or "inf", which parse::<f64>() takes for a number;
    Junk,       \* any other text, where a number or a list is wanted
    Invalid     \* the end of a file that is not valid UTF-8

VARIABLES
    config,     \* setup_config
    buffer,     \* setup_edit_buffer
    active,     \* active_config.json
    typed,      \* history: the last edit that was confirmed, until the next change
    applied     \* history: what the library was given by the Apply that saved it

formVars == <<config, buffer, active, typed, applied>>

-----------------------------------------------------------------------------
(* The lists of fields.                                                    *)

TextFields   == {"ns_server", "ns_client", "veth_server", "veth_client", "server_ip",
                 "client_ip", "server_cores", "client_cores"}
NumberFields == {"housekeeping_core", "max_cstate", "netem_delay_ms", "netem_jitter_ms",
                 "rt_priority"}

(* get_config_value(), from item 0 on.                                     *)
Shows ==
    <<"isolated_cores", "housekeeping_core", "disable_smt", "disable_frequency_boost",
      "max_cstate", "stop_irqbalance", "disable_swap", "isolate_multiuser", "ns_server",
      "ns_client", "server_ip", "client_ip", "netem_delay_ms", "netem_jitter_ms",
      "netem_loss_pct", "disable_offloading", "server_cores", "client_cores", "rt_priority",
      "disable_aslr", "tune_net_buffers", "drop_caches", "stop_timesyncd", "apply_nohz_full",
      "apply_rcu_nocbs">>

(* The rows of kind Toggle.                                                *)
Switches == {2, 3, 15} \cup 5..7 \cup 19..24

(* Delay and jitter have changed places.                                   *)
Commits_Swapped ==
    [i \in Edits |->
        CASE i = 0 -> "isolated_cores" [] i = 1 -> "housekeeping_core"
          [] i = 4 -> "max_cstate" [] i = 8 -> "ns_server" [] i = 9 -> "ns_client"
          [] i = 10 -> "server_ip" [] i = 11 -> "client_ip"
          [] i = 12 -> "netem_jitter_ms" [] i = 13 -> "netem_delay_ms"
          [] i = 14 -> "netem_loss_pct" [] i = 16 -> "server_cores"
          [] i = 17 -> "client_cores" [] i = 18 -> "rt_priority"]

(* commit_edit()                                                           *)
Commits ==
    [i \in Edits |->
        CASE i = 0 -> "isolated_cores" [] i = 1 -> "housekeeping_core"
          [] i = 4 -> "max_cstate" [] i = 8 -> "ns_server" [] i = 9 -> "ns_client"
          [] i = 10 -> "server_ip" [] i = 11 -> "client_ip"
          [] i = 12 -> "netem_delay_ms" [] i = 13 -> "netem_jitter_ms"
          [] i = 14 -> "netem_loss_pct" [] i = 16 -> "server_cores"
          [] i = 17 -> "client_cores" [] i = 18 -> "rt_priority"]

(* The flags have changed places.                                          *)
Toggles_Swapped ==
    [i \in Switches |->
        CASE i = 2 -> "disable_smt" [] i = 3 -> "disable_frequency_boost"
          [] i = 5 -> "stop_irqbalance" [] i = 6 -> "disable_swap"
          [] i = 7 -> "isolate_multiuser" [] i = 15 -> "disable_offloading"
          [] i = 19 -> "disable_aslr" [] i = 20 -> "tune_net_buffers"
          [] i = 21 -> "drop_caches" [] i = 22 -> "stop_timesyncd"
          [] i = 23 -> "apply_rcu_nocbs" [] i = 24 -> "apply_nohz_full"]

(* toggle_field()                                                          *)
Toggles ==
    [i \in Switches |->
        CASE i = 2 -> "disable_smt" [] i = 3 -> "disable_frequency_boost"
          [] i = 5 -> "stop_irqbalance" [] i = 6 -> "disable_swap"
          [] i = 7 -> "isolate_multiuser" [] i = 15 -> "disable_offloading"
          [] i = 19 -> "disable_aslr" [] i = 20 -> "tune_net_buffers"
          [] i = 21 -> "drop_caches" [] i = 22 -> "stop_timesyncd"
          [] i = 23 -> "apply_nohz_full" [] i = 24 -> "apply_rcu_nocbs"]

(* to_json()                                                               *)
Keyed ==
    <<"isolated_cores", "housekeeping_core", "disable_smt", "disable_frequency_boost",
      "max_cstate", "stop_irqbalance", "disable_swap", "isolate_multiuser", "ns_server",
      "ns_client", "veth_server", "veth_client", "server_ip", "client_ip", "netem_delay_ms",
      "netem_jitter_ms", "netem_loss_pct", "disable_offloading", "server_cores",
      "client_cores", "rt_priority", "disable_aslr", "tune_net_buffers", "drop_caches",
      "stop_timesyncd", "apply_nohz_full", "apply_rcu_nocbs">>

Fields == {Keyed[i] : i \in DOMAIN Keyed}
Place  == [f \in Fields |-> CHOOSE i \in DOMAIN Keyed : Keyed[i] = f]

(* SetupConfig::default()                                                  *)
Default ==
    [f \in Fields |->
        CASE f \in {"ns_server", "ns_client"} -> f
          [] f = "veth_server" -> "veth-srv"     [] f = "veth_client" -> "veth-cli"
          [] f = "server_ip" -> "10.0.0.1/24"    [] f = "client_ip" -> "10.0.0.2/24"
          [] f = "server_cores" -> "2,4"         [] f = "client_cores" -> "3,5"
          [] f = "isolated_cores" -> <<2, 3, 4, 5>>
          [] f \in {"housekeeping_core", "max_cstate"} -> 0
          [] f = "netem_delay_ms" -> 25          [] f = "netem_jitter_ms" -> 5
          [] f = "netem_loss_pct" -> 100         [] f = "rt_priority" -> 50
          [] OTHER -> f # "isolate_multiuser"]

Typed(f) ==
    CASE f = "isolated_cores" -> CoreLists \cup {Junk}
      [] f = "netem_loss_pct" -> Losses \cup {NaN, Junk}
      [] f \in NumberFields   -> Numbers \cup {Junk}
      [] f \in TextFields     -> Words \cup {Quoted}

Value(f) ==
    CASE f = "isolated_cores" -> CoreLists \cup {Default[f]}
      [] f = "netem_loss_pct" -> Nat \cup {NaN}
      [] f \in NumberFields   -> Nat
      [] f \in TextFields     -> Words \cup {Quoted, Default[f]}
      [] OTHER                -> BOOLEAN

ASSUME FormAssumption ==
    /\ Numbers \subseteq Nat /\ Losses \subseteq Nat /\ NaN # Quoted /\ Wide \subseteq Words
    /\ Invalid # None /\ Invalid \notin Nat
    /\ None \notin Nat \cup BOOLEAN \cup CoreLists \cup Words \cup {Quoted, NaN}
                     \cup {Default[f] : f \in TextFields \cup {"isolated_cores"}}
    /\ Quoted \notin Nat \cup BOOLEAN \cup CoreLists \cup {Default["isolated_cores"]}
    /\ NaN \notin Nat \cup BOOLEAN \cup CoreLists \cup Words
                    \cup {Default[f] : f \in TextFields \cup {"isolated_cores"}}

FormTypeOK ==
    /\ \A f \in Fields : config[f] \in Value(f)
    /\ buffer # None => buffer \in Value(Shows[item + 1]) \cup {Junk}
    /\ active # None => active.keys \in 0..Len(Keyed) /\ \A f \in Fields : active.of[f] \in Value(f)

-----------------------------------------------------------------------------
(* The struct and the file.                                                *)

Number(bool) == IF bool THEN 1 ELSE 0

(* make_c_cfg() and opt_cstring(): the struct, whose pointers are null for *)
(* an empty string or list.  (lock_frequency_mhz is always 0.)             *)
Given(c) ==
    LET Pointer(v) == IF v = "" THEN None ELSE v IN
    [isolated_cores       |-> IF c.isolated_cores = <<>> THEN None ELSE c.isolated_cores,
     isolated_cores_count |-> Len(c.isolated_cores),
     housekeeping_core    |-> c.housekeeping_core,
     disable_frequency_boost |-> Number(c.disable_frequency_boost),
     disable_smt          |-> Number(c.disable_smt),
     max_cstate           |-> c.max_cstate,
     stop_irqbalance      |-> Number(c.stop_irqbalance),
     disable_swap         |-> Number(c.disable_swap),
     isolate_multiuser    |-> Number(c.isolate_multiuser),
     ns_server_name       |-> Pointer(c.ns_server),   ns_client_name   |-> Pointer(c.ns_client),
     veth_server_name     |-> Pointer(c.veth_server), veth_client_name |-> Pointer(c.veth_client),
     server_ip            |-> Pointer(c.server_ip),   client_ip        |-> Pointer(c.client_ip),
     netem_delay_ms       |-> c.netem_delay_ms,       netem_jitter_ms  |-> c.netem_jitter_ms,
     netem_loss_pct       |-> c.netem_loss_pct,
     disable_offloading   |-> Number(c.disable_offloading),
     server_cores         |-> Pointer(c.server_cores), client_cores    |-> Pointer(c.client_cores),
     rt_priority          |-> c.rt_priority,
     disable_aslr         |-> Number(c.disable_aslr),
     tune_net_buffers     |-> Number(c.tune_net_buffers),
     drop_caches          |-> Number(c.drop_caches),
     stop_timesyncd       |-> Number(c.stop_timesyncd),
     apply_nohz_full      |-> Number(c.apply_nohz_full),
     apply_rcu_nocbs      |-> Number(c.apply_rcu_nocbs)]

(* {:.2}                                                                   *)
Shown(f, v) == IF f = "netem_loss_pct" /\ v # NaN THEN ((v + 5) \div 10) * 10 ELSE v

(* What is left of the value that a file ends in: a number loses digits, a *)
(* character may lose some of its bytes, and everything else lacks its end *)
(* and is not found.                                                       *)
Remains(f, v) ==
    CASE f \in NumberFields -> {v} \cup IF v >= 10 THEN {v \div 10} ELSE {}
      [] f = "netem_loss_pct" /\ v # NaN -> {v, (v \div 10) * 10, (v \div 100) * 100, 0}
      [] f \in TextFields /\ v \in Wide -> {Invalid}
      [] OTHER -> {}

(* The keys up to `keys' are whole, and `last' is what the next one has.   *)
Whole(c) == [of |-> c, keys |-> Len(Keyed), last |-> None]
Torn(c) ==
    {[of |-> c, keys |-> n, last |-> None] : n \in 0..(Len(Keyed) - 1)}
    \cup UNION {{[of |-> c, keys |-> n, last |-> v] : v \in Remains(Keyed[n + 1], c[Keyed[n + 1]])} :
                n \in 0..(Len(Keyed) - 1)}

(* What follows a key in the file, if the key is there.                    *)
Found(file, key) ==
    IF Place[key] <= file.keys THEN file.of[key]
    ELSE IF Place[key] = file.keys + 1 THEN file.last ELSE None

(* from_json(): the value it looks for under each name.  A text ends at its*)
(* first quote, and a NaN has no digits.                                   *)
FoundIn(file) ==
    LET Text(key)  == IF Found(file, key) = Quoted THEN "x" ELSE Found(file, key)
        Float(key) == IF Found(file, key) = NaN THEN None ELSE Found(file, key)
        Other(key) == Found(file, key)
    IN
    [isolated_cores     |-> Other("isolated_cores"),
     housekeeping_core  |-> Other("housekeeping_core"),
     disable_smt        |-> Other("disable_smt"),
     disable_frequency_boost |-> Other("disable_frequency_boost"),
     max_cstate         |-> Other("max_cstate"),
     stop_irqbalance    |-> Other("stop_irqbalance"),
     disable_swap       |-> Other("disable_swap"),
     isolate_multiuser  |-> Other("isolate_multiuser"),
     ns_server          |-> Text("ns_server"),    ns_client    |-> Text("ns_client"),
     veth_server        |-> Text("veth_server"),  veth_client  |-> Text("veth_client"),
     server_ip          |-> Text("server_ip"),    client_ip    |-> Text("client_ip"),
     netem_delay_ms     |-> Other("netem_delay_ms"),
     netem_jitter_ms    |-> Other("netem_jitter_ms"),
     netem_loss_pct     |-> Float("netem_loss_pct"),
     disable_offloading |-> Other("disable_offloading"),
     server_cores       |-> Text("server_cores"), client_cores |-> Text("client_cores"),
     rt_priority        |-> Other("rt_priority"),
     disable_aslr       |-> Other("disable_aslr"),
     tune_net_buffers   |-> Other("tune_net_buffers"),
     drop_caches        |-> Other("drop_caches"),
     stop_timesyncd     |-> Other("stop_timesyncd"),
     apply_nohz_full    |-> Other("apply_nohz_full"),
     apply_rcu_nocbs    |-> Other("apply_rcu_nocbs")]

(* The two addresses are read under each other's name.                     *)
Loaded_Crossed(file) ==
    LET found  == FoundIn(file)
        Key(f) == CASE f = "server_ip" -> "client_ip" [] f = "client_ip" -> "server_ip" [] OTHER -> f
    IN  IF file.last = Invalid THEN Default
        ELSE [f \in Fields |-> IF found[Key(f)] = None THEN Default[f] ELSE found[Key(f)]]

(* A text that is not in the file is empty.                                *)
Loaded_Zeroed(file) ==
    LET found == FoundIn(file) IN
    [f \in Fields |-> IF found[f] # None THEN found[f]
                      ELSE IF f \in TextFields THEN "" ELSE Default[f]]

(* load_active(), and what its callers take when there is none: the default*)
(* for whatever is not found, and for everything when read_to_string() does*)
(* not get as far as from_json().                                          *)
Loaded(file) ==
    LET found == FoundIn(file) IN
    IF file.last = Invalid THEN Default
    ELSE [f \in Fields |-> IF found[f] = None THEN Default[f] ELSE found[f]]

-----------------------------------------------------------------------------
FormInit == Init /\ config = Default /\ buffer = None /\ active = None
            /\ typed = None /\ applied = None

Field == Shows[item + 1]

InForm == Free /\ tab = "Setup"
InEdit == ~root /\ ~reboot.shown /\ ~picker.on /\ tab = "Setup" /\ editing

(* handle_enter() on a field that is edited.                               *)
Open(k) ==
    /\ InForm /\ k = "Enter" /\ item \in Edits
    /\ buffer' = Shown(Field, config[Field])
    /\ UNCHANGED <<config, active, typed, applied>>

TypeIn(k) ==
    /\ InEdit /\ k \in Chars \cup {"Backspace"}
    /\ buffer' \in Typed(Field)
    /\ UNCHANGED <<config, active, typed, applied>>

(* What does not parse is taken.                                           *)
Committed_Junk == [config EXCEPT ![Commits[item]] = buffer]

Committed == IF buffer = Junk THEN config ELSE [config EXCEPT ![Commits[item]] = buffer]

(* commit_edit(): what does not parse is reported and dropped.             *)
Confirm(k) ==
    /\ InEdit /\ k = "Enter"
    /\ config' = Committed
    /\ typed' = [item |-> item, text |-> buffer]
    /\ buffer' = None
    /\ UNCHANGED <<active, applied>>

Cancel(k) ==
    /\ InEdit /\ k = "Esc" /\ buffer' = None
    /\ UNCHANGED <<config, active, typed, applied>>

(* Apply saves the config last, unless a reboot is required or it cannot.  *)
Save(k) ==
    /\ InForm /\ k = "Enter" /\ item = DoApply
    /\ \/ ~reboot'.shown /\ active' = Whole(config) /\ applied' = Given(config)
       \/ applied' = None /\ UNCHANGED active
    /\ UNCHANGED <<config, buffer, typed>>

OtherKey(k) ==
    /\ InForm => ~(k = "Enter" /\ item \in Edits \cup {DoApply})
    /\ InEdit => k \notin Chars \cup {"Backspace", "Enter", "Esc"}
    /\ UNCHANGED formVars

Toggle ==
    /\ ~quit /\ InForm /\ item \in Switches
    /\ config' = [config EXCEPT ![Toggles[item]] = ~@]
    /\ typed' = None
    /\ UNCHANGED <<vars, buffer, active, applied>>

(* The power fails, or the disk is full, after fs::write() has truncated   *)
(* the file; of the disk being full the model knows only the end.          *)
SaveFails ==
    /\ ~quit /\ InForm /\ item = DoApply
    /\ active' \in Torn(config) /\ applied' = Given(config) /\ quit' = TRUE
    /\ UNCHANGED <<tab, root, reboot, picker, item, editing, terminal, saved, stale>>
    /\ UNCHANGED <<config, buffer, typed>>

FormKey(k) ==
    /\ HandleKey(k)
    /\ Open(k) \/ TypeIn(k) \/ Confirm(k) \/ Cancel(k) \/ Save(k) \/ OtherKey(k)

FormNext == (\E k \in Keys : FormKey(k)) \/ Toggle \/ SaveFails

FormSpec == FormInit /\ [][FormNext]_<<vars, formVars>>

-----------------------------------------------------------------------------
(* Properties.                                                             *)

(* A confirmed edit is where the form shows it, until the next change      *)
(* (tabs/setup.rs:375 and 430 number the items independently).             *)
EditIsShown ==
    typed # None /\ typed.text # Junk => config[Shows[typed.item + 1]] = typed.text

(* A key changes no field but the one that the selected item shows         *)
(* (tabs/setup.rs:375, 430, 512).                                          *)
OnlyTheSelected ==
    [][\A f \in Fields : config'[f] # config[f] => f = Field]_config

(* The daemon of the next boot, and launch-prefix, give the library what   *)
(* the Apply that saved the file gave it, as long as no text has a quote   *)
(* in it and the loss is a number (snapshot_store.rs:43 "load_active",     *)
(* service.rs:316).                                                        *)
Clean(c) == c["netem_loss_pct"] # NaN /\ \A f \in TextFields : c[f] # Quoted

DaemonGetsApplied ==
    active # None /\ applied # None /\ active.keys = Len(Keyed) /\ Clean(active.of) =>
        Given(Loaded(active)) = applied

(* A save that is cut short is no third config: each field but one number  *)
(* is what was being saved, or the default (snapshot_store.rs:37, 183).    *)
TornIsMixed ==
    active # None /\ Clean(active.of) =>
        LET loaded == Loaded(active) IN
        \A f \in Fields :
            \/ loaded[f] \in {active.of[f], Default[f]}
            \/ /\ f \in NumberFields \cup {"netem_loss_pct"} /\ active.last # Invalid
               /\ active.keys < Len(Keyed) /\ f = Keyed[active.keys + 1]

=============================================================================
