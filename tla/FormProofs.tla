------------------------------- MODULE FormProofs -------------------------------
(***************************************************************************)
(* Theorems about Form, for any texts, lists, numbers and losses.  What    *)
(* TuiProofs says of Spec holds of FormSpec too (FormIsTui).               *)
(***************************************************************************)
EXTENDS Form, TLAPS

-----------------------------------------------------------------------------
(* The tables.                                                             *)

BooleanFields == {"disable_smt", "disable_frequency_boost", "stop_irqbalance", "disable_swap",
    "isolate_multiuser", "disable_offloading", "disable_aslr", "tune_net_buffers", "drop_caches",
    "stop_timesyncd", "apply_nohz_full", "apply_rcu_nocbs"}

Editable == TextFields \cup NumberFields \cup {"isolated_cores", "netem_loss_pct"}

LEMMA FieldsAre == Fields = Editable \cup BooleanFields
<1>1. DOMAIN Keyed = 1..27
  BY DEF Keyed
<1>2. \A i \in 1..27 : Keyed[i] \in Editable \cup BooleanFields
  BY DEF Keyed, Editable, BooleanFields, TextFields, NumberFields
<1>3. \A f \in Editable \cup BooleanFields : \E i \in 1..27 : Keyed[i] = f
  <2>1. /\ Keyed[1] = "isolated_cores" /\ Keyed[2] = "housekeeping_core" /\ Keyed[3] = "disable_smt"
        /\ Keyed[4] = "disable_frequency_boost" /\ Keyed[5] = "max_cstate"
        /\ Keyed[6] = "stop_irqbalance" /\ Keyed[7] = "disable_swap" /\ Keyed[8] = "isolate_multiuser"
        /\ Keyed[9] = "ns_server" /\ Keyed[10] = "ns_client" /\ Keyed[11] = "veth_server"
        /\ Keyed[12] = "veth_client" /\ Keyed[13] = "server_ip" /\ Keyed[14] = "client_ip"
        /\ Keyed[15] = "netem_delay_ms" /\ Keyed[16] = "netem_jitter_ms"
        /\ Keyed[17] = "netem_loss_pct" /\ Keyed[18] = "disable_offloading"
        /\ Keyed[19] = "server_cores" /\ Keyed[20] = "client_cores" /\ Keyed[21] = "rt_priority"
        /\ Keyed[22] = "disable_aslr" /\ Keyed[23] = "tune_net_buffers" /\ Keyed[24] = "drop_caches"
        /\ Keyed[25] = "stop_timesyncd" /\ Keyed[26] = "apply_nohz_full" /\ Keyed[27] = "apply_rcu_nocbs"
    BY DEF Keyed
  <2> QED
    BY <2>1 DEF Editable, BooleanFields, TextFields, NumberFields
<1> QED
  BY <1>1, <1>2, <1>3 DEF Fields

LEMMA Placed ==
    /\ Len(Keyed) = 27 /\ DOMAIN Keyed = 1..27
    /\ \A f \in Fields : Place[f] \in 1..27 /\ Keyed[Place[f]] = f
<1>1. Len(Keyed) = 27 /\ DOMAIN Keyed = 1..27
  BY DEF Keyed
<1>2. ASSUME NEW f \in Fields PROVE Place[f] \in DOMAIN Keyed /\ Keyed[Place[f]] = f
  <2>1. \E i \in DOMAIN Keyed : Keyed[i] = f
    BY <1>2 DEF Fields
  <2> QED
    BY <2>1 DEF Place
<1> QED
  BY <1>1, <1>2

LEMMA EditsCommit == \A i \in Edits : Commits[i] = Shows[i + 1] /\ Shows[i + 1] \in Editable
  BY DEF Commits, Shows, Edits, Editable, TextFields, NumberFields

LEMMA SwitchesToggle == \A i \in Switches : Toggles[i] = Shows[i + 1] /\ Shows[i + 1] \in BooleanFields
  BY DEF Toggles, Shows, Switches, BooleanFields

LEMMA EditsAreItems == Edits \subseteq Items /\ Edits \cap Switches = {} /\ DoApply \notin Edits
  BY DEF Edits, Items, Switches, DoApply

(* The values of each kind of field.                                       *)
LEMMA Values ==
    /\ Value("isolated_cores") = CoreLists \cup {Default["isolated_cores"]}
    /\ Value("netem_loss_pct") = Nat \cup {NaN}
    /\ \A f \in NumberFields : Value(f) = Nat
    /\ \A f \in TextFields : Value(f) = Words \cup {Quoted, Default[f]}
    /\ \A f \in BooleanFields : Value(f) = BOOLEAN
  BY DEF Value, NumberFields, TextFields, BooleanFields

LEMMA Inputs ==
    /\ Typed("isolated_cores") = CoreLists \cup {Junk}
    /\ Typed("netem_loss_pct") = Losses \cup {NaN, Junk}
    /\ \A f \in NumberFields : Typed(f) = Numbers \cup {Junk}
    /\ \A f \in TextFields : Typed(f) = Words \cup {Quoted}
  BY DEF Typed, NumberFields, TextFields

LEMMA InputsFit == \A f \in Editable : Typed(f) \subseteq Value(f) \cup {Junk}
<1> SUFFICES ASSUME NEW f \in Editable PROVE Typed(f) \subseteq Value(f) \cup {Junk}
  OBVIOUS
<1>1. CASE f \in TextFields
  BY <1>1, Values, Inputs
<1>2. CASE f \in NumberFields
  BY <1>2, Values, Inputs, FormAssumption
<1>3. CASE f = "isolated_cores"
  BY <1>3, Values, Inputs
<1>4. CASE f = "netem_loss_pct"
  BY <1>4, Values, Inputs, FormAssumption
<1> QED
  BY <1>1, <1>2, <1>3, <1>4 DEF Editable

LEMMA DefaultFits == \A f \in Fields : Default[f] \in Value(f)
<1>1. \A f \in NumberFields : Default[f] \in Nat
  BY FieldsAre DEF Default, NumberFields, Editable
<1>2. \A f \in BooleanFields : Default[f] \in BOOLEAN
  BY FieldsAre DEF Default, BooleanFields
<1>3. Default["netem_loss_pct"] \in Nat
  BY FieldsAre DEF Default, Editable
<1> QED
  BY <1>1, <1>2, <1>3, Values, FieldsAre DEF Editable

LEMMA ShownFits == \A f \in Editable : \A v \in Value(f) : Shown(f, v) \in Value(f)
<1>1. \A v \in Nat : ((v + 5) \div 10) * 10 \in Nat
  OBVIOUS
<1> QED
  BY <1>1, Values DEF Shown

(* A config without quotes and nan has none in any field.                  *)
LEMMA CleanIs ==
    ASSUME NEW c, Clean(c), NEW f \in Fields, c[f] \in Value(f)
    PROVE  c[f] # Quoted /\ c[f] # NaN
<1>1. CASE f \in TextFields
  <2>1. c[f] \in Words \cup {Default[f]}
    BY <1>1, Values DEF Clean
  <2> QED
    BY <1>1, <2>1, FormAssumption DEF Clean
<1>2. CASE f \in NumberFields
  BY <1>2, Values, FormAssumption
<1>3. CASE f = "isolated_cores"
  BY <1>3, Values, FormAssumption
<1>4. CASE f = "netem_loss_pct"
  BY <1>4, Values, FormAssumption DEF Clean
<1>5. CASE f \in BooleanFields
  BY <1>5, Values, FormAssumption
<1> QED
  BY <1>1, <1>2, <1>3, <1>4, <1>5, FieldsAre DEF Editable

(* No value is taken for one that is not there.                            *)
LEMMA NeverNone ==
    ASSUME NEW f \in Fields, NEW v \in Value(f) PROVE v # None
<1>1. CASE f \in TextFields \cup {"isolated_cores"}
  BY <1>1, Values, FormAssumption
<1>2. CASE f \in NumberFields \cup {"netem_loss_pct"}
  BY <1>2, Values, FormAssumption
<1>3. CASE f \in BooleanFields
  BY <1>3, Values, FormAssumption
<1> QED
  BY <1>1, <1>2, <1>3, FieldsAre DEF Editable

(* Each field is looked for under its own name.                            *)
LEMMA FoundUnderName ==
    ASSUME NEW file, NEW f \in Fields
    PROVE  FoundIn(file)[f] = Found(file, f) \/ Found(file, f) \in {Quoted, NaN}
<1>1. CASE f \in BooleanFields
  BY <1>1 DEF FoundIn, BooleanFields
<1>2. CASE f \in NumberFields \cup {"isolated_cores", "netem_loss_pct"}
  BY <1>2 DEF FoundIn, NumberFields
<1>3. CASE f \in TextFields
  BY <1>3 DEF FoundIn, TextFields
<1> QED
  BY <1>1, <1>2, <1>3, FieldsAre DEF Editable

LEMMA LoadedIs ==
    ASSUME NEW file, file.last # Invalid, NEW f \in Fields, Found(file, f) \notin {Quoted, NaN}
    PROVE  Loaded(file)[f] = IF Found(file, f) = None THEN Default[f] ELSE Found(file, f)
  BY FoundUnderName DEF Loaded

-----------------------------------------------------------------------------
(* What the keys of Tui do to the edit.                                    *)

EditInv == editing => tab = "Setup" /\ item \in Edits

EditMoves(k) ==
    /\ InForm /\ k = "Enter" /\ item \in Edits => editing' /\ UNCHANGED <<tab, item>>
    /\ InEdit /\ k \in {"Enter", "Esc"} => ~editing' /\ UNCHANGED <<tab, item>>
    /\ InEdit /\ k \notin {"Enter", "Esc"} => UNCHANGED <<tab, item, editing>>
    /\ ~InEdit /\ ~(InForm /\ k = "Enter" /\ item \in Edits) =>
         editing' = editing /\ (editing => UNCHANGED <<tab, item>>)

LEMMA EditKeys == ASSUME EditInv, NEW k \in Keys, HandleKey(k) PROVE EditMoves(k)
<1>1. CASE RootModal(k) \/ RebootModal(k) \/ Picker(k)
  <2>1. ~Free /\ ~InEdit /\ UNCHANGED <<tab, item, editing>>
    BY <1>1 DEF RootModal, RebootModal, Picker, Free, InEdit
  <2> QED
    BY <2>1 DEF EditMoves, InForm
<1>2. CASE Editing(k)
  <2>1. InEdit /\ ~InForm /\ editing' = (k \notin {"Esc", "Enter"}) /\ editing /\ UNCHANGED <<tab, item>>
    BY <1>2 DEF Editing, InEdit, InForm, Free
  <2> QED
    BY <2>1 DEF EditMoves
<1>3. CASE TerminalTab(k) \/ LogsOrMonitorTab(k)
  <2>1. tab # "Setup" /\ ~editing /\ UNCHANGED editing
    BY <1>3 DEF TerminalTab, LogsOrMonitorTab, overlays, EditInv
  <2> QED
    BY <2>1 DEF EditMoves, InForm, InEdit
<1>4. CASE GlobalKey(k)
  <2>1. Free /\ ~editing /\ ~InEdit
    BY <1>4 DEF GlobalKey, Free, EditInv, InEdit
  <2>2. CASE tab = "Setup" /\ k = "Enter" /\ HandleEnter /\ UNCHANGED <<tab, quit, item>>
    <3>1. item \in Edits => editing'
      BY <2>2 DEF HandleEnter, Edits, DoApply, DoTeardown, DoRefresh
    <3>2. item \notin Edits => editing' = editing
      BY <2>2 DEF HandleEnter, RunApply, OpenPicker
    <3> QED
      BY <2>1, <2>2, <3>1, <3>2 DEF EditMoves, InForm
  <2>3. CASE k # "Enter" /\ UNCHANGED editing
    BY <2>1, <2>3 DEF EditMoves
  <2>4. \/ k # "Enter" /\ UNCHANGED editing
        \/ tab = "Setup" /\ k = "Enter" /\ HandleEnter /\ UNCHANGED <<tab, quit, item>>
    BY <1>4 DEF GlobalKey, Quit, SwitchTab, Hotkey
  <2> QED
    BY <2>1, <2>2, <2>3, <2>4 DEF EditMoves
<1> QED
  BY <1>1, <1>2, <1>3, <1>4 DEF HandleKey

-----------------------------------------------------------------------------
(* The invariant.                                                          *)

ConfigOK == config = [f \in Fields |-> config[f]] /\ \A f \in Fields : config[f] \in Value(f)

BufferOK ==
    /\ editing => buffer \in Value(Shows[item + 1]) \cup {Junk}
    /\ ~editing => buffer = None

ActiveOK ==
    active # None =>
        /\ active.keys \in 0..27
        /\ active.of = [f \in Fields |-> active.of[f]] /\ \A f \in Fields : active.of[f] \in Value(f)
        /\ active.last # None =>
             /\ active.keys < 27
             /\ Keyed[active.keys + 1] \in NumberFields \cup {"netem_loss_pct"} \/ active.last = Invalid
        /\ applied # None /\ active.keys = 27 => applied = Given(active.of)

FormInv == EditInv /\ ConfigOK /\ BufferOK /\ ActiveOK /\ EditIsShown

LEMMA InitForm == FormInit => FormInv
<1> SUFFICES ASSUME FormInit PROVE FormInv
  OBVIOUS
<1>1. ConfigOK
  BY DefaultFits DEF FormInit, ConfigOK, Default
<1> QED
  BY <1>1 DEF FormInit, Init, FormInv, EditInv, BufferOK, ActiveOK, EditIsShown

(* One field changes to a value of its own.                                *)
LEMMA OneField ==
    ASSUME ConfigOK, NEW f \in Fields, NEW v \in Value(f), config' = [config EXCEPT ![f] = v]
    PROVE  /\ ConfigOK' /\ config'[f] = v
           /\ \A g \in Fields : config'[g] # config[g] => g = f
  BY DEF ConfigOK

(* What a file that has been cut short holds.                              *)
LEMMA TornIs ==
    ASSUME NEW c, NEW file \in Torn(c)
    PROVE  /\ file.of = c /\ file.keys \in 0..26
           /\ file.last # None =>
                Keyed[file.keys + 1] \in NumberFields \cup {"netem_loss_pct"} \/ file.last = Invalid
<1>1. Len(Keyed) - 1 = 26
  BY Placed
<1>2. CASE \E n \in 0..26 : file = [of |-> c, keys |-> n, last |-> None]
  BY <1>2
<1>3. CASE \E n \in 0..26 : \E v \in Remains(Keyed[n + 1], c[Keyed[n + 1]]) :
             file = [of |-> c, keys |-> n, last |-> v]
  BY <1>3 DEF Remains
<1> QED
  BY <1>1, <1>2, <1>3 DEF Torn

LEMMA FormStep ==
    ASSUME FormInv, [FormNext]_<<vars, formVars>>
    PROVE  /\ FormInv'
           /\ \A f \in Fields : config'[f] # config[f] => f = Field
<1>i. EditInv /\ ConfigOK /\ BufferOK /\ ActiveOK /\ EditIsShown
  BY DEF FormInv
<1>1. ASSUME NEW k \in Keys, FormKey(k)
      PROVE  FormInv' /\ \A f \in Fields : config'[f] # config[f] => f = Field
  <2>k. /\ HandleKey(k)
        /\ Open(k) \/ TypeIn(k) \/ Confirm(k) \/ Cancel(k) \/ Save(k) \/ OtherKey(k)
    BY <1>1 DEF FormKey
  <2>e. EditMoves(k)
    BY <1>i, <2>k, EditKeys
  <2>1. CASE Open(k)
    <3>1. /\ InForm /\ k = "Enter" /\ item \in Edits /\ buffer' = Shown(Field, config[Field])
          /\ UNCHANGED <<config, active, typed, applied>> /\ editing' /\ UNCHANGED <<tab, item>>
      BY <2>1, <2>e DEF Open, EditMoves
    <3>2. Field \in Editable /\ Field \in Fields
      BY <3>1, EditsCommit, FieldsAre DEF Field
    <3>3. buffer' \in Value(Field)
      BY <1>i, <3>1, <3>2, ShownFits DEF ConfigOK
    <3>4. EditInv' /\ BufferOK'
      BY <3>1, <3>3 DEF EditInv, BufferOK, Field, InForm
    <3> QED
      BY <1>i, <3>1, <3>4 DEF FormInv, ConfigOK, ActiveOK, EditIsShown
  <2>2. CASE TypeIn(k)
    <3>1. /\ InEdit /\ buffer' \in Typed(Field) /\ UNCHANGED <<config, active, typed, applied>>
          /\ UNCHANGED <<tab, item, editing>>
      BY <2>2, <2>e DEF EditMoves, TypeIn, Chars
    <3>2. editing /\ item \in Edits
      BY <1>i, <3>1 DEF InEdit, EditInv
    <3>3. buffer' \in Value(Field) \cup {Junk}
      BY <3>1, <3>2, EditsCommit, InputsFit DEF Field
    <3>4. EditInv' /\ BufferOK'
      BY <1>i, <3>1, <3>2, <3>3 DEF EditInv, BufferOK, Field
    <3> QED
      BY <1>i, <3>1, <3>4 DEF FormInv, ConfigOK, ActiveOK, EditIsShown
  <2>3. CASE Confirm(k)
    <3>1. /\ InEdit /\ config' = Committed /\ typed' = [item |-> item, text |-> buffer] /\ buffer' = None
          /\ UNCHANGED <<active, applied>> /\ ~editing'
      BY <2>3, <2>e DEF EditMoves, Confirm
    <3>2. /\ editing /\ item \in Edits /\ buffer \in Value(Field) \cup {Junk}
          /\ Commits[item] = Field /\ Field \in Fields
      BY <1>i, <3>1, EditsCommit, FieldsAre DEF InEdit, EditInv, BufferOK, Field
    <3>3. EditInv' /\ BufferOK'
      BY <3>1 DEF EditInv, BufferOK
    <3>4. CASE buffer = Junk
      BY <1>i, <3>1, <3>3, <3>4 DEF FormInv, ConfigOK, ActiveOK, EditIsShown, Committed
    <3>5. CASE buffer # Junk
      <4>1. config' = [config EXCEPT ![Field] = buffer]
        BY <3>1, <3>2, <3>5 DEF Committed
      <4>2. /\ ConfigOK' /\ config'[Field] = buffer
            /\ \A g \in Fields : config'[g] # config[g] => g = Field
        BY <1>i, <3>2, <3>5, <4>1, OneField
      <4>3. EditIsShown'
        BY <3>1, <4>2 DEF EditIsShown, Field
      <4> QED
        BY <1>i, <3>1, <3>3, <4>2, <4>3 DEF FormInv, ActiveOK
    <3> QED
      BY <3>4, <3>5
  <2>4. CASE Cancel(k)
    <3>1. InEdit /\ buffer' = None /\ UNCHANGED <<config, active, typed, applied>> /\ ~editing'
      BY <2>4, <2>e DEF EditMoves, Cancel
    <3> QED
      BY <1>i, <3>1 DEF FormInv, EditInv, BufferOK, ConfigOK, ActiveOK, EditIsShown
  <2>5. CASE Save(k)
    <3>1. /\ InForm /\ k = "Enter" /\ item = DoApply /\ UNCHANGED <<config, buffer, typed>>
          /\ \/ active' = Whole(config) /\ applied' = Given(config)
             \/ applied' = None /\ UNCHANGED active
      BY <2>5 DEF Save
    <3>2. ~InEdit /\ editing' = editing /\ (editing => UNCHANGED <<tab, item>>)
      BY <2>e, <3>1, EditsAreItems DEF EditMoves, InForm, InEdit, Free
    <3>3. EditInv' /\ BufferOK'
      BY <1>i, <3>1, <3>2 DEF EditInv, BufferOK
    <3>4. ActiveOK'
      <4>1. CASE active' = Whole(config) /\ applied' = Given(config)
        BY <1>i, <4>1, Placed DEF ConfigOK, ActiveOK, Whole
      <4>2. CASE applied' = None /\ UNCHANGED active
        BY <1>i, <4>2 DEF ActiveOK
      <4> QED
        BY <3>1, <4>1, <4>2
    <3> QED
      BY <1>i, <3>1, <3>3, <3>4 DEF FormInv, ConfigOK, EditIsShown
  <2>6. CASE OtherKey(k)
    <3>1. /\ UNCHANGED <<config, buffer, active, typed, applied>>
          /\ ~(InForm /\ k = "Enter" /\ item \in Edits)
          /\ InEdit => k \notin {"Enter", "Esc"}
      BY <2>6 DEF OtherKey, formVars
    <3>2. /\ editing' = editing /\ (editing => UNCHANGED <<tab, item>>)
      BY <2>e, <3>1 DEF EditMoves
    <3> QED
      BY <1>i, <3>1, <3>2 DEF FormInv, EditInv, BufferOK, ConfigOK, ActiveOK, EditIsShown
  <2> QED
    BY <2>k, <2>1, <2>2, <2>3, <2>4, <2>5, <2>6
<1>2. CASE Toggle
  <2>1. /\ item \in Switches /\ config' = [config EXCEPT ![Toggles[item]] = ~config[Toggles[item]]]
        /\ typed' = None /\ UNCHANGED <<tab, item, editing, buffer, active, applied>>
    BY <1>2 DEF Toggle, vars
  <2>2. Toggles[item] = Field /\ Field \in Fields /\ Value(Field) = BOOLEAN
    BY <2>1, SwitchesToggle, FieldsAre, Values DEF Field
  <2>3. /\ ConfigOK' /\ \A g \in Fields : config'[g] # config[g] => g = Field
    BY <1>i, <2>1, <2>2, OneField
  <2> QED
    BY <1>i, <2>1, <2>3 DEF FormInv, EditInv, BufferOK, ActiveOK, EditIsShown
<1>3. CASE SaveFails
  <2>1. /\ active' \in Torn(config) /\ UNCHANGED <<tab, item, editing, config, buffer, typed>>
    BY <1>3 DEF SaveFails
  <2>2. ActiveOK'
    BY <1>i, <2>1, TornIs DEF ActiveOK, ConfigOK
  <2> QED
    BY <1>i, <2>1, <2>2 DEF FormInv, EditInv, BufferOK, ConfigOK, EditIsShown
<1>4. CASE UNCHANGED <<vars, formVars>>
  BY <1>i, <1>4 DEF vars, formVars, FormInv, EditInv, BufferOK, ConfigOK, ActiveOK, EditIsShown
<1> QED
  BY <1>1, <1>2, <1>3, <1>4 DEF FormNext

LEMMA FormAlways == FormSpec => []FormInv
  BY InitForm, FormStep, PTL DEF FormSpec

-----------------------------------------------------------------------------
(* The theorems.                                                           *)

(* The form adds nothing to what the keys do to the rest of the front end: *)
(* a save that fails is a behaviour of Tui that ends there (main.rs:191,   *)
(* app.rs:242, snapshot_store.rs:37).                                      *)
THEOREM FormIsTui == FormSpec => Spec
<1>1. FormInit => Init
  BY DEF FormInit
<1>2. [FormNext]_<<vars, formVars>> => [Next]_vars
  <2>1. ASSUME NEW k \in Keys, FormKey(k) PROVE Next
    BY <2>1 DEF FormKey, Next
  <2>2. CASE SaveFails
    <3>1. "q" \in Keys /\ GlobalKey("q")
      BY <2>2 DEF SaveFails, InForm, GlobalKey, Quit, Keys, Chars
    <3> QED
      BY <2>2, <3>1 DEF SaveFails, Next, HandleKey
  <2>3. CASE Toggle \/ UNCHANGED <<vars, formVars>>
    BY <2>3 DEF Toggle
  <2> QED
    BY <2>1, <2>2, <2>3 DEF FormNext
<1> QED
  BY <1>1, <1>2, PTL DEF FormSpec, Spec

(* The form, the edit buffer and the file only ever hold what their fields *)
(* may have (tabs/setup.rs:430, snapshot_store.rs:65).                     *)
THEOREM FormTyped == FormSpec => []FormTypeOK
<1>1. FormInv => FormTypeOK
  BY Placed DEF FormInv, ConfigOK, BufferOK, ActiveOK, FormTypeOK
<1> QED
  BY <1>1, FormAlways, PTL

(* Whatever is typed, a confirmed edit is where the form shows it: the two *)
(* tables of items agree (tabs/setup.rs:375, 430).                         *)
THEOREM EditsShown == FormSpec => []EditIsShown
<1>1. FormInv => EditIsShown
  BY DEF FormInv
<1> QED
  BY <1>1, FormAlways, PTL

(* No key changes a field that is not selected (tabs/setup.rs:430, 512).   *)
THEOREM OthersStay == FormSpec => OnlyTheSelected
<1>1. FormInv /\ [FormNext]_<<vars, formVars>> =>
        [\A f \in Fields : config'[f] # config[f] => f = Field]_config
  BY FormStep
<1> QED
  BY <1>1, FormAlways, PTL DEF FormSpec, OnlyTheSelected

(* For any texts, lists and numbers, what from_json() reads from a file    *)
(* that to_json() wrote is what the library was given, as long as no text  *)
(* has a quote in it and the loss is a number (snapshot_store.rs:122, 183). *)
THEOREM Applied == FormSpec => []DaemonGetsApplied
<1>1. ASSUME FormInv, active # None, applied # None, active.keys = Len(Keyed), Clean(active.of)
      PROVE  Given(Loaded(active)) = applied
  <2>1. /\ active.keys = 27 /\ applied = Given(active.of) /\ active.last = None
        /\ active.of = [f \in Fields |-> active.of[f]]
    BY <1>1, Placed DEF FormInv, ActiveOK
  <2>2. ASSUME NEW f \in Fields PROVE Loaded(active)[f] = active.of[f]
    <3>1. Found(active, f) = active.of[f]
      BY <2>1, Placed DEF Found
    <3>2. active.of[f] \in Value(f)
      BY <1>1 DEF FormInv, ActiveOK
    <3>3. active.of[f] # Quoted /\ active.of[f] # NaN /\ active.of[f] # None
      BY <1>1, <3>2, CleanIs, NeverNone
    <3> QED
      BY <2>1, <3>1, <3>3, LoadedIs, FormAssumption
  <2>3. Loaded(active) = active.of
    <3>1. active.last # Invalid
      BY <2>1, FormAssumption
    <3>2. Loaded(active) = [f \in Fields |-> Loaded(active)[f]]
      BY <3>1 DEF Loaded
    <3> QED
      BY <2>1, <2>2, <3>2
  <2> QED
    BY <2>1, <2>3
<1>2. FormInv => DaemonGetsApplied
  BY <1>1 DEF DaemonGetsApplied
<1> QED
  BY <1>2, FormAlways, PTL

(* Wherever a save is cut short, the daemon of the next boot has the new   *)
(* value or the default in every field but at most one number, which may   *)
(* have lost digits (snapshot_store.rs:37, 183).                           *)
THEOREM TornMixed == FormSpec => []TornIsMixed
<1>1. ASSUME FormInv, active # None, Clean(active.of), NEW f \in Fields
      PROVE  \/ Loaded(active)[f] \in {active.of[f], Default[f]}
             \/ /\ f \in NumberFields \cup {"netem_loss_pct"} /\ active.last # Invalid
                /\ active.keys < Len(Keyed) /\ f = Keyed[active.keys + 1]
  <2>1. active.of[f] \in Value(f)
    BY <1>1 DEF FormInv, ActiveOK
  <2>2. active.of[f] # Quoted /\ active.of[f] # NaN /\ active.of[f] # None
    BY <1>1, <2>1, CleanIs, NeverNone
  <2>3. CASE active.last = Invalid
    BY <2>3 DEF Loaded
  <2>4. CASE active.last # Invalid /\ active.last # None /\ Place[f] = active.keys + 1
    BY <1>1, <2>4, Placed DEF FormInv, ActiveOK
  <2>5. CASE active.last # Invalid /\ ~(active.last # None /\ Place[f] = active.keys + 1)
    <3>1. Found(active, f) \in {active.of[f], None}
      BY <2>5 DEF Found
    <3>2. Found(active, f) \notin {Quoted, NaN}
      BY <2>2, <3>1, FormAssumption
    <3>3. Loaded(active)[f] = IF Found(active, f) = None THEN Default[f] ELSE Found(active, f)
      BY <2>5, <3>2, LoadedIs
    <3> QED
      BY <2>2, <3>1, <3>3
  <2> QED
    BY <2>3, <2>4, <2>5
<1>2. FormInv => TornIsMixed
  BY <1>1 DEF TornIsMixed
<1> QED
  BY <1>2, FormAlways, PTL

=============================================================================
