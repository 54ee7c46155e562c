--------------------------------- MODULE Tui ---------------------------------
(***************************************************************************)
(* What the keys do in the TUI (handle_key() in tui/src/main.rs, with what *)
(* it calls in app.rs and tabs/setup.rs): modals and overlays, tabs, the   *)
(* selection in the Setup tab, the restore-point picker, and the command   *)
(* line of the Terminal tab with its history.  Keys are handled one at a   *)
(* time.  Scrolling and the Monitor tab's sections are view state and are  *)
(* left out; what setup, teardown and commands do to the machine is chosen *)
(* freely.  (Foo_Bug is a wrong version of Foo.)                           *)
(***************************************************************************)
EXTENDS Naturals, Sequences

CONSTANTS
    Texts,      \* the command lines the user may type; the empty one is ""
    MaxHistory, \* the length of the history (500 in the code)
    MaxPoints,  \* bound of the model: restore points on disk
    None

ASSUME TuiAssumption ==
    /\ "" \in Texts /\ MaxHistory \in Nat \ {0} /\ MaxPoints \in Nat /\ None \notin Nat

VARIABLES
    tab, quit,
    root,       \* root_warning_modal
    reboot,     \* reboot_modal, and whether to refresh when it is dismissed
    picker,     \* teardown_picker: active, index, number of restore points
    item,       \* setup_selected_item
    editing,    \* setup_editing
    focused,    \* terminal_focused
    line,       \* terminal_input and cmd_draft
    history, at,\* cmd_history, cmd_history_idx (from 1)
    saved,      \* restore points on disk
    stale       \* history: a teardown that the displayed verification predates

vars == <<tab, quit, root, reboot, picker, item, editing, focused, line, history, at, saved, stale>>
overlays == <<root, reboot, picker, editing>>
terminal == <<focused, line, history, at>>

Tabs   == <<"Dashboard", "Setup", "Monitor", "Logs", "Terminal">>
Hotkey == [F1 |-> "Dashboard", F2 |-> "Setup", F3 |-> "Monitor", F4 |-> "Logs", F5 |-> "Terminal"]
Chars  == {"q", "r", "j", "k", "i", "Ctrl-c"}
Keys   == Chars \cup DOMAIN Hotkey
          \cup {"Esc", "Enter", "Backspace", "Up", "Down", "Tab", "BackTab"}

(* SETUP_ITEMS                                                             *)
Items     == 0..28
Edits     == {0, 1, 4, 16, 17, 18} \cup 8..14
Separator == 25
DoApply    == 26
DoTeardown == 27
DoRefresh  == 28

TypeOK ==
    /\ tab \in {Tabs[i] : i \in 1..5} /\ item \in Items
    /\ {quit, root, editing, focused, stale} \subseteq BOOLEAN
    /\ reboot \in [shown : BOOLEAN, refresh : BOOLEAN]
    /\ picker \in [on : BOOLEAN, at : Nat, size : 0..MaxPoints] /\ saved \in 0..MaxPoints
    /\ line \in [input : Texts, draft : Texts]
    /\ history \in Seq(Texts) /\ at \in Nat \cup {None}

(* Any number of restore points is left from earlier sessions.             *)
Init ==
    /\ tab = "Dashboard" /\ quit = FALSE /\ root \in BOOLEAN
    /\ reboot = [shown |-> FALSE, refresh |-> FALSE]
    /\ picker = [on |-> FALSE, at |-> 0, size |-> 0]
    /\ item = 0 /\ editing = FALSE /\ focused = FALSE
    /\ line = [input |-> "", draft |-> ""] /\ history = <<>> /\ at = None
    /\ saved \in 0..MaxPoints /\ stale = FALSE

-----------------------------------------------------------------------------
(* The modals and the picker, in the order in which they take the keys.    *)

RootModal(k) ==
    /\ root
    /\ root' = (k \notin {"Esc", "Enter"})
    /\ quit' = (k = "q")
    /\ UNCHANGED <<tab, reboot, picker, item, editing, terminal, saved, stale>>

(* The verification is not refreshed.                                      *)
DismissReboot_NoRefresh ==
    /\ reboot' = [shown |-> FALSE, refresh |-> FALSE]
    /\ UNCHANGED stale

(* dismiss_reboot_modal() refreshes the verification, if told to.          *)
DismissReboot ==
    /\ reboot' = [shown |-> FALSE, refresh |-> FALSE]
    /\ stale' = (stale /\ ~reboot.refresh)

RebootModal(k) ==
    /\ ~root /\ reboot.shown
    /\ \/ /\ k = "r" /\ quit' = TRUE /\ UNCHANGED stale
          /\ reboot' = [shown |-> FALSE, refresh |-> FALSE]
       \/ k \in {"Esc", "q"} /\ DismissReboot /\ UNCHANGED quit
       \/ k \notin {"r", "Esc", "q"} /\ UNCHANGED <<reboot, quit, stale>>
    /\ UNCHANGED <<tab, root, picker, item, editing, terminal, saved>>

(* run_teardown_inner(): either the reboot modal, which will refresh, or a *)
(* refresh at once.                                                        *)
RunTeardown ==
    \/ reboot' = [shown |-> TRUE, refresh |-> TRUE] /\ stale' = TRUE
    \/ UNCHANGED reboot /\ stale' = FALSE

PickerDown ==
    picker' = [picker EXCEPT !.at = IF @ + 1 < picker.size THEN @ + 1 ELSE @]

Picker(k) ==
    /\ ~root /\ ~reboot.shown /\ picker.on
    /\ \/ /\ k \in {"Up", "k"}
          /\ picker' = [picker EXCEPT !.at = IF @ > 0 THEN @ - 1 ELSE @]
          /\ UNCHANGED <<reboot, stale>>
       \/ k \in {"Down", "j"} /\ PickerDown /\ UNCHANGED <<reboot, stale>>
       \/ k = "Enter" /\ picker' = [picker EXCEPT !.on = FALSE] /\ RunTeardown
       \/ k = "Esc" /\ picker' = [picker EXCEPT !.on = FALSE] /\ UNCHANGED <<reboot, stale>>
    /\ UNCHANGED <<tab, quit, root, item, editing, terminal, saved>>

(* Text typed into the field is left out; commit_edit() always ends the    *)
(* edit.                                                                   *)
Editing(k) ==
    /\ ~root /\ ~reboot.shown /\ ~picker.on /\ tab = "Setup" /\ editing
    /\ editing' = (k \notin {"Esc", "Enter"})
    /\ UNCHANGED <<tab, quit, root, reboot, picker, item, terminal, saved, stale>>

(* An edit is forgotten.                                                   *)
Free_Editing == ~root /\ ~reboot.shown /\ ~picker.on

(* No overlay takes the keys.                                              *)
Free == ~root /\ ~reboot.shown /\ ~picker.on /\ ~(tab = "Setup" /\ editing)

-----------------------------------------------------------------------------
(* The tabs.                                                               *)

Index(t) == CHOOSE i \in 1..5 : Tabs[i] = t

SwitchTab(k) ==
    /\ k \in {"Tab", "BackTab"}
    /\ tab' = IF k = "Tab" THEN Tabs[(Index(tab) % 5) + 1] ELSE Tabs[((Index(tab) + 3) % 5) + 1]
    /\ UNCHANGED quit

Quit(k) == k \in {"q", "Ctrl-c"} /\ quit' = TRUE /\ UNCHANGED tab

(* history_prev()                                                          *)
Prev ==
    IF history = <<>> THEN UNCHANGED <<at, line>>
    ELSE LET i == IF at = None THEN Len(history) ELSE IF at = 1 THEN 1 ELSE at - 1 IN
         /\ at' = i
         /\ line' = [input |-> history[i], draft |-> IF at = None THEN line.input ELSE line.draft]

(* history_next()                                                          *)
NextEntry ==
    IF at = None THEN UNCHANGED <<at, line>>
    ELSE IF at >= Len(history) THEN at' = None /\ line' = [line EXCEPT !.input = line.draft]
    ELSE at' = at + 1 /\ line' = [line EXCEPT !.input = history[at + 1]]

Remembered(cmd) ==
    LET longer == Append(history, cmd) IN
    IF history # <<>> /\ history[Len(history)] = cmd THEN history
    ELSE IF Len(longer) > MaxHistory THEN Tail(longer) ELSE longer

(* exec_terminal_command(): the service and log commands are in Service.   *)
Exec ==
    LET cmd == line.input IN
    /\ line' = [input |-> "", draft |-> ""] /\ at' = None
    /\ history' = IF cmd = "" THEN history ELSE Remembered(cmd)
    /\ quit' = (cmd = "quit")
    /\ stale' = (stale /\ cmd # "verify")
    /\ UNCHANGED focused

(* The place in the history is kept.                                       *)
Type_KeepsPlace(k) ==
    /\ \/ k = "Backspace" /\ \E t \in Texts : line' = [line EXCEPT !.input = t]
       \/ k \in Chars /\ \E t \in Texts \ {""} : line' = [line EXCEPT !.input = t]
    /\ UNCHANGED <<focused, history, at, quit, stale>>

(* A character, Ctrl-c included, or a Backspace.                           *)
Type(k) ==
    /\ \/ k = "Backspace" /\ \E t \in Texts : line' = [line EXCEPT !.input = t]
       \/ k \in Chars /\ \E t \in Texts \ {""} : line' = [line EXCEPT !.input = t]
    /\ at' = None
    /\ UNCHANGED <<focused, history, quit, stale>>

FocusedTerminal(k) ==
    \/ k = "Esc" /\ focused' = FALSE /\ UNCHANGED <<line, history, at, quit, stale>>
    \/ k = "Enter" /\ Exec
    \/ Type(k)
    \/ k = "Up" /\ Prev /\ UNCHANGED <<focused, history, quit, stale>>
    \/ k = "Down" /\ NextEntry /\ UNCHANGED <<focused, history, quit, stale>>

TerminalTab(k) ==
    /\ Free /\ tab = "Terminal"
    /\ \/ focused /\ FocusedTerminal(k) /\ UNCHANGED tab
       \/ /\ ~focused /\ k = "Enter" /\ focused' = TRUE
          /\ UNCHANGED <<line, history, at, tab, quit, stale>>
       \/ /\ (~focused /\ Quit(k)) \/ SwitchTab(k)
          /\ UNCHANGED <<terminal, stale>>
    /\ UNCHANGED <<overlays, item, saved>>

LogsOrMonitorTab(k) ==
    /\ Free /\ tab \in {"Logs", "Monitor"}
    /\ Quit(k) \/ SwitchTab(k)
    /\ UNCHANGED <<overlays, item, terminal, saved, stale>>

(* The separator is skipped on the way up only.                            *)
MoveDown_OntoSeparator == item' = IF item < 28 THEN item + 1 ELSE item

MoveUp == item' = IF item = 0 THEN 0 ELSE IF item - 1 = Separator THEN item - 2 ELSE item - 1
MoveDown ==
    item' = IF item = 28 THEN 28 ELSE IF item + 1 = Separator THEN item + 2 ELSE item + 1

(* Apply saves up to two restore points; a reboot that is required leaves  *)
(* the verification as it is.                                              *)
RunApply ==
    /\ \E n \in {0, 1, 2} : saved + n <= MaxPoints /\ saved' = saved + n
    /\ \/ reboot' = [shown |-> TRUE, refresh |-> FALSE] /\ UNCHANGED stale
       \/ UNCHANGED reboot /\ stale' = FALSE
    /\ UNCHANGED <<picker, editing>>

OpenPicker ==
    /\ picker' = [on |-> saved > 0, at |-> 0, size |-> saved]
    /\ UNCHANGED <<reboot, editing, saved, stale>>

HandleEnter ==
    \/ item \in Edits /\ editing' = TRUE /\ UNCHANGED <<reboot, picker, saved, stale>>
    \/ item = DoApply /\ RunApply
    \/ item = DoTeardown /\ OpenPicker
    \/ item = DoRefresh /\ stale' = FALSE /\ UNCHANGED <<reboot, picker, editing, saved>>

GlobalKey(k) ==
    /\ Free /\ tab \in {"Dashboard", "Setup"}
    /\ \/ /\ Quit(k) \/ SwitchTab(k) \/ (k \in DOMAIN Hotkey /\ tab' = Hotkey[k] /\ UNCHANGED quit)
          /\ UNCHANGED <<reboot, picker, editing, item, saved, stale>>
       \/ /\ tab = "Setup" /\ ((k = "Up" /\ MoveUp) \/ (k = "Down" /\ MoveDown))
          /\ UNCHANGED <<tab, quit, reboot, picker, editing, saved, stale>>
       \/ /\ tab = "Setup" /\ k = "Enter" /\ HandleEnter
          /\ UNCHANGED <<tab, quit, item>>
       \/ /\ k = "r" /\ stale' = FALSE
          /\ UNCHANGED <<tab, quit, reboot, picker, editing, item, saved>>
    /\ UNCHANGED <<root, terminal>>

-----------------------------------------------------------------------------
HandleKey(k) ==
    /\ ~quit
    /\ \/ RootModal(k) \/ RebootModal(k) \/ Picker(k) \/ Editing(k)
       \/ TerminalTab(k) \/ LogsOrMonitorTab(k) \/ GlobalKey(k)

Next == \E k \in Keys : HandleKey(k)

Spec == Init /\ [][Next]_vars

-----------------------------------------------------------------------------
(* Properties.                                                             *)

(* An overlay of the Setup tab is over the Setup tab: no key changes tabs  *)
(* below it, and at most one of them is there (main.rs:201-233).           *)
OverlayOnSetup ==
    /\ reboot.shown \/ picker.on \/ editing => tab = "Setup"
    /\ ~(picker.on /\ editing) /\ ~(picker.on /\ reboot.shown) /\ ~(editing /\ reboot.shown)

(* The selected item and the selected restore point exist; the separator   *)
(* is never selected (main.rs:336-352, app.rs:393-401).                    *)
SelectionExists == item \in Items \ {Separator} /\ (picker.on => picker.at < picker.size)

(* While the user is in the history the input is the entry there: typing   *)
(* or running a command leaves the history (main.rs:252-262, app.rs:498).  *)
HistoryShowsEntry == at # None => at \in DOMAIN history /\ line.input = history[at]

(* The history is bounded, and holds neither an empty command nor the same  *)
(* one twice in a row (app.rs:609-614).                                    *)
HistoryIsTidy ==
    /\ Len(history) <= MaxHistory
    /\ \A i \in 1..Len(history) : history[i] # ""
    /\ \A i \in 1..(Len(history) - 1) : history[i] # history[i + 1]

(* After a teardown the displayed verification is refreshed as soon as the *)
(* reboot modal is gone (app.rs:357-362, 484-491).                         *)
TeardownIsVerified == stale => reboot.shown \/ quit

=============================================================================
