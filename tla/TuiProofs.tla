------------------------------ MODULE TuiProofs ------------------------------
(***************************************************************************)
(* Proofs about Tui, for any command lines, any length of the history and  *)
(* any number of restore points: no sequence of keys reaches a state of the*)
(* front end that is ill typed (Typed), an overlay away from its tab or two*)
(* at once, or a selection of nothing (Overlays), a history that is out of *)
(* step with the input (History), or a verification that a teardown has    *)
(* made stale and nothing will refresh (Verified).                         *)
(***************************************************************************)
EXTENDS Tui, TLAPS

TabNames == {"Dashboard", "Setup", "Monitor", "Logs", "Terminal"}

LEMMA TabsAre == /\ \A i \in 1..5 : Tabs[i] \in TabNames
                 /\ {Tabs[i] : i \in 1..5} = TabNames
<1>1. /\ Tabs[1] = "Dashboard" /\ Tabs[2] = "Setup" /\ Tabs[3] = "Monitor"
      /\ Tabs[4] = "Logs" /\ Tabs[5] = "Terminal"
  BY DEF Tabs
<1>2. 1..5 = {1, 2, 3, 4, 5}
  OBVIOUS
<1>3. \A i \in 1..5 : Tabs[i] \in TabNames
  BY <1>1, <1>2 DEF TabNames
<1>4. \A t \in TabNames : \E i \in 1..5 : Tabs[i] = t
  BY <1>1, <1>2 DEF TabNames
<1> QED
  BY <1>3, <1>4

LEMMA Switched ==
    ASSUME TypeOK, NEW k, SwitchTab(k) PROVE tab' \in TabNames
<1>1. \E i \in 1..5 : Tabs[i] = tab
  BY DEF TypeOK
<1>2. Index(tab) \in 1..5
  BY <1>1 DEF Index
<1>3. (Index(tab) % 5) + 1 \in 1..5 /\ ((Index(tab) + 3) % 5) + 1 \in 1..5
  BY <1>2
<1> QED
  BY <1>3, TabsAre DEF SwitchTab

LEMMA Jumped ==
    ASSUME NEW k \in DOMAIN Hotkey PROVE Hotkey[k] \in TabNames
  BY DEF Hotkey, TabNames

(* The history after a command is a sequence of commands, no longer than   *)
(* allowed, and without a repetition if there was none.                    *)
LEMMA RememberedTyped ==
    ASSUME TypeOK, NEW cmd \in Texts PROVE Remembered(cmd) \in Seq(Texts)
<1>1. Append(history, cmd) \in Seq(Texts)
  BY DEF TypeOK
<1>2. Len(Append(history, cmd)) > MaxHistory => Tail(Append(history, cmd)) \in Seq(Texts)
  <2>1. Append(history, cmd) # <<>>
    BY DEF TypeOK
  <2> QED
    BY <1>1, <2>1
<1> QED
  BY <1>1, <1>2 DEF Remembered, TypeOK

(* A text that neither is in the history nor is run does not get into it.  *)
LEMMA RememberedSaid ==
    ASSUME TypeOK, NEW cmd \in Texts, NEW text, cmd # text,
           \A i \in 1..Len(history) : history[i] # text
    PROVE  LET h == Remembered(cmd) IN \A i \in 1..Len(h) : h[i] # text
<1> DEFINE longer == Append(history, cmd)
<1>a. history \in Seq(Texts) /\ Len(history) \in Nat
  BY DEF TypeOK
<1>b. longer \in Seq(Texts) /\ Len(longer) = Len(history) + 1
  BY <1>a
<1>c. \A i \in 1..Len(history) : longer[i] = history[i]
  BY <1>a
<1>d. longer[Len(history) + 1] = cmd
  BY <1>a
<1>3. Remembered(cmd) = history \/ Remembered(cmd) = longer \/ Remembered(cmd) = Tail(longer)
  BY DEF Remembered
<1> HIDE DEF longer
<1>4. \A i \in 1..Len(longer) : longer[i] # text
  <2> SUFFICES ASSUME NEW i \in 1..Len(longer) PROVE longer[i] # text
    OBVIOUS
  <2>1. i \in 1..Len(history) \/ i = Len(history) + 1
    BY <1>a, <1>b
  <2> QED
    BY <1>c, <1>d, <2>1
<1>5. ASSUME NEW i \in 1..Len(Tail(longer)) PROVE Tail(longer)[i] # text
  <2>1. longer # <<>>
    BY <1>a, <1>b
  <2>2. Len(Tail(longer)) = Len(longer) - 1 /\ Len(longer) \in Nat
    BY <1>b, <2>1
  <2>3. Tail(longer)[i] = longer[i + 1] /\ i + 1 \in 1..Len(longer)
    BY <1>b, <2>1, <2>2
  <2> QED
    BY <1>4, <2>3
<1> QED
  BY <1>3, <1>4, <1>5

LEMMA RememberedTidy ==
    ASSUME TypeOK, HistoryIsTidy, NEW cmd \in Texts
    PROVE  LET h == Remembered(cmd) IN
           Len(h) <= MaxHistory /\ \A i \in 1..(Len(h) - 1) : h[i] # h[i + 1]
<1> DEFINE longer == Append(history, cmd)
<1>a. history \in Seq(Texts) /\ Len(history) \in Nat
  BY DEF TypeOK
<1>b. longer \in Seq(Texts) /\ Len(longer) = Len(history) + 1
  BY <1>a
<1>c. \A i \in 1..Len(history) : longer[i] = history[i]
  BY <1>a
<1>d. longer[Len(history) + 1] = cmd
  BY <1>a
<1>e. Len(history) <= MaxHistory /\ MaxHistory \in Nat \ {0}
  BY TuiAssumption DEF HistoryIsTidy
<1>f. \A i \in 1..(Len(history) - 1) : history[i] # history[i + 1]
  BY DEF HistoryIsTidy
<1> HIDE DEF longer
<1>1. /\ history \in Seq(Texts) /\ longer \in Seq(Texts) /\ Len(longer) = Len(history) + 1
      /\ Len(history) \in Nat /\ Len(history) <= MaxHistory /\ MaxHistory \in Nat \ {0}
      /\ \A i \in 1..Len(history) : longer[i] = history[i]
      /\ longer[Len(history) + 1] = cmd
      /\ \A i \in 1..(Len(history) - 1) : history[i] # history[i + 1]
  BY <1>a, <1>b, <1>c, <1>d, <1>e, <1>f
<1>2. CASE history # <<>> /\ history[Len(history)] = cmd
  BY <1>1, <1>2 DEF Remembered
<1>3. CASE ~(history # <<>> /\ history[Len(history)] = cmd)
  <2>1. \A i \in 1..(Len(longer) - 1) : longer[i] # longer[i + 1]
    <3> SUFFICES ASSUME NEW i \in 1..(Len(longer) - 1) PROVE longer[i] # longer[i + 1]
      OBVIOUS
    <3>1. CASE i < Len(history)
      <4>1. i \in 1..(Len(history) - 1) /\ i \in 1..Len(history) /\ i + 1 \in 1..Len(history)
        BY <1>1, <3>1
      <4> QED
        BY <1>1, <4>1
    <3>2. CASE i = Len(history)
      <4>1. history # <<>> /\ i \in 1..Len(history)
        BY <1>1, <3>2
      <4> QED
        BY <1>1, <1>3, <3>2, <4>1
    <3> QED
      BY <1>1, <3>1, <3>2
  <2>2. CASE Len(longer) > MaxHistory
    <3>1. Remembered(cmd) = Tail(longer)
      BY <1>3, <2>2 DEF Remembered, longer
    <3>2. longer # <<>>
      BY <1>1
    <3>3. Len(Tail(longer)) = Len(longer) - 1
          /\ \A i \in 1..(Len(longer) - 1) : Tail(longer)[i] = longer[i + 1]
      BY <1>1, <3>2
    <3>4. \A i \in 1..(Len(longer) - 2) : Tail(longer)[i] # Tail(longer)[i + 1]
      <4> SUFFICES ASSUME NEW i \in 1..(Len(longer) - 2) PROVE Tail(longer)[i] # Tail(longer)[i + 1]
        OBVIOUS
      <4>1. i \in 1..(Len(longer) - 1) /\ i + 1 \in 1..(Len(longer) - 1)
        BY <1>1
      <4> QED
        BY <2>1, <3>3, <4>1
    <3> QED
      BY <1>1, <3>1, <3>3, <3>4
  <2>3. CASE Len(longer) <= MaxHistory
    <3>1. Remembered(cmd) = longer
      BY <1>1, <1>3, <2>3 DEF Remembered, longer
    <3> QED
      BY <1>1, <2>1, <2>3, <3>1
  <2> QED
    BY <1>1, <2>2, <2>3
<1> QED
  BY <1>2, <1>3

-----------------------------------------------------------------------------
(* Every conjunct of the type invariant but the tab is about one variable; *)
(* these are the steps of the command line, which changes several.         *)
LEMMA FocusedTyped ==
    ASSUME TypeOK, HistoryShowsEntry, NEW k, FocusedTerminal(k)
    PROVE  /\ focused' \in BOOLEAN /\ line' \in [input : Texts, draft : Texts]
           /\ history' \in Seq(Texts) /\ at' \in Nat \cup {None}
           /\ quit' \in BOOLEAN /\ stale' \in BOOLEAN
<1>a. line \in [input : Texts, draft : Texts]
  BY DEF TypeOK
<1>b. history \in Seq(Texts)
  BY DEF TypeOK
<1>c. at \in Nat \cup {None}
  BY DEF TypeOK
<1>d. focused \in BOOLEAN /\ quit \in BOOLEAN /\ stale \in BOOLEAN
  BY DEF TypeOK
<1>e. line.input \in Texts /\ line.draft \in Texts /\ "" \in Texts
  BY <1>a, TuiAssumption
<1>f. Len(history) \in Nat /\ \A i \in 1..Len(history) : history[i] \in Texts
  BY <1>b
<1>g. \A t \in Texts : [line EXCEPT !.input = t] \in [input : Texts, draft : Texts]
  BY <1>a
<1>1. CASE k = "Esc" /\ focused' = FALSE /\ UNCHANGED <<line, history, at, quit, stale>>
  BY <1>1, <1>a, <1>b, <1>c, <1>d
<1>2. CASE Exec
  <2>1. history' \in Seq(Texts)
    <3>1. Remembered(line.input) \in Seq(Texts)
      BY <1>e, RememberedTyped
    <3> QED
      BY <1>2, <1>b, <3>1 DEF Exec
  <2>2. line' \in [input : Texts, draft : Texts] /\ at' = None /\ focused' = focused
    BY <1>2, <1>e DEF Exec
  <2>3. quit' \in BOOLEAN
    BY <1>2 DEF Exec
  <2>4. stale' \in BOOLEAN
    BY <1>2, <1>d DEF Exec
  <2> QED
    BY <1>d, <2>1, <2>2, <2>3, <2>4
<1>3. CASE Type(k)
  <2>1. line' \in [input : Texts, draft : Texts]
    BY <1>3, <1>g DEF Type
  <2> QED
    BY <1>3, <1>b, <1>d, <2>1 DEF Type
<1>h. at # None => at \in 1..Len(history)
  BY <1>b DEF HistoryShowsEntry
<1>4. CASE Prev /\ UNCHANGED <<focused, history, quit, stale>>
  <2>1. CASE history = <<>>
    BY <1>4, <1>a, <1>b, <1>c, <1>d, <2>1 DEF Prev
  <2>2. CASE history # <<>>
    <3> DEFINE i == IF at = None THEN Len(history) ELSE IF at = 1 THEN 1 ELSE at - 1
               d == IF at = None THEN line.input ELSE line.draft
    <3>1. at' = i /\ line' = [input |-> history[i], draft |-> d]
      BY <1>4, <2>2 DEF Prev
    <3>2. i \in 1..Len(history)
      BY <1>b, <1>f, <1>h, <2>2
    <3>3. d \in Texts
      BY <1>e
    <3> HIDE DEF i, d
    <3>4. line' \in [input : Texts, draft : Texts]
      BY <1>f, <3>1, <3>2, <3>3
    <3> QED
      BY <1>4, <1>b, <1>d, <1>f, <3>1, <3>2, <3>4
  <2> QED
    BY <2>1, <2>2
<1>5. CASE NextEntry /\ UNCHANGED <<focused, history, quit, stale>>
  <2>1. CASE at = None
    BY <1>5, <1>a, <1>b, <1>c, <1>d, <2>1 DEF NextEntry
  <2>2. CASE at # None /\ at >= Len(history)
    <3>1. at' = None /\ line' = [line EXCEPT !.input = line.draft]
      BY <1>5, <2>2 DEF NextEntry
    <3>2. line' \in [input : Texts, draft : Texts]
      BY <1>e, <1>g, <3>1
    <3> QED
      BY <1>5, <1>b, <1>d, <3>1, <3>2
  <2>3. CASE at # None /\ ~(at >= Len(history))
    <3>1. at' = at + 1 /\ line' = [line EXCEPT !.input = history[at + 1]]
      BY <1>5, <2>3 DEF NextEntry
    <3>2. at + 1 \in 1..Len(history)
      BY <1>f, <1>h, <2>3
    <3>3. line' \in [input : Texts, draft : Texts]
      BY <1>f, <1>g, <3>1, <3>2
    <3> QED
      BY <1>5, <1>b, <1>d, <3>1, <3>2, <3>3
  <2> QED
    BY <2>1, <2>2, <2>3
<1> QED
  BY <1>1, <1>2, <1>3, <1>4, <1>5 DEF FocusedTerminal

(* Of the steps of the command line: what is in the input is the entry of  *)
(* the history that the user is at, and the history stays tidy.            *)
LEMMA FocusedShows ==
    ASSUME TypeOK, HistoryShowsEntry, HistoryIsTidy, NEW k, FocusedTerminal(k)
    PROVE  HistoryShowsEntry' /\ HistoryIsTidy'
<1>a. line \in [input : Texts, draft : Texts]
  BY DEF TypeOK
<1>b. history \in Seq(Texts) /\ Len(history) \in Nat
  BY DEF TypeOK
<1>c. line.input \in Texts
  BY <1>a
<1>h. at # None => at \in 1..Len(history)
  BY <1>b DEF HistoryShowsEntry
<1>k. history' = history => HistoryIsTidy'
  BY DEF HistoryIsTidy
<1>n. at' = None => HistoryShowsEntry'
  BY DEF HistoryShowsEntry
<1>1. CASE k = "Esc" /\ focused' = FALSE /\ UNCHANGED <<line, history, at, quit, stale>>
  BY <1>1, <1>k DEF HistoryShowsEntry
<1>2. CASE Exec
  <2>1. at' = None /\ (history' = history \/ (line.input # "" /\ history' = Remembered(line.input)))
    BY <1>2 DEF Exec
  <2>2. line.input # "" /\ history' = Remembered(line.input) => HistoryIsTidy'
    BY <1>c, RememberedSaid, RememberedTidy DEF HistoryIsTidy
  <2> QED
    BY <1>k, <1>n, <2>1, <2>2
<1>3. CASE Type(k)
  BY <1>3, <1>k, <1>n DEF Type
<1>4. CASE Prev /\ UNCHANGED <<focused, history, quit, stale>>
  <2>1. CASE history = <<>>
    BY <1>4, <1>k, <2>1 DEF Prev, HistoryShowsEntry
  <2>2. CASE history # <<>>
    <3> DEFINE i == IF at = None THEN Len(history) ELSE IF at = 1 THEN 1 ELSE at - 1
               d == IF at = None THEN line.input ELSE line.draft
    <3>1. at' = i /\ line' = [input |-> history[i], draft |-> d]
      BY <1>4, <2>2 DEF Prev
    <3>2. i \in 1..Len(history)
      BY <1>b, <1>h, <2>2
    <3> HIDE DEF i, d
    <3>3. line'.input = history[i]
      BY <3>1
    <3>4. i \in DOMAIN history
      BY <1>b, <3>2
    <3> QED
      BY <1>4, <1>k, <3>1, <3>3, <3>4 DEF HistoryShowsEntry
  <2> QED
    BY <2>1, <2>2
<1>5. CASE NextEntry /\ UNCHANGED <<focused, history, quit, stale>>
  <2>1. CASE at = None
    BY <1>5, <1>k, <2>1 DEF NextEntry, HistoryShowsEntry
  <2>2. CASE at # None /\ at >= Len(history)
    BY <1>5, <1>k, <1>n, <2>2 DEF NextEntry
  <2>3. CASE at # None /\ ~(at >= Len(history))
    <3>1. at' = at + 1 /\ line' = [line EXCEPT !.input = history[at + 1]]
      BY <1>5, <2>3 DEF NextEntry
    <3>2. at + 1 \in 1..Len(history)
      BY <1>b, <1>h, <2>3
    <3>3. line'.input = history[at + 1]
      BY <1>a, <3>1
    <3>4. at + 1 \in DOMAIN history
      BY <1>b, <3>2
    <3> QED
      BY <1>5, <1>k, <3>1, <3>3, <3>4 DEF HistoryShowsEntry
  <2> QED
    BY <2>1, <2>2, <2>3
<1> QED
  BY <1>1, <1>2, <1>3, <1>4, <1>5 DEF FocusedTerminal

-----------------------------------------------------------------------------
(* The inductive invariant.  A stale verification is one that the reboot   *)
(* modal will refresh when it is dismissed; TeardownIsVerified says only   *)
(* that the modal is there, which RunApply would not preserve.             *)
TeardownPending == stale /\ ~quit => reboot.shown /\ reboot.refresh

FrontOK ==
    /\ tab \in TabNames /\ item \in Items
    /\ quit \in BOOLEAN /\ root \in BOOLEAN /\ editing \in BOOLEAN /\ stale \in BOOLEAN
    /\ reboot \in [shown : BOOLEAN, refresh : BOOLEAN]
    /\ picker \in [on : BOOLEAN, at : Nat, size : 0..MaxPoints] /\ saved \in 0..MaxPoints
TerminalOK ==
    /\ focused \in BOOLEAN /\ line \in [input : Texts, draft : Texts]
    /\ history \in Seq(Texts) /\ at \in Nat \cup {None}
FrontInv == FrontOK /\ OverlayOnSetup /\ SelectionExists /\ TeardownPending
TerminalInv == TerminalOK /\ HistoryShowsEntry /\ HistoryIsTidy

LEMMA Parts == (TypeOK <=> FrontOK /\ TerminalOK) /\ (TypeOK' <=> FrontOK' /\ TerminalOK')
  BY TabsAre DEF TypeOK, FrontOK, TerminalOK

(* Records of the two overlays that have some.                             *)
LEMMA Records ==
    /\ \A a, b \in BOOLEAN : [shown |-> a, refresh |-> b] \in [shown : BOOLEAN, refresh : BOOLEAN]
    /\ \A a \in BOOLEAN, n \in Nat, m \in 0..MaxPoints :
          [on |-> a, at |-> n, size |-> m] \in [on : BOOLEAN, at : Nat, size : 0..MaxPoints]
  OBVIOUS

(* A step that leaves the command line alone.                              *)
LEMMA TerminalKept == ASSUME TerminalInv, UNCHANGED terminal PROVE TerminalInv'
  BY DEF TerminalInv, TerminalOK, HistoryShowsEntry, HistoryIsTidy, terminal

LEMMA RootStep == ASSUME FrontInv, NEW k, ~quit, RootModal(k) PROVE FrontInv'
  BY DEF FrontInv, FrontOK, OverlayOnSetup, SelectionExists, TeardownPending, RootModal

LEMMA EditingStep == ASSUME FrontInv, NEW k, ~quit, Editing(k) PROVE FrontInv'
  BY DEF FrontInv, FrontOK, OverlayOnSetup, SelectionExists, TeardownPending, Editing

LEMMA RebootStep == ASSUME FrontInv, NEW k, ~quit, RebootModal(k) PROVE FrontInv'
<1> USE DEF FrontInv, RebootModal
<1>a. ~root /\ reboot.shown /\ UNCHANGED <<tab, root, picker, item, editing, terminal, saved>>
  OBVIOUS
<1>b. ~picker.on /\ ~editing /\ tab = "Setup"
  BY <1>a DEF OverlayOnSetup
<1>1. CASE reboot' = [shown |-> FALSE, refresh |-> FALSE]
  <2>1. quit' \in BOOLEAN /\ stale' \in BOOLEAN
    BY <1>a, <1>1 DEF FrontOK, DismissReboot
  <2>2. FrontOK'
    BY <1>a, <1>1, <2>1 DEF FrontOK
  <2>3. OverlayOnSetup' /\ SelectionExists'
    BY <1>a, <1>b, <1>1 DEF OverlayOnSetup, SelectionExists
  <2>4. TeardownPending'
    <3>1. CASE quit'
      BY <3>1 DEF TeardownPending
    <3>2. CASE ~quit'
      <4>1. DismissReboot \/ (UNCHANGED reboot)
        BY <3>2
      <4>2. ~(UNCHANGED reboot)
        BY <1>a, <1>1
      <4>3. stale' = (stale /\ ~reboot.refresh)
        BY <4>1, <4>2 DEF DismissReboot
      <4> QED
        BY <4>3 DEF TeardownPending
    <3> QED
      BY <3>1, <3>2
  <2> QED
    BY <2>2, <2>3, <2>4
<1>2. CASE UNCHANGED <<reboot, quit, stale>>
  BY <1>a, <1>2 DEF FrontOK, OverlayOnSetup, SelectionExists, TeardownPending
<1> QED
  BY <1>1, <1>2 DEF DismissReboot

LEMMA PickerStep == ASSUME FrontInv, NEW k, ~quit, Picker(k) PROVE FrontInv'
<1> USE DEF FrontInv
<1>a. /\ ~root /\ ~reboot.shown /\ picker.on
      /\ UNCHANGED <<tab, quit, root, item, editing, terminal, saved>>
  BY DEF Picker
<1>b. tab = "Setup" /\ ~editing /\ ~stale
  BY <1>a DEF OverlayOnSetup, TeardownPending
<1>c. /\ picker \in [on : BOOLEAN, at : Nat, size : 0..MaxPoints]
      /\ picker.at \in Nat /\ picker.size \in 0..MaxPoints /\ picker.at < picker.size
  BY <1>a DEF FrontOK, SelectionExists
<1>d. MaxPoints \in Nat
  BY TuiAssumption
<1>1. CASE UNCHANGED <<reboot, stale>> /\ \E n \in Nat : n < picker.size /\ picker' = [picker EXCEPT !.at = n]
  <2>1. PICK n \in Nat : n < picker.size /\ picker' = [picker EXCEPT !.at = n]
    BY <1>1
  <2>2. /\ picker' \in [on : BOOLEAN, at : Nat, size : 0..MaxPoints]
        /\ picker'.on = picker.on /\ picker'.at = n /\ picker'.size = picker.size
    BY <1>c, <2>1
  <2>3. FrontOK'
    BY <1>a, <1>1, <2>2 DEF FrontOK
  <2> QED
    BY <1>a, <1>b, <1>1, <2>1, <2>2, <2>3 DEF OverlayOnSetup, SelectionExists, TeardownPending
<1>2. CASE picker' = [picker EXCEPT !.on = FALSE] /\ (RunTeardown \/ UNCHANGED <<reboot, stale>>)
  <2>1. picker' \in [on : BOOLEAN, at : Nat, size : 0..MaxPoints] /\ picker'.on = FALSE
    BY <1>c, <1>2
  <2>2. \/ reboot' = [shown |-> TRUE, refresh |-> TRUE] /\ stale' = TRUE
        \/ reboot' = reboot /\ stale' = FALSE
    <3>1. stale = FALSE
      BY <1>b DEF FrontOK
    <3>2. CASE RunTeardown
      BY <3>2 DEF RunTeardown
    <3>3. CASE UNCHANGED <<reboot, stale>>
      BY <3>1, <3>3
    <3> QED
      BY <1>2, <3>2, <3>3
  <2>3. FrontOK'
    <3>1. reboot' \in [shown : BOOLEAN, refresh : BOOLEAN]
      BY <2>2, Records, Zenon DEF FrontOK
    <3>2. stale' \in BOOLEAN
      BY <2>2
    <3> QED
      BY <1>a, <2>1, <3>1, <3>2 DEF FrontOK
  <2>4. OverlayOnSetup' /\ SelectionExists'
    BY <1>a, <1>b, <2>1 DEF OverlayOnSetup, SelectionExists
  <2>5. TeardownPending'
    BY <2>2 DEF TeardownPending
  <2> QED
    BY <2>3, <2>4, <2>5
<1>3. \/ picker' = [picker EXCEPT !.at = IF @ > 0 THEN @ - 1 ELSE @] /\ UNCHANGED <<reboot, stale>>
      \/ PickerDown /\ UNCHANGED <<reboot, stale>>
      \/ picker' = [picker EXCEPT !.on = FALSE] /\ (RunTeardown \/ UNCHANGED <<reboot, stale>>)
  BY DEF Picker
<1>4. picker' = [picker EXCEPT !.at = IF @ > 0 THEN @ - 1 ELSE @]
      => \E n \in Nat : n < picker.size /\ picker' = [picker EXCEPT !.at = n]
  <2>1. (IF picker.at > 0 THEN picker.at - 1 ELSE picker.at) \in Nat
        /\ (IF picker.at > 0 THEN picker.at - 1 ELSE picker.at) < picker.size
    BY <1>c, <1>d
  <2> QED
    BY <2>1
<1>5. PickerDown => \E n \in Nat : n < picker.size /\ picker' = [picker EXCEPT !.at = n]
  <2>1. (IF picker.at + 1 < picker.size THEN picker.at + 1 ELSE picker.at) \in Nat
        /\ (IF picker.at + 1 < picker.size THEN picker.at + 1 ELSE picker.at) < picker.size
    BY <1>c, <1>d
  <2> QED
    BY <2>1 DEF PickerDown
<1> QED
  BY <1>1, <1>2, <1>3, <1>4, <1>5

(* No overlay and no pending refresh where the tabs take the keys.         *)
LEMMA FreeFacts ==
    ASSUME FrontInv, Free, ~quit
    PROVE  ~root /\ ~reboot.shown /\ ~picker.on /\ ~editing /\ ~stale
  BY DEF FrontInv, Free, OverlayOnSetup, TeardownPending

LEMMA SwitchTyped == ASSUME FrontInv, TerminalOK, NEW k, SwitchTab(k) PROVE tab' \in TabNames
  BY Switched, Parts DEF FrontInv

(* A step that only changes the tab or ends the program, and may refresh.  *)
LEMMA Moved ==
    ASSUME FrontInv, Free, ~quit, tab' \in TabNames, quit' \in BOOLEAN, stale' = FALSE,
           UNCHANGED <<root, reboot, picker, item, editing, saved>>
    PROVE  FrontInv'
<1>1. ~root /\ ~reboot.shown /\ ~picker.on /\ ~editing /\ ~stale
  BY FreeFacts
<1>2. FrontOK'
  BY DEF FrontInv, FrontOK
<1>3. OverlayOnSetup' /\ SelectionExists' /\ TeardownPending'
  BY <1>1 DEF FrontInv, OverlayOnSetup, SelectionExists, TeardownPending
<1> QED
  BY <1>2, <1>3 DEF FrontInv

LEMMA TerminalStep ==
    ASSUME FrontInv, TerminalInv, NEW k, ~quit, TerminalTab(k) PROVE FrontInv' /\ TerminalInv'
<1>a. Free /\ UNCHANGED <<root, reboot, picker, item, editing, saved>>
  BY DEF TerminalTab, overlays
<1>b. tab \in TabNames /\ quit = FALSE /\ stale = FALSE
  BY <1>a, FreeFacts DEF FrontInv, FrontOK
<1>c. TypeOK
  BY Parts DEF FrontInv, TerminalInv
<1>1. CASE FocusedTerminal(k) /\ UNCHANGED tab
  <2>1. /\ focused' \in BOOLEAN /\ line' \in [input : Texts, draft : Texts]
        /\ history' \in Seq(Texts) /\ at' \in Nat \cup {None}
        /\ quit' \in BOOLEAN /\ stale' \in BOOLEAN
    BY <1>1, <1>c, FocusedTyped DEF TerminalInv
  <2>2. HistoryShowsEntry' /\ HistoryIsTidy'
    BY <1>1, <1>c, FocusedShows DEF TerminalInv
  <2>3. stale' = FALSE
    BY <1>1, <1>b DEF FocusedTerminal, Exec, Type
  <2>4. FrontInv'
    BY <1>1, <1>a, <1>b, <2>1, <2>3, Moved
  <2> QED
    BY <2>1, <2>2, <2>4 DEF TerminalInv, TerminalOK
<1>2. CASE focused' = TRUE /\ UNCHANGED <<line, history, at, tab, quit, stale>>
  <2>1. TerminalInv'
    BY <1>2 DEF TerminalInv, TerminalOK, HistoryShowsEntry, HistoryIsTidy
  <2>2. FrontInv'
    BY <1>2, <1>a, <1>b, Moved
  <2> QED
    BY <2>1, <2>2
<1>3. CASE (Quit(k) \/ SwitchTab(k)) /\ UNCHANGED <<terminal, stale>>
  <2>1. TerminalInv'
    BY <1>3, TerminalKept
  <2>2. tab' \in TabNames /\ quit' \in BOOLEAN
    <3>1. CASE Quit(k)
      BY <1>b, <3>1 DEF Quit
    <3>2. CASE SwitchTab(k)
      <4>1. tab' \in TabNames
        BY <3>2, SwitchTyped DEF TerminalInv
      <4> QED
        BY <1>b, <3>2, <4>1 DEF SwitchTab
    <3> QED
      BY <1>3, <3>1, <3>2
  <2>3. FrontInv'
    BY <1>3, <1>a, <1>b, <2>2, Moved
  <2> QED
    BY <2>1, <2>3
<1> QED
  BY <1>1, <1>2, <1>3 DEF TerminalTab

LEMMA LogsOrMonitorStep ==
    ASSUME FrontInv, TerminalOK, NEW k, ~quit, LogsOrMonitorTab(k) PROVE FrontInv'
<1>a. Free /\ UNCHANGED <<root, reboot, picker, item, editing, saved, stale>>
  BY DEF LogsOrMonitorTab, overlays
<1>b. tab \in TabNames /\ quit = FALSE /\ stale = FALSE
  BY <1>a, FreeFacts DEF FrontInv, FrontOK
<1>1. tab' \in TabNames /\ quit' \in BOOLEAN
  <2>1. CASE Quit(k)
    BY <1>b, <2>1 DEF Quit
  <2>2. CASE SwitchTab(k)
    <3>1. tab' \in TabNames
      BY <2>2, SwitchTyped
    <3> QED
      BY <1>b, <2>2, <3>1 DEF SwitchTab
  <2> QED
    BY <2>1, <2>2 DEF LogsOrMonitorTab
<1> QED
  BY <1>a, <1>b, <1>1, Moved

LEMMA GlobalStep == ASSUME FrontInv, TerminalOK, NEW k, ~quit, GlobalKey(k) PROVE FrontInv'
<1>a. Free /\ UNCHANGED root
  BY DEF GlobalKey
<1>b. ~root /\ ~reboot.shown /\ ~picker.on /\ ~editing /\ ~stale
  BY <1>a, FreeFacts
<1>c. tab \in TabNames /\ quit = FALSE /\ stale = FALSE /\ root' \in BOOLEAN
  BY <1>a, <1>b DEF FrontInv, FrontOK
<1>d. /\ item \in Items \ {Separator} /\ saved \in 0..MaxPoints /\ MaxPoints \in Nat
      /\ reboot \in [shown : BOOLEAN, refresh : BOOLEAN] /\ editing \in BOOLEAN
      /\ picker \in [on : BOOLEAN, at : Nat, size : 0..MaxPoints]
  BY TuiAssumption DEF FrontInv, FrontOK, SelectionExists
<1>1. CASE /\ Quit(k) \/ SwitchTab(k) \/ (k \in DOMAIN Hotkey /\ tab' = Hotkey[k] /\ UNCHANGED quit)
           /\ UNCHANGED <<reboot, picker, editing, item, saved, stale>>
  <2>1. tab' \in TabNames /\ quit' \in BOOLEAN
    <3>1. CASE Quit(k)
      BY <1>c, <3>1 DEF Quit
    <3>2. CASE SwitchTab(k)
      <4>1. tab' \in TabNames
        BY <3>2, SwitchTyped
      <4> QED
        BY <1>c, <3>2, <4>1 DEF SwitchTab
    <3>3. CASE k \in DOMAIN Hotkey /\ tab' = Hotkey[k] /\ UNCHANGED quit
      BY <1>c, <3>3, Jumped
    <3> QED
      BY <1>1, <3>1, <3>2, <3>3
  <2> QED
    BY <1>1, <1>a, <1>c, <2>1, Moved
<1>2. CASE /\ tab = "Setup" /\ (MoveUp \/ MoveDown)
           /\ UNCHANGED <<tab, quit, reboot, picker, editing, saved, stale>>
  <2>1. item' \in Items \ {Separator}
    <3>1. MoveUp => item' \in Items \ {Separator}
      BY <1>d DEF MoveUp, Items, Separator
    <3>2. MoveDown => item' \in Items \ {Separator}
      BY <1>d DEF MoveDown, Items, Separator
    <3> QED
      BY <1>2, <3>1, <3>2
  <2>2. FrontOK'
    BY <1>2, <1>c, <1>d, <2>1 DEF FrontOK
  <2> QED
    BY <1>2, <1>b, <2>1, <2>2 DEF FrontInv, OverlayOnSetup, SelectionExists, TeardownPending
<1>3. CASE tab = "Setup" /\ HandleEnter /\ UNCHANGED <<tab, quit, item>>
  <2>1. CASE editing' = TRUE /\ UNCHANGED <<reboot, picker, saved, stale>>
    <3>1. FrontOK'
      BY <1>3, <1>c, <1>d, <2>1 DEF FrontOK
    <3> QED
      BY <1>3, <1>b, <1>d, <2>1, <3>1
      DEF FrontInv, OverlayOnSetup, SelectionExists, TeardownPending
  <2>2. CASE RunApply
    <3>1. saved' \in 0..MaxPoints
      BY <1>d, <2>2 DEF RunApply
    <3>2. UNCHANGED <<picker, editing>> /\ stale' = FALSE
      BY <1>c, <2>2 DEF RunApply
    <3>3. reboot' \in [shown : BOOLEAN, refresh : BOOLEAN]
      <4>1. reboot' = [shown |-> TRUE, refresh |-> FALSE] \/ reboot' = reboot
        BY <2>2 DEF RunApply
      <4> QED
        BY <1>d, <4>1, Records, Zenon
    <3>4. FrontOK'
      BY <1>3, <1>c, <1>d, <3>1, <3>2, <3>3 DEF FrontOK
    <3> QED
      BY <1>3, <1>b, <1>d, <3>2, <3>4
      DEF FrontInv, OverlayOnSetup, SelectionExists, TeardownPending
  <2>3. CASE OpenPicker
    <3>1. UNCHANGED <<reboot, editing, saved, stale>>
      BY <2>3 DEF OpenPicker
    <3>2. picker' = [on |-> saved > 0, at |-> 0, size |-> saved]
      BY <2>3 DEF OpenPicker
    <3>3. (saved > 0) \in BOOLEAN /\ 0 \in Nat
      OBVIOUS
    <3>4. picker' \in [on : BOOLEAN, at : Nat, size : 0..MaxPoints]
      BY <1>d, <3>2, <3>3
    <3>5. picker'.on => picker'.at < picker'.size
      BY <1>d, <3>2
    <3>6. FrontOK'
      BY <1>3, <1>c, <1>d, <3>1, <3>4 DEF FrontOK
    <3> QED
      BY <1>3, <1>b, <1>c, <1>d, <3>1, <3>5, <3>6
      DEF FrontInv, OverlayOnSetup, SelectionExists, TeardownPending
  <2>4. CASE stale' = FALSE /\ UNCHANGED <<reboot, picker, editing, saved>>
    BY <1>3, <1>a, <1>c, <2>4, Moved
  <2> QED
    BY <1>3, <2>1, <2>2, <2>3, <2>4 DEF HandleEnter
<1>4. CASE stale' = FALSE /\ UNCHANGED <<tab, quit, reboot, picker, editing, item, saved>>
  BY <1>4, <1>a, <1>c, Moved
<1> QED
  BY <1>1, <1>2, <1>3, <1>4 DEF GlobalKey

-----------------------------------------------------------------------------
LEMMA InitInv == Init => FrontInv /\ TerminalInv
<1> SUFFICES ASSUME Init PROVE FrontInv /\ TerminalInv
  OBVIOUS
<1>1. /\ tab = "Dashboard" /\ quit = FALSE /\ root \in BOOLEAN
      /\ reboot = [shown |-> FALSE, refresh |-> FALSE]
      /\ picker = [on |-> FALSE, at |-> 0, size |-> 0]
      /\ item = 0 /\ editing = FALSE /\ focused = FALSE
      /\ line = [input |-> "", draft |-> ""] /\ history = <<>> /\ at = None
      /\ saved \in 0..MaxPoints /\ stale = FALSE
  BY DEF Init
<1>2. "" \in Texts
  BY TuiAssumption
<1>n. MaxPoints \in Nat /\ MaxHistory \in Nat
  BY TuiAssumption
<1>3. /\ reboot \in [shown : BOOLEAN, refresh : BOOLEAN] /\ ~reboot.shown
      /\ picker \in [on : BOOLEAN, at : Nat, size : 0..MaxPoints] /\ ~picker.on
  <2>1. TRUE \in BOOLEAN /\ FALSE \in BOOLEAN /\ 0 \in Nat /\ 0 \in 0..MaxPoints
    BY <1>n
  <2>2. reboot \in [shown : BOOLEAN, refresh : BOOLEAN]
    BY <1>1, <2>1, Records, Zenon
  <2>3. picker \in [on : BOOLEAN, at : Nat, size : 0..MaxPoints]
    BY <1>1, <2>1, Records, Zenon
  <2>4. ~reboot.shown
    BY <1>1, Zenon
  <2>5. ~picker.on
    BY <1>1, Zenon
  <2> QED
    BY <2>2, <2>3, <2>4, <2>5
<1>4. FrontOK
  <2>0. 0 \in Items
    BY DEF Items
  <2>1. tab \in TabNames /\ item \in Items
    BY <1>1, <2>0, Zenon DEF TabNames
  <2>2. quit \in BOOLEAN /\ root \in BOOLEAN /\ editing \in BOOLEAN /\ stale \in BOOLEAN
    BY <1>1, Zenon
  <2> QED
    BY <1>1, <1>3, <2>1, <2>2, Zenon DEF FrontOK
<1>5. OverlayOnSetup /\ SelectionExists /\ TeardownPending
  <2>1. 0 \in Items \ {Separator}
    BY DEF Items, Separator
  <2> QED
    BY <1>1, <1>3, <2>1, Zenon DEF OverlayOnSetup, SelectionExists, TeardownPending
<1>6. TerminalOK
  <2>1. \A t \in Texts : [input |-> t, draft |-> t] \in [input : Texts, draft : Texts]
    OBVIOUS
  <2>2. << >> \in Seq(Texts)
    OBVIOUS
  <2> QED
    BY <1>1, <1>2, <2>1, <2>2, Zenon DEF TerminalOK
<1>7. HistoryShowsEntry /\ HistoryIsTidy
  <2>1. /\ Len(<< >>) <= MaxHistory /\ \A i \in 1..Len(<< >>) : FALSE
        /\ \A i \in 1..(Len(<< >>) - 1) : FALSE
    BY <1>n
  <2>2. history = << >> /\ at = None
    BY <1>1, Zenon
  <2> QED
    BY <2>1, <2>2 DEF HistoryShowsEntry, HistoryIsTidy
<1> QED
  BY <1>4, <1>5, <1>6, <1>7 DEF FrontInv, TerminalInv

LEMMA StepInv == FrontInv /\ TerminalInv /\ [Next]_vars => FrontInv' /\ TerminalInv'
<1> SUFFICES ASSUME FrontInv, TerminalInv, [Next]_vars PROVE FrontInv' /\ TerminalInv'
  OBVIOUS
<1>1. CASE UNCHANGED vars
  <2>1. FrontInv'
    BY <1>1 DEF vars, FrontInv, FrontOK, OverlayOnSetup, SelectionExists, TeardownPending
  <2> QED
    BY <1>1, <2>1, TerminalKept DEF vars, terminal
<1>2. ASSUME NEW k \in Keys, HandleKey(k) PROVE FrontInv' /\ TerminalInv'
  <2>0. ~quit /\ TerminalOK
    BY <1>2 DEF HandleKey, TerminalInv
  <2>1. CASE RootModal(k)
    <3>1. UNCHANGED terminal
      BY <2>1 DEF RootModal
    <3> QED
      BY <2>0, <2>1, <3>1, RootStep, TerminalKept
  <2>2. CASE RebootModal(k)
    <3>1. UNCHANGED terminal
      BY <2>2 DEF RebootModal
    <3> QED
      BY <2>0, <2>2, <3>1, RebootStep, TerminalKept
  <2>3. CASE Picker(k)
    <3>1. UNCHANGED terminal
      BY <2>3 DEF Picker
    <3> QED
      BY <2>0, <2>3, <3>1, PickerStep, TerminalKept
  <2>4. CASE Editing(k)
    <3>1. UNCHANGED terminal
      BY <2>4 DEF Editing
    <3> QED
      BY <2>0, <2>4, <3>1, EditingStep, TerminalKept
  <2>5. CASE TerminalTab(k)
    BY <2>0, <2>5, TerminalStep
  <2>6. CASE LogsOrMonitorTab(k)
    <3>1. UNCHANGED terminal
      BY <2>6 DEF LogsOrMonitorTab
    <3> QED
      BY <2>0, <2>6, <3>1, LogsOrMonitorStep, TerminalKept
  <2>7. CASE GlobalKey(k)
    <3>1. UNCHANGED terminal
      BY <2>7 DEF GlobalKey
    <3> QED
      BY <2>0, <2>7, <3>1, GlobalStep, TerminalKept
  <2> QED
    BY <1>2, <2>1, <2>2, <2>3, <2>4, <2>5, <2>6, <2>7 DEF HandleKey
<1> QED
  BY <1>1, <1>2 DEF Next

LEMMA Invariant == Spec => [](FrontInv /\ TerminalInv)
  BY InitInv, StepInv, PTL DEF Spec

(* Every state of the front end is well typed: the fixed tables are never  *)
(* indexed outside their bounds and `idx - 1` never wraps.                 *)
THEOREM Typed == Spec => []TypeOK
<1>1. FrontInv /\ TerminalInv => TypeOK
  BY Parts DEF FrontInv, TerminalInv
<1> QED
  BY <1>1, Invariant, PTL

(* No key changes the tab below an overlay of the Setup tab, or opens a    *)
(* second one (main.rs:191-236).                                           *)
THEOREM Overlays == Spec => []OverlayOnSetup
<1>1. FrontInv /\ TerminalInv => OverlayOnSetup
  BY DEF FrontInv
<1> QED
  BY <1>1, Invariant, PTL

(* There is always something selected, in the form and in the picker       *)
(* (main.rs:336-352, app.rs:379-406).                                      *)
THEOREM Selections == Spec => []SelectionExists
<1>1. FrontInv /\ TerminalInv => SelectionExists
  BY DEF FrontInv
<1> QED
  BY <1>1, Invariant, PTL

(* For every sequence of keys and commands the input is the entry of the   *)
(* history the user is at (app.rs:498-521).                                *)
THEOREM History == Spec => []HistoryShowsEntry
<1>1. FrontInv /\ TerminalInv => HistoryShowsEntry
  BY DEF TerminalInv
<1> QED
  BY <1>1, Invariant, PTL

(* The history is bounded, and has neither an empty command nor the same   *)
(* one twice in a row (app.rs:609-614).                                    *)
THEOREM Tidy == Spec => []HistoryIsTidy
<1>1. FrontInv /\ TerminalInv => HistoryIsTidy
  BY DEF TerminalInv
<1> QED
  BY <1>1, Invariant, PTL

(* A verification that a teardown has made stale is refreshed when the     *)
(* reboot modal goes, unless the program ends.                             *)
THEOREM Verified == Spec => []TeardownIsVerified
<1>1. FrontInv /\ TerminalInv => TeardownIsVerified
  BY DEF FrontInv, TeardownPending, TeardownIsVerified
<1> QED
  BY <1>1, Invariant, PTL
=============================================================================
