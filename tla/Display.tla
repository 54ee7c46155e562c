------------------------------- MODULE Display -------------------------------
(***************************************************************************)
(* What the TUI shows of lists that are longer than the screen: the window *)
(* that render() of each tab cuts out of its list (tui/src/tabs/), the     *)
(* scroll counters that keys and wheel move (tui/src/main.rs), and the     *)
(* histories behind the graphs, which tick() fills from snapshots whose    *)
(* number of cores, interfaces and disks may change under them             *)
(* (tui/src/app.rs).                                                       *)
(*                                                                         *)
(* Lists are their lengths, snapshots their counts and the tick they were  *)
(* taken at.  Modals, the edit line and the command history are in Tui.    *)
(* (Foo_Bug is a wrong version of Foo.)                                    *)
(***************************************************************************)
EXTENDS Integers, Sequences

CONSTANTS
    Shapes,         \* snapshots: how many cores, interfaces and disks
    Areas,          \* height and width of the area of a list, borders included
    HistoryLen,     \* samples in a graph (300)
    Page, Wheel,    \* lines per PgUp and per notch of the wheel (10 and 3)
    Far,            \* where Home puts the sections of the Monitor tab (999)
    MaxLines,       \* bound: lines of the log and of the terminal
    MaxTicks,       \* bound: ticks
    None

Texts    == {"logs", "terminal"}
Sections == {"cpu", "net", "disk"}
Lists    == Texts \cup Sections

ASSUME DisplayAssumption ==
    /\ Shapes \subseteq [Sections -> Nat]
    /\ None \notin Shapes /\ None \notin [of : Shapes, at : Nat]
    /\ Areas \subseteq [h : Nat, w : Nat]
    /\ HistoryLen \in Nat \ {0} /\ Page \in Nat \ {0} /\ Wheel \in Nat \ {0} /\ Far \in Nat
    /\ MaxLines \in Nat /\ MaxTicks \in Nat

VARIABLES
    tab,        \* "logs", "terminal", "monitor" or "other"
    focused,    \* terminal_focused
    section,    \* monitor_section
    lines,      \* logs.len(), terminal_output.len()
    scroll,     \* log_scroll, terminal_scroll and monitor_*_scroll
    snap,       \* latest_snapshot: its counts and the tick it was taken at
    series,     \* the histories: for each item its number of samples and the last one
    tick,       \* tick_count
    source,     \* what the monitor, or the daemon, gives on the next tick
    area        \* the area that a list is drawn in

vars == <<tab, focused, section, lines, scroll, snap, series, tick, source, area>>

TypeOK ==
    /\ tab \in {"logs", "terminal", "monitor", "other"} /\ focused \in BOOLEAN
    /\ section \in Sections
    /\ lines \in [Texts -> Nat] /\ scroll \in [Lists -> Nat]
    /\ snap \in {None} \cup [of : Shapes, at : Nat]
    /\ series \in [Sections -> Seq([len : 1..HistoryLen, last : Nat])]
    /\ tick \in Nat /\ source \in {None} \cup Shapes
    /\ area \in Areas

Init ==
    /\ tab = "other" /\ focused = FALSE /\ section = "cpu"
    /\ lines \in [Texts -> 0..MaxLines] /\ scroll = [l \in Lists |-> 0]
    /\ snap = None /\ series = [s \in Sections |-> <<>>]
    /\ tick = 0 /\ source \in {None} \cup Shapes
    /\ area \in Areas

Smaller(m, n) == IF m <= n THEN m ELSE n
Larger(m, n)  == IF m <= n THEN n ELSE m
Minus(m, n)   == IF m <= n THEN 0 ELSE m - n      \* saturating_sub

-----------------------------------------------------------------------------
(* render(): the items from Window(l).from up to, and without, Window(l).to.*)

Total(l) == IF l \in Texts THEN lines[l] ELSE IF snap = None THEN 0 ELSE snap.of[l]

Inner(size) == Minus(size, 2)

(* Columns of cores of 22 characters, two lines each; columns of interfaces*)
(* of 24; a line for each disk.                                            *)
Visible(l) ==
    CASE l \in Texts -> Inner(area.h)
      [] l = "cpu"   -> Larger(Inner(area.h) \div 2, 1) * Larger(Inner(area.w) \div 22, 1)
      [] l = "net"   -> Smaller(Larger(Inner(area.w) \div 24, 1), Total(l))
      [] l = "disk"  -> Larger(Inner(area.h), 1)

(* The counter is taken as it is.                                          *)
Clamped_Not(l) == scroll[l]

Clamped(l) == Smaller(scroll[l], Minus(Total(l), Visible(l)))

(* The log and the terminal count from their end, the sections of the      *)
(* Monitor tab from their beginning.                                       *)
From(l) == IF l \in Texts THEN Minus(Minus(Total(l), Visible(l)), Clamped(l)) ELSE Clamped(l)

To(l) == Smaller(From(l) + Visible(l), Total(l))

-----------------------------------------------------------------------------
(* The counters: scroll_up() and scroll_down().                            *)

(* Without .min(total).                                                    *)
Up_Unbounded(l, n) == scroll' = [scroll EXCEPT ![l] = @ + n]

Up(l, n) == scroll' = [scroll EXCEPT ![l] = Smaller(@ + n, Total(l))]

Down(l, n) == scroll' = [scroll EXCEPT ![l] = Minus(@, n)]

(* The list that the keys and the wheel move: in the Monitor tab the       *)
(* section in focus.                                                       *)
Current == IF tab = "monitor" THEN section ELSE tab

Move(n) == Up(Current, n) \/ Down(Current, n)

rest == <<tab, focused, section, lines, snap, series, tick, source, area>>

ScrollWheel == tab # "other" /\ Move(Wheel) /\ UNCHANGED rest
PageKey     == tab # "other" /\ Move(Page) /\ UNCHANGED rest

(* The arrows belong to the command history while the terminal has focus.  *)
Free == tab # "other" /\ (tab = "terminal" => ~focused)

UpKey    == Free /\ Up(Current, 1) /\ UNCHANGED rest
DownKey  == Free /\ Down(Current, 1) /\ UNCHANGED rest

(* Home is all the lines of a text, and further than any section is long.  *)
Home(l) == IF l \in Texts THEN lines[l] ELSE Far

HomeKey ==
    /\ Free
    /\ scroll' = IF tab = "monitor" THEN [l \in Lists |-> IF l \in Sections THEN Home(l) ELSE scroll[l]]
                                    ELSE [scroll EXCEPT ![tab] = Home(tab)]
    /\ UNCHANGED rest

EndKey ==
    /\ Free
    /\ scroll' = IF tab = "monitor" THEN [l \in Lists |-> IF l \in Sections THEN 0 ELSE scroll[l]]
                                    ELSE [scroll EXCEPT ![tab] = 0]
    /\ UNCHANGED rest

(* The left and right arrows, one way or the other around.                 *)
SectionKey ==
    /\ tab = "monitor" /\ section' \in Sections \ {section}
    /\ UNCHANGED <<tab, focused, lines, scroll, snap, series, tick, source, area>>

SwitchTab ==
    /\ tab' \in {"logs", "terminal", "monitor", "other"} \ {tab}
    /\ UNCHANGED <<focused, section, lines, scroll, snap, series, tick, source, area>>

(* Enter and Esc in the terminal, when no command is run.                  *)
Focus ==
    /\ tab = "terminal" /\ focused' = ~focused
    /\ UNCHANGED <<tab, section, lines, scroll, snap, series, tick, source, area>>

(* The view goes back to the end before the command runs.                  *)
Rewound == [scroll EXCEPT !["terminal"] = 0]

(* A command prints lines, or clears them; an empty one does neither.  Most*)
(* of the commands of the service log as well.                             *)
Exec ==
    /\ tab = "terminal" /\ focused
    /\ scroll' = Rewound
    /\ \E n \in 0..MaxLines, m \in lines["logs"]..MaxLines :
        /\ n = 0 \/ n >= lines["terminal"]
        /\ lines' = [lines EXCEPT !["terminal"] = n, !["logs"] = m]
    /\ UNCHANGED <<tab, focused, section, snap, series, tick, source, area>>

Log ==
    /\ lines["logs"] < MaxLines
    /\ lines' = [lines EXCEPT !["logs"] = @ + 1]
    /\ UNCHANGED <<tab, focused, section, scroll, snap, series, tick, source, area>>

Resize ==
    /\ area' \in Areas
    /\ UNCHANGED <<tab, focused, section, lines, scroll, snap, series, tick, source>>

-----------------------------------------------------------------------------
(* Ticks                                                                   *)

(* TimeSeries::push(): the ring gives up its oldest sample.                *)
Push(h, i) == [len  |-> IF i > Len(h) THEN 1 ELSE Smaller(h[i].len + 1, HistoryLen),
               last |-> tick']

(* Only the series that are there are pushed to; none is added.            *)
Pushed_NotGrown(h, n) == [i \in 1..Len(h) |-> IF i <= n THEN Push(h, i) ELSE h[i]]

(* ingest_snapshot(): a series for each item, found by its index; there are*)
(* as many as the largest snapshot since the refresh had.                  *)
Pushed(h, n) == [i \in 1..Larger(Len(h), n) |-> IF i <= n THEN Push(h, i) ELSE h[i]]

(* No snapshot: the one before stays on the screen.                        *)
Tick ==
    /\ tick < MaxTicks /\ tick' = tick + 1
    /\ IF source = None
       THEN UNCHANGED <<snap, series>>
       ELSE /\ snap' = [of |-> source, at |-> tick']
            /\ series' = [s \in Sections |-> Pushed(series[s], source[s])]
    /\ UNCHANGED <<tab, focused, section, lines, scroll, source, area>>

(* A daemon goes, or another one comes: the TUI notices nothing.           *)
SourceChanges ==
    /\ source' \in {None} \cup Shapes
    /\ UNCHANGED <<tab, focused, section, lines, scroll, snap, series, tick, area>>

Cleared == [s \in Sections |-> <<>>]

(* refresh_verify(): a new monitor, or the daemon that it finds, and logs. *)
Refresh ==
    /\ snap' = None /\ series' = Cleared
    /\ source' \in {None} \cup Shapes
    /\ \E m \in lines["logs"]..MaxLines : lines' = [lines EXCEPT !["logs"] = m]
    /\ UNCHANGED <<tab, focused, section, scroll, tick, area>>

Next ==
    \/ ScrollWheel \/ PageKey \/ UpKey \/ DownKey \/ HomeKey \/ EndKey \/ SectionKey
    \/ SwitchTab \/ Focus \/ Exec \/ Log \/ Resize \/ Tick \/ SourceChanges \/ Refresh

Spec == Init /\ [][Next]_vars

-----------------------------------------------------------------------------
(* Whatever the counter is, however small the area and however the list has*)
(* changed since the counter was set, the window lies in the list, so that *)
(* no slice or index panics (logs.rs:44, terminal.rs:26, monitor.rs:139,   *)
(* 293, 378), and it leaves no room empty that an item could fill.         *)
WindowFits ==
    \A l \in Lists : /\ 0 <= From(l) /\ From(l) <= To(l) /\ To(l) <= Total(l)
                     /\ To(l) - From(l) = Smaller(Visible(l), Total(l))

(* "clear" and new commands never leave a counter that is beyond the text, *)
(* so at most a screenful of presses of Down goes by without effect after  *)
(* scrolling up (main.rs:137, 250).                                        *)
ScrollInText == \A l \in Texts : scroll[l] <= lines[l]

(* Each item of the snapshot on the screen has its graph, whose last sample*)
(* is this snapshot's, though cores and interfaces have come and gone since*)
(* the graphs were begun (monitor.rs:142, app.rs:549).                     *)
ShownHasSeries ==
    snap # None =>
      \A s \in Sections : \A i \in 1..snap.of[s] :
        i <= Len(series[s]) /\ series[s][i].last = snap.at

(* No graph shows a sample from before the refresh, which set it apart from*)
(* the snapshots of another source: without a snapshot there is no graph.  *)
NoOldSeries == snap = None => \A s \in Sections : series[s] = <<>>

(* "Home: jump to oldest entry, End: snap to newest" (logs.rs:6): they do, *)
(* at any size of the area.                                                *)
HomeAndEnd ==
    [][\A l \in Texts : tab = l =>
         /\ HomeKey => From(l)' = 0
         /\ EndKey  => To(l)' = Total(l)']_vars

(* "Up: 1 line" (logs.rs:5): a line that is hidden above comes into view.  *)
UpReveals ==
    [][\A l \in Texts : tab = l /\ UpKey /\ From(l) > 0 => From(l)' = From(l) - 1]_vars

=============================================================================
