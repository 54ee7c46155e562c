---------------------------- MODULE DisplayProofs ----------------------------
(***************************************************************************)
(* Proofs about Display, for lists, areas, histories and steps of any      *)
(* size: the state is well typed (Typed), windows lie in their lists       *)
(* (Windows), counters of texts stay inside them (Counters), the graphs are*)
(* those of the snapshot on the screen (Graphs), and Home, End and Up go   *)
(* where they should (Ends, Reveals).                                      *)
(***************************************************************************)
EXTENDS Display, TLAPS

Sample == [len : 1..HistoryLen, last : Nat]

(* Subtraction that stops at zero, and the smaller and the larger of two.  *)
LEMMA Arithmetic ==
    \A m, n \in Nat : /\ Minus(m, n) \in Nat /\ Minus(m, n) <= m
                      /\ Smaller(m, n) \in Nat /\ Smaller(m, n) <= m /\ Smaller(m, n) <= n
                      /\ Larger(m, n) \in Nat /\ m <= Larger(m, n) /\ n <= Larger(m, n)
  BY DEF Minus, Smaller, Larger

LEMMA SnapTyped ==
    ASSUME TypeOK, snap # None
    PROVE  snap.of \in Shapes /\ snap.at \in Nat /\ snap.of \in [Sections -> Nat]
  BY DisplayAssumption DEF TypeOK

LEMMA TotalTyped ==
    ASSUME TypeOK, NEW l \in Lists PROVE Total(l) \in Nat
<1>1. CASE l \in Texts
  BY <1>1 DEF TypeOK, Total
<1>2. CASE l \notin Texts /\ snap = None
  BY <1>2 DEF Total
<1>3. CASE l \notin Texts /\ snap # None
  <2>1. l \in Sections
    BY <1>3 DEF Lists
  <2> QED
    BY <1>3, <2>1, SnapTyped DEF Total
<1> QED
  BY <1>1, <1>2, <1>3

LEMMA VisibleTyped ==
    ASSUME TypeOK, NEW l \in Lists PROVE Visible(l) \in Nat
<1>1. Inner(area.h) \in Nat /\ Inner(area.w) \in Nat
  BY DisplayAssumption, Arithmetic DEF TypeOK, Inner
<1>2. \A n \in Nat : n \div 2 \in Nat /\ n \div 22 \in Nat /\ n \div 24 \in Nat
  OBVIOUS
<1>3. \A m, n \in Nat : m * n \in Nat
  OBVIOUS
<1>4. CASE l \in Texts
  BY <1>1, <1>4 DEF Visible, Texts
<1>5. CASE l = "cpu"
  <2>1. Larger(Inner(area.h) \div 2, 1) \in Nat /\ Larger(Inner(area.w) \div 22, 1) \in Nat
    BY <1>1, <1>2, Arithmetic
  <2>2. Visible(l) = Larger(Inner(area.h) \div 2, 1) * Larger(Inner(area.w) \div 22, 1)
    BY <1>5 DEF Visible, Texts
  <2> HIDE DEF Larger
  <2> QED
    BY <2>1, <2>2, <1>3
<1>6. CASE l = "net"
  <2>1. Larger(Inner(area.w) \div 24, 1) \in Nat
    BY <1>1, <1>2, Arithmetic
  <2> QED
    BY <1>6, <2>1, TotalTyped, Arithmetic DEF Visible, Texts
<1>7. CASE l = "disk"
  <2>1. Larger(Inner(area.h), 1) \in Nat
    BY <1>1, Arithmetic
  <2> QED
    BY <1>7, <2>1 DEF Visible, Texts
<1> QED
  BY <1>4, <1>5, <1>6, <1>7 DEF Lists, Sections

(* A window that begins early enough.                                      *)
LEMMA WindowOf ==
    \A total, room, from \in Nat :
      from <= Minus(total, room) =>
        /\ from <= Smaller(from + room, total)
        /\ Smaller(from + room, total) <= total
        /\ Smaller(from + room, total) - from = Smaller(room, total)
  BY DEF Minus, Smaller

-----------------------------------------------------------------------------
LEMMA InitTyped == Init => TypeOK
<1> SUFFICES ASSUME Init PROVE TypeOK
  OBVIOUS
<1>1. lines \in [Texts -> Nat]
  BY DisplayAssumption DEF Init
<1>2. series \in [Sections -> Seq(Sample)]
  BY DEF Init, Sample
<1> QED
  BY <1>1, <1>2 DEF Init, TypeOK, Sections, Sample

(* A step of the counters.                                                 *)
LEMMA MoveTyped ==
    ASSUME TypeOK, NEW n \in Nat, tab # "other", Move(n)
    PROVE  /\ scroll' \in [Lists -> Nat]
           /\ \A l \in Texts : scroll'[l] <= scroll[l] \/ scroll'[l] <= lines[l]
<1>1. Current \in Lists
  BY DEF TypeOK, Current, Lists, Texts
<1>2. CASE Up(Current, n)
  <2>1. Smaller(scroll[Current] + n, Total(Current)) \in Nat
        /\ Smaller(scroll[Current] + n, Total(Current)) <= Total(Current)
    <3>1. Total(Current) \in Nat
      BY <1>1, TotalTyped
    <3>2. scroll[Current] \in Nat
      BY <1>1 DEF TypeOK
    <3>3. scroll[Current] + n \in Nat
      BY <3>2
    <3> QED
      BY <3>1, <3>3, Arithmetic
  <2>2. Current \in Texts => Total(Current) = lines[Current]
    BY DEF Total
  <2> QED
    BY <1>1, <1>2, <2>1, <2>2 DEF TypeOK, Up, Lists
<1>3. CASE Down(Current, n)
  <2>1. Minus(scroll[Current], n) \in Nat /\ Minus(scroll[Current], n) <= scroll[Current]
    BY <1>1, Arithmetic DEF TypeOK
  <2> QED
    BY <1>1, <1>3, <2>1 DEF TypeOK, Down, Lists
<1> QED
  BY <1>2, <1>3 DEF Move

LEMMA PushedTyped ==
    ASSUME NEW h \in Seq(Sample), NEW n \in Nat, tick' \in Nat
    PROVE  Pushed(h, n) \in Seq(Sample)
<1>0. Len(h) \in Nat /\ \A i \in 1..Len(h) : h[i] \in Sample
  OBVIOUS
<1>1. Larger(Len(h), n) \in Nat
  BY <1>0, Arithmetic
<1>2. ASSUME NEW i \in 1..Larger(Len(h), n) PROVE (IF i <= n THEN Push(h, i) ELSE h[i]) \in Sample
  <2>1. CASE i <= Len(h)
    <3>1. h[i] \in Sample
      BY <2>1, <1>0, <1>1, <1>2
    <3>0. h[i].len \in 1..HistoryLen
      BY <3>1 DEF Sample
    <3>2. Smaller(h[i].len + 1, HistoryLen) \in 1..HistoryLen
      BY <3>0, DisplayAssumption DEF Smaller
    <3> QED
      BY <2>1, <3>1, <3>2 DEF Push, Sample
  <2>2. CASE i > Len(h)
    <3>1. i <= n
      BY <2>2, <1>0, <1>2 DEF Larger
    <3>2. 1 \in 1..HistoryLen
      BY DisplayAssumption
    <3> QED
      BY <2>2, <3>1, <3>2 DEF Push, Sample
  <2> QED
    BY <2>1, <2>2, <1>0, <1>1
<1> QED
  BY <1>1, <1>2 DEF Pushed

-----------------------------------------------------------------------------
LEMMA NextTyped == TypeOK /\ [Next]_vars => TypeOK'
<1> SUFFICES ASSUME TypeOK, [Next]_vars PROVE TypeOK'
  OBVIOUS
<1> USE DisplayAssumption
<1>1. CASE ScrollWheel
  BY <1>1, MoveTyped DEF ScrollWheel, rest, TypeOK
<1>2. CASE PageKey
  BY <1>2, MoveTyped DEF PageKey, rest, TypeOK
<1>3. CASE UpKey
  <2>1. Move(1) /\ tab # "other"
    BY <1>3 DEF UpKey, Free, Move
  <2> QED
    BY <1>3, <2>1, MoveTyped DEF UpKey, rest, TypeOK
<1>4. CASE DownKey
  <2>1. Move(1) /\ tab # "other"
    BY <1>4 DEF DownKey, Free, Move
  <2> QED
    BY <1>4, <2>1, MoveTyped DEF DownKey, rest, TypeOK
<1>5. CASE HomeKey
  <2>1. \A l \in Lists : Home(l) \in Nat
    BY DEF TypeOK, Home
  <2>2. scroll' \in [Lists -> Nat]
    BY <1>5, <2>1 DEF HomeKey, TypeOK
  <2> QED
    BY <1>5, <2>2 DEF HomeKey, rest, TypeOK
<1>6. CASE EndKey
  <2>1. scroll' \in [Lists -> Nat]
    BY <1>6 DEF EndKey, TypeOK
  <2> QED
    BY <1>6, <2>1 DEF EndKey, rest, TypeOK
<1>7. CASE SectionKey
  BY <1>7 DEF SectionKey, TypeOK
<1>8. CASE SwitchTab
  BY <1>8 DEF SwitchTab, TypeOK
<1>9. CASE Focus
  BY <1>9 DEF Focus, TypeOK
<1>10. CASE Exec
  <2>1. lines' \in [Texts -> Nat]
    BY <1>10 DEF Exec, TypeOK, Texts
  <2>2. scroll' \in [Lists -> Nat]
    BY <1>10 DEF Exec, Rewound, TypeOK
  <2> QED
    BY <1>10, <2>1, <2>2 DEF Exec, TypeOK
<1>11. CASE Log
  <2>1. lines' \in [Texts -> Nat]
    BY <1>11 DEF Log, TypeOK, Texts
  <2> QED
    BY <1>11, <2>1 DEF Log, TypeOK
<1>12. CASE Resize
  BY <1>12 DEF Resize, TypeOK
<1>13. CASE Tick
  <2>1. tick' \in Nat
    BY <1>13 DEF Tick, TypeOK
  <2>2. CASE source = None
    BY <1>13, <2>1, <2>2 DEF Tick, TypeOK
  <2>3. CASE source # None
    <3>1. source \in Shapes /\ source \in [Sections -> Nat]
      BY <2>3 DEF TypeOK
    <3>2. snap' = [of |-> source, at |-> tick']
          /\ series' = [s \in Sections |-> Pushed(series[s], source[s])]
      BY <1>13, <2>3 DEF Tick
    <3>3. \A s \in Sections : Pushed(series[s], source[s]) \in Seq(Sample)
      BY <2>1, <3>1, PushedTyped DEF TypeOK, Sample
    <3>4. series' \in [Sections -> Seq(Sample)]
      BY <3>2, <3>3
    <3>5. snap' \in [of : Shapes, at : Nat]
      BY <2>1, <3>1, <3>2
    <3> QED
      BY <1>13, <2>1, <3>4, <3>5 DEF Tick, TypeOK, Sample
  <2> QED
    BY <2>2, <2>3
<1>14. CASE SourceChanges
  BY <1>14 DEF SourceChanges, TypeOK
<1>15. CASE Refresh
  <2>1. lines' \in [Texts -> Nat]
    BY <1>15 DEF Refresh, TypeOK, Texts
  <2>2. series' \in [Sections -> Seq(Sample)]
    BY <1>15 DEF Refresh, Cleared, Sample
  <2> QED
    BY <1>15, <2>1, <2>2 DEF Refresh, TypeOK, Sample
<1>16. CASE UNCHANGED vars
  BY <1>16 DEF vars, TypeOK
<1> QED
  BY <1>1, <1>2, <1>3, <1>4, <1>5, <1>6, <1>7, <1>8, <1>9, <1>10, <1>11, <1>12, <1>13, <1>14,
     <1>15, <1>16 DEF Next

(* Every reachable state of Display is well typed: no counter underflows   *)
(* and no ring outgrows its 300 samples (main.rs:135-145, app.rs:64-95).   *)
THEOREM Typed == Spec => []TypeOK
  BY InitTyped, NextTyped, PTL DEF Spec

-----------------------------------------------------------------------------
(* No slice or index panics and no room is wasted, whatever the counters,  *)
(* the lists and the area are (logs.rs:44, terminal.rs:26, monitor.rs:139).*)
THEOREM Windows == Spec => []WindowFits
<1>1. ASSUME TypeOK, NEW l \in Lists
      PROVE  /\ 0 <= From(l) /\ From(l) <= To(l) /\ To(l) <= Total(l)
             /\ To(l) - From(l) = Smaller(Visible(l), Total(l))
  <2>1. Total(l) \in Nat /\ Visible(l) \in Nat /\ scroll[l] \in Nat
    BY <1>1, TotalTyped, VisibleTyped DEF TypeOK
  <2>2. Minus(Total(l), Visible(l)) \in Nat
    BY <2>1, Arithmetic
  <2>3. Clamped(l) \in Nat /\ Clamped(l) <= Minus(Total(l), Visible(l))
    BY <2>1, <2>2, Arithmetic DEF Clamped
  <2>4. From(l) \in Nat /\ From(l) <= Minus(Total(l), Visible(l))
    <3>1. CASE l \in Texts
      <4>1. From(l) = Minus(Minus(Total(l), Visible(l)), Clamped(l))
        BY <3>1 DEF From
      <4> QED
        BY <2>2, <2>3, <4>1, Arithmetic
    <3>2. CASE l \notin Texts
      BY <2>3, <3>2 DEF From
    <3> QED
      BY <3>1, <3>2
  <2> QED
    BY <2>1, <2>4, WindowOf DEF To
<1>2. TypeOK => WindowFits
  BY <1>1 DEF WindowFits
<1> QED
  BY <1>2, Typed, PTL

-----------------------------------------------------------------------------
LEMMA CountersStep == TypeOK /\ ScrollInText /\ [Next]_vars => ScrollInText'
<1> SUFFICES ASSUME TypeOK, ScrollInText, [Next]_vars, NEW l \in Texts
             PROVE  scroll'[l] <= lines'[l]
  BY DEF ScrollInText
<1>0. scroll[l] \in Nat /\ lines[l] \in Nat /\ scroll[l] <= lines[l] /\ l \in Lists
  BY DEF TypeOK, ScrollInText, Lists
<1>1. CASE ScrollWheel \/ PageKey \/ UpKey \/ DownKey
  <2>1. PICK n \in Nat : Move(n) /\ tab # "other"
    BY <1>1, DisplayAssumption DEF ScrollWheel, PageKey, UpKey, DownKey, Free, Move
  <2>2. lines' = lines
    BY <1>1 DEF ScrollWheel, PageKey, UpKey, DownKey, rest
  <2>3. scroll' \in [Lists -> Nat] /\ (scroll'[l] <= scroll[l] \/ scroll'[l] <= lines[l])
    BY <2>1, MoveTyped
  <2>4. scroll'[l] \in Nat
    BY <1>0, <2>3
  <2> QED
    BY <1>0, <2>2, <2>3, <2>4
<1>2. CASE HomeKey
  <2>1. scroll'[l] \in {scroll[l], lines[l]} /\ lines' = lines
    BY <1>0, <1>2 DEF HomeKey, rest, Home, TypeOK, Texts, Sections
  <2> QED
    BY <1>0, <2>1
<1>3. CASE EndKey
  <2>1. scroll'[l] \in {scroll[l], 0} /\ lines' = lines
    BY <1>0, <1>3 DEF EndKey, rest, TypeOK, Texts, Sections
  <2> QED
    BY <1>0, <2>1
<1>4. CASE Exec
  <2>1. CASE l = "terminal"
    <3>1. scroll'[l] = 0
      BY <1>0, <1>4, <2>1 DEF Exec, Rewound, TypeOK
    <3>2. lines'[l] \in Nat
      BY <1>4, <2>1 DEF Exec, TypeOK, Texts
    <3> QED
      BY <3>1, <3>2
  <2>2. CASE l = "logs"
    <3>1. scroll'[l] = scroll[l]
      BY <1>0, <1>4, <2>2 DEF Exec, Rewound, TypeOK
    <3>2. lines'[l] \in Nat /\ lines[l] <= lines'[l]
      BY <1>0, <1>4, <2>2, DisplayAssumption DEF Exec, TypeOK, Texts
    <3> QED
      BY <1>0, <3>1, <3>2
  <2> QED
    BY <2>1, <2>2 DEF Texts
<1>5. CASE Log
  <2>1. scroll' = scroll /\ lines'[l] \in {lines[l], lines[l] + 1}
    BY <1>0, <1>5 DEF Log, TypeOK
  <2> QED
    BY <1>0, <2>1
<1>6. CASE Refresh
  <2>1. scroll' = scroll
    BY <1>6 DEF Refresh
  <2>2. lines'[l] \in Nat /\ lines[l] <= lines'[l]
    BY <1>0, <1>6, DisplayAssumption DEF Refresh, TypeOK, Texts
  <2> QED
    BY <1>0, <2>1, <2>2
<1>7. CASE SectionKey \/ SwitchTab \/ Focus \/ Resize \/ Tick \/ SourceChanges \/ UNCHANGED vars
  <2>1. scroll' = scroll /\ lines' = lines
    BY <1>7 DEF SectionKey, SwitchTab, Focus, Resize, Tick, SourceChanges, vars
  <2> QED
    BY <1>0, <2>1
<1> QED
  BY <1>1, <1>2, <1>3, <1>4, <1>5, <1>6, <1>7 DEF Next

(* No command, and no key, leaves the view scrolled to beyond the text     *)
(* (main.rs:137, 250, app.rs:604).                                         *)
THEOREM Counters == Spec => []ScrollInText
<1>1. Init => ScrollInText
  BY DisplayAssumption DEF Init, ScrollInText, Lists, Texts
<1> QED
  BY <1>1, CountersStep, Typed, PTL DEF Spec

-----------------------------------------------------------------------------
GraphsFit == ShownHasSeries /\ NoOldSeries

LEMMA GraphsStep == TypeOK /\ GraphsFit /\ [Next]_vars => GraphsFit'
<1> SUFFICES ASSUME TypeOK, GraphsFit, [Next]_vars PROVE GraphsFit'
  OBVIOUS
<1>1. CASE Tick /\ source # None
  <2>1. source \in Shapes /\ source \in [Sections -> Nat] /\ tick' \in Nat
    BY <1>1, DisplayAssumption DEF Tick, TypeOK
  <2>2. snap' = [of |-> source, at |-> tick']
        /\ series' = [s \in Sections |-> Pushed(series[s], source[s])]
    BY <1>1 DEF Tick
  <2>3. snap' # None
    BY <2>1, <2>2, DisplayAssumption
  <2>4. ASSUME NEW s \in Sections, NEW i \in 1..source[s]
        PROVE  i <= Len(series'[s]) /\ series'[s][i].last = tick'
    <3>1. Len(series[s]) \in Nat /\ source[s] \in Nat
      BY <2>1 DEF TypeOK
    <3>2. Larger(Len(series[s]), source[s]) \in Nat /\ source[s] <= Larger(Len(series[s]), source[s])
      BY <3>1, Arithmetic
    <3>3. series'[s] = Pushed(series[s], source[s])
      BY <2>2
    <3>4. i \in 1..Larger(Len(series[s]), source[s]) /\ i <= source[s]
      BY <3>1, <3>2
    <3>5. Len(series'[s]) = Larger(Len(series[s]), source[s])
      BY <3>2, <3>3 DEF Pushed
    <3>6. series'[s][i] = Push(series[s], i)
      BY <3>3, <3>4 DEF Pushed
    <3> QED
      BY <3>2, <3>4, <3>5, <3>6 DEF Push
  <2>5. snap'.of = source /\ snap'.at = tick'
    BY <2>2
  <2> QED
    BY <2>3, <2>4, <2>5 DEF GraphsFit, ShownHasSeries, NoOldSeries
<1>2. CASE Refresh
  BY <1>2 DEF Refresh, Cleared, GraphsFit, ShownHasSeries, NoOldSeries
<1>3. CASE UNCHANGED <<snap, series>>
  BY <1>3 DEF GraphsFit, ShownHasSeries, NoOldSeries
<1>4. CASE ~Refresh /\ ~(Tick /\ source # None)
  <2>1. UNCHANGED <<snap, series>>
    BY <1>4 DEF Next, vars, ScrollWheel, PageKey, UpKey, DownKey, HomeKey, EndKey, SectionKey,
          SwitchTab, Focus, Exec, Log, Resize, Tick, SourceChanges, rest
  <2> QED
    BY <1>3, <2>1
<1> QED
  BY <1>1, <1>2, <1>4

LEMMA GraphsAlways == Spec => []GraphsFit
<1>1. Init => GraphsFit
  BY DEF Init, GraphsFit, ShownHasSeries, NoOldSeries
<1> QED
  BY <1>1, GraphsStep, Typed, PTL DEF Spec

(* Every core, interface and disk on the screen has a graph that ends in   *)
(* the sample on the screen, whatever the snapshots' shapes                *)
(* (app.rs:545-585).                                                       *)
THEOREM Graphs == Spec => []ShownHasSeries
<1>1. GraphsFit => ShownHasSeries
  BY DEF GraphsFit
<1> QED
  BY <1>1, GraphsAlways, PTL

(* No graph outlives a refresh (app.rs:296-304).                           *)
THEOREM GraphsEnd == Spec => []NoOldSeries
<1>1. GraphsFit => NoOldSeries
  BY DEF GraphsFit
<1> QED
  BY <1>1, GraphsAlways, PTL

-----------------------------------------------------------------------------
(* The two action properties, for a list l and its counter at a step.      *)
LEMMA HomeAndEndStep ==
    ASSUME TypeOK, [Next]_vars, NEW l \in Texts, tab = l
    PROVE  /\ HomeKey => From(l)' = 0
           /\ EndKey => To(l)' = Total(l)'
<1>0. l \in Lists /\ Total(l) \in Nat /\ Visible(l) \in Nat
  BY TotalTyped, VisibleTyped DEF Lists
<1>1. Total(l) = lines[l] /\ Total(l)' = lines'[l]
  BY DEF Total
<1>2. Visible(l) = Inner(area.h) /\ Visible(l)' = Inner(area'.h)
  BY DEF Visible, Texts
<1>3. From(l)' = Minus(Minus(Total(l)', Visible(l)'), Smaller(scroll'[l], Minus(Total(l)', Visible(l)')))
  BY DEF From, Clamped
<1>4. ASSUME HomeKey PROVE From(l)' = 0
  <2>1. scroll'[l] = lines[l] /\ lines' = lines /\ area' = area
    BY <1>0, <1>4 DEF HomeKey, rest, Home, Texts, TypeOK
  <2>2. Total(l)' = Total(l) /\ Visible(l)' = Visible(l)
    BY <2>1, <1>1, <1>2
  <2>3. \A t, v \in Nat : Minus(Minus(t, v), Smaller(t, Minus(t, v))) = 0
    BY DEF Minus, Smaller
  <2> QED
    BY <1>0, <1>1, <1>3, <2>1, <2>2, <2>3
<1>5. ASSUME EndKey PROVE To(l)' = Total(l)'
  <2>1. scroll'[l] = 0 /\ lines' = lines /\ area' = area
    BY <1>0, <1>5 DEF EndKey, rest, Texts, TypeOK
  <2>2. Total(l)' = Total(l) /\ Visible(l)' = Visible(l)
    BY <2>1, <1>1, <1>2
  <2>3. \A t, v \in Nat : Smaller(Minus(Minus(t, v), Smaller(0, Minus(t, v))) + v, t) = t
    BY DEF Minus, Smaller
  <2>4. To(l)' = Smaller(From(l)' + Visible(l)', Total(l)')
    BY DEF To
  <2> QED
    BY <1>0, <1>3, <2>1, <2>2, <2>3, <2>4
<1> QED
  BY <1>4, <1>5

(* Home shows the oldest line and End the newest, for any list and any area*)
(* (logs.rs:6, main.rs:241-244, 276-279).                                  *)
THEOREM Ends == Spec => HomeAndEnd
<1>1. TypeOK /\ [Next]_vars =>
        [\A l \in Texts : tab = l =>
           /\ HomeKey => From(l)' = 0
           /\ EndKey  => To(l)' = Total(l)']_vars
  BY HomeAndEndStep
<1> QED
  BY <1>1, Typed, PTL DEF Spec, HomeAndEnd

LEMMA UpRevealsStep ==
    ASSUME TypeOK, UpKey, NEW l \in Texts, tab = l, From(l) > 0
    PROVE  From(l)' = From(l) - 1
<1>0. l \in Lists /\ Total(l) \in Nat /\ Visible(l) \in Nat /\ scroll[l] \in Nat
  BY TotalTyped, VisibleTyped DEF Lists, TypeOK
<1>1. lines' = lines /\ area' = area
  BY DEF UpKey, rest
<1>2. Total(l)' = Total(l)
  BY <1>1 DEF Total
<1>3. Visible(l)' = Visible(l)
  BY <1>1 DEF Visible, Texts
<1>4. Current = l
  BY DEF Current, Texts
<1>5. scroll'[l] = Smaller(scroll[l] + 1, Total(l))
  BY <1>0, <1>4 DEF UpKey, Up, TypeOK
<1>6. From(l) = Minus(Minus(Total(l), Visible(l)), Smaller(scroll[l], Minus(Total(l), Visible(l))))
  BY DEF From, Clamped
<1>7. From(l)' = Minus(Minus(Total(l)', Visible(l)'), Smaller(scroll'[l], Minus(Total(l)', Visible(l)')))
  BY DEF From, Clamped
<1>8. \A t, v, s \in Nat :
        Minus(Minus(t, v), Smaller(s, Minus(t, v))) > 0 =>
          Minus(Minus(t, v), Smaller(Smaller(s + 1, t), Minus(t, v)))
            = Minus(Minus(t, v), Smaller(s, Minus(t, v))) - 1
  BY DEF Minus, Smaller
<1> QED
  BY <1>0, <1>2, <1>3, <1>5, <1>6, <1>7, <1>8

(* A press of Up shows the line above the window (logs.rs:5).              *)
THEOREM Reveals == Spec => UpReveals
<1>1. TypeOK =>
        [\A l \in Texts : tab = l /\ UpKey /\ From(l) > 0 => From(l)' = From(l) - 1]_vars
  BY UpRevealsStep
<1> QED
  BY <1>1, Typed, PTL DEF Spec, UpReveals

=============================================================================
