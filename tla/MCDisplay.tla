----------------------------- MODULE MCDisplay -----------------------------
(***************************************************************************)
(* Display with two kinds of snapshots, one with more cores and the other  *)
(* with more interfaces, and areas from none to more than the lists need.  *)
(***************************************************************************)
EXTENDS Display

MCShapes == {[cpu |-> 2, net |-> 0, disk |-> 1], [cpu |-> 1, net |-> 2, disk |-> 0]}

(* No room at all; two lines of text, one core and one interface.          *)
MCAreas == {[h |-> 0, w |-> 0], [h |-> 4, w |-> 26]}

(* A bound: the two texts and the Monitor tab, which share nothing but the *)
(* keys and the area, are not both used in a behaviour.                    *)
TextsUntouched   == ~focused /\ tab \notin Texts /\ \A l \in Texts : lines[l] = 0 /\ scroll[l] = 0
MonitorUntouched == tick = 0 /\ section = "cpu" /\ source = None /\ \A s \in Sections : scroll[s] = 0
OneOfThem == TextsUntouched \/ MonitorUntouched

=============================================================================
