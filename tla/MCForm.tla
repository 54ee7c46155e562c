--------------------------------- MODULE MCForm ---------------------------------
(***************************************************************************)
(* Tui and Form with small inputs.                                         *)
(***************************************************************************)
EXTENDS Form, FiniteSets

(* As many texts as a history of two can tell apart.                       *)
MCTexts == {"", "quit", "verify", "ls"}
MCCores == {<<7>>}
MCWords == {"", "w"}
MCWide  == {"w"}

(* Bounds: one field at a time differs from its default; once a config is  *)
(* saved the form is changed once more; the command line, the history and  *)
(* the other tabs, which share nothing with the form but the keys, are not *)
(* used in a behaviour that changes the form; and where the command line   *)
(* is used, the selection is on the first item or one that opens a modal.  *)
Changed       == {f \in Fields : config[f] # Default[f]}
FormUntouched ==
    /\ Changed = {} /\ typed = None /\ active = None /\ applied = None
    /\ buffer = None \/ buffer = Shown(Field, Default[Field])
LineUntouched == line.input = "" /\ line.draft = "" /\ history = <<>>
TuiUntouched  ==
    /\ tab = "Setup" /\ ~focused /\ LineUntouched
    /\ ~picker.on /\ ~root /\ saved = 0 /\ ~stale
OneOfThem     ==
    \/ FormUntouched /\ (LineUntouched \/ item \in {0, DoApply, DoTeardown})
    \/ /\ TuiUntouched /\ Cardinality(Changed) <= 1
       /\ active = None \/ active.of = config

================================================================================
