-------------------------------- MODULE MCSetup --------------------------------
(* Small instances of Setup for TLC: two core lists, of which B's text may *)
(* occur in A's, one flag, one pair of namespaces.                         *)
EXTENDS Setup

CONSTANTS A, B, pair

Entry(cores, flags, on) ==
    [cores |-> cores, flags |-> flags, tune |-> on, swapoff |-> on, nosmt |-> on,
     ns |-> IF on THEN pair ELSE None]

TuneOnly(cores) == [Entry(cores, Flags, FALSE) EXCEPT !.tune = TRUE]

MCDefault  == Entry(A, Flags, TRUE)
KillDefault == [MCDefault EXCEPT !.nosmt = FALSE]
FaultDefault == [TuneOnly(A) EXCEPT !.nosmt = TRUE]
LeanForms   == {[TuneOnly(B) EXCEPT !.flags = {}], Entry(None, {}, FALSE)}

Apart      == {<<A, A>>, <<B, B>>}
Nested     == Apart \cup {<<B, A>>}

NoParams   == [k \in Params |-> None]
OwnRange   == [k \in Params |-> IF k = "isolcpus" THEN B ELSE None]
=============================================================================
