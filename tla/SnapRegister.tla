----------------------------- MODULE SnapRegister -----------------------------
(***************************************************************************)
(* What the snapshot file promises (tui/src/service.rs, header and         *)
(* read_latest_snapshot): an atomic register.  The daemon publishes        *)
(* snapshots, later ones with higher numbers; a removal empties the        *)
(* register; a read returns one whole published snapshot, the one that was *)
(* current at some moment of the read, or nothing.                         *)
(***************************************************************************)
EXTENDS Naturals

CONSTANTS Readers, None

VARIABLES
    top,   \* the number of the last snapshot published
    reg,   \* the current snapshot
    held,  \* the snapshot each read under way is going to return
    got    \* the last snapshot each reader was given

vars == <<top, reg, held, got>>

Init ==
    /\ top = 0 /\ reg = None
    /\ held = [r \in Readers |-> None]
    /\ got = [r \in Readers |-> None]

Publish ==
    /\ top' \in Nat /\ top' > top
    /\ reg' = top'
    /\ UNCHANGED <<held, got>>

Remove ==
    /\ reg' = None
    /\ UNCHANGED <<top, held, got>>

Begin(r) ==
    /\ reg # None /\ held[r] = None
    /\ held' = [held EXCEPT ![r] = reg]
    /\ UNCHANGED <<top, reg, got>>

End(r) ==
    /\ held[r] # None
    /\ got' = [got EXCEPT ![r] = held[r]]
    /\ held' = [held EXCEPT ![r] = None]
    /\ UNCHANGED <<top, reg>>

Next == Publish \/ Remove \/ \E r \in Readers : Begin(r) \/ End(r)

Spec == Init /\ [][Next]_vars
=============================================================================
