------------------------------- MODULE MCService -------------------------------
(* Small instances of Service for TLC.  Process incarnations are           *)
(* interchangeable.                                                        *)
EXTENDS Service, TLC

PidSymmetry == Permutations(Pids)

(* What the symmetry would do, for a run that checks liveness: incarnations *)
(* that are numbered are born in the order of their numbers.  Every step    *)
(* that is enabled is so with the next number as well.                      *)
InOrder ==
    \A p, q \in Pids :
        q < p /\ proc'[p].st # "unborn" => proc'[q].st # "unborn"
=============================================================================
