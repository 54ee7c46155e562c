------------------------------- MODULE MCSession -------------------------------
(* Small instances of Session for TLC.  Process incarnations are           *)
(* interchangeable.                                                        *)
EXTENDS Session, TLC

PidSymmetry == Permutations(Pids)
=============================================================================
