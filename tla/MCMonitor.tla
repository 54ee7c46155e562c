----------------------------- MODULE MCMonitor -----------------------------
(***************************************************************************)
(* Monitor on a machine with three cores, two interfaces, one of the veths *)
(* and one disk.                                                           *)
(***************************************************************************)
EXTENDS Monitor

MCCpus == {0, 1, 2}

(* Hyperthreads are numbered after the cores.                              *)
SiblingsLast == {2}

=============================================================================
