------------------------------- MODULE MCManager ------------------------------
(* Manager with its seconds scaled down to a window of a few seconds, and as   *)
(* many pids as there are programs.  Nothing tells two pids apart.             *)
EXTENDS Manager, TLC

PidSymmetry == Permutations(Pid)
=============================================================================
