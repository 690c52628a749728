------------------------------- MODULE MCConf -------------------------------
(***************************************************************************)
(* Instances of the configuration for TLC.                                 *)
(***************************************************************************)
EXTENDS Conf, TLC

(* Main is not interchangeable with the other threads.                     *)
Symmetry == Permutations(Records) \cup Permutations(Threads \ {Main})
=============================================================================
