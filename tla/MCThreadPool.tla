---------------------------- MODULE MCThreadPool ----------------------------
(***************************************************************************)
(* Instances of ThreadPool for TLC.  Workers are interchangeable, so the   *)
(* safety runs use them as a symmetry set; the runs with liveness          *)
(* properties do not.                                                      *)
(***************************************************************************)
EXTENDS ThreadPool, TLC

WorkerSymmetry == Permutations(Workers)
==============================================================================
