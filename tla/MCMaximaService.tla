-------------------------- MODULE MCMaximaService --------------------------
(***************************************************************************)
(* MaximaService for TLC.  The worker threads are alike, so are the        *)
(* instances, and so are the jobs that are not cancelled: a run without    *)
(* liveness properties takes one state for all that differ by their names. *)
(***************************************************************************)
EXTENDS MaximaService, TLC

Symmetry ==
  Permutations(Workers) \cup Permutations(Instances)
    \cup Permutations(Jobs \ Cancelled)
=============================================================================
