------------------------------ MODULE MCGitOps ------------------------------
(***************************************************************************)
(* Instances of GitOps for TLC.                                            *)
(***************************************************************************)
EXTENDS GitOps, TLC

CONSTANTS k1, k2

\* What a customer may commit: a compatible contact, or a deleted contact file.
EditedTrees ==
  {[source |-> 1, contact |-> k2, tidy |-> TRUE],
   [source |-> 1, contact |-> Absent, tidy |-> TRUE]}

Symmetry == Permutations(Workers)
=============================================================================
