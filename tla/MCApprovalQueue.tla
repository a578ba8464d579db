--------------------------- MODULE MCApprovalQueue ---------------------------
(* Instances of ApprovalQueue for TLC.                                     *)
EXTENDS ApprovalQueueRefinement, TLC

CONSTANTS r1, r2, d1, d2, e1, e2

\* Requests, deciders and edits are only compared with each other.
Symmetry ==
    Permutations({r1, r2}) \cup Permutations({d1, d2}) \cup Permutations({e1, e2})
=============================================================================
