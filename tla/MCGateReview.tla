--------------------------- MODULE MCGateReview ---------------------------
(***************************************************************************)
(* Instances of GateReview for TLC.                                        *)
(***************************************************************************)
EXTENDS GateReview, TLC

CONSTANTS c1, s1, a1

\* A client, a reviewer and an approver.  A reviewer may submit as well.
SomeRoles ==
  (c1 :> "client") @@ (s1 :> "security_reviewer") @@ (a1 :> "security_approver")

\* Ids and processes are interchangeable.
Symmetry == Permutations(Ids) \cup Permutations(RowIds) \cup Permutations(Workers)
=============================================================================
