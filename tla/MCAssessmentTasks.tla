------------------------- MODULE MCAssessmentTasks -------------------------
(***************************************************************************)
(* Instances of AssessmentTasks for TLC.                                   *)
(***************************************************************************)
EXTENDS AssessmentTasks, TLC

\* Tasks differ in nothing but their name, and so do users, comments, keys
Symmetry == Permutations(Tasks) \cup Permutations(Users) \cup Permutations(Comments)
=============================================================================
