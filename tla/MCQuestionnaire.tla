--------------------------- MODULE MCQuestionnaire ---------------------------
(***************************************************************************)
(* A project with two of the controls that phase1_intake.md lists for the  *)
(* question whether AI is involved.                                        *)
(***************************************************************************)
EXTENDS Controls

mcControls == {"AI-SEC-01", "AI-SEC-02"}
mcOverlay == [f \in {"iso-42001"} |-> {}]
mcRegion == [f \in {"iso-42001"} |-> NoRegion]
mcListed == [q \in Questions |-> IF q = "involves_ai_ml" THEN <<"AI-SEC-01", "AI-SEC-02">> ELSE <<>>]
mcProfiles == {[ai |-> NoAnswer, risk |-> NoAnswer]}
=============================================================================
