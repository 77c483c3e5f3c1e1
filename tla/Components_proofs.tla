-------------------------- MODULE Components_proofs --------------------------
(***************************************************************************)
(* Proofs about the components side by side: what each of them promises by *)
(* itself it promises in any behaviour of MCComponents, for every value of *)
(* the constants.                                                          *)
(***************************************************************************)
EXTENDS MCComponents, Callers_proofs, Judgements_proofs, Documents_proofs

\* The components start, and each takes its own steps or none.
LEMMA EachStarts ==
  MCInit => /\ Init /\ LimiterInit /\ RunsInit /\ GateInit /\ CriticInit /\ RulesInit
            /\ PipelineInit /\ KnowledgeInit /\ RetrievalInit /\ LlmInit /\ SkillsInit
            /\ IntakeInit
BY DEF MCInit

LEMMA EachSteps ==
  [MCNext]_everything =>
    /\ [Next]_vars /\ [LimiterNext]_limiter /\ [RunsNext]_subAgents /\ [GateNext]_gate
    /\ [CriticNext]_critic /\ [RulesNext]_log /\ [PipelineNext]_pipeline
    /\ [KnowledgeNext]_knowledge /\ [RetrievalNext]_retrieved /\ [LlmNext]_llm
    /\ [SkillsNext]_personas /\ [IntakeNext]_intake
BY DEF MCNext, everything

\* A behaviour of the components is one of each of them, so that what holds of
\* each by itself holds of all of them.
LEMMA Composition ==
  MCSpec =>
    /\ Spec /\ LimiterSpec /\ RunsSpec /\ GateSpec /\ CriticSpec /\ RulesSpec /\ PipelineSpec
    /\ KnowledgeSpec /\ RetrievalSpec /\ LlmSpec /\ SkillsSpec /\ IntakeSpec
<1> QED
  BY EachStarts, EachSteps, PTL
  DEF MCSpec, everything, Spec, LimiterSpec, RunsSpec, GateSpec, CriticSpec, RulesSpec,
      PipelineSpec, KnowledgeSpec, RetrievalSpec, LlmSpec, SkillsSpec, IntakeSpec

\* Of every component at once: rows, buckets, runs, decisions, verdicts, files and
\* calls keep their types, whatever the packs, documents, callers and replies are.
THEOREM TypesHold == MCSpec => []TypesOK
<1>1. /\ GateInv => GateOK
      /\ PipelineInv => PipelineOK
      /\ KnowledgeInv => KnowledgeOK
      /\ RetrievalInv => RetrievalOK
      /\ LlmInv => LlmOK
      /\ IntakeInv => IntakeOK
  BY DEF GateInv, PipelineInv, KnowledgeInv, RetrievalInv, LlmInv, IntakeInv
<1>2. /\ TypeOK /\ BucketsOK /\ RunsOK /\ GateOK /\ CriticOK /\ RulesOK /\ PipelineOK
      /\ KnowledgeOK /\ RetrievalOK /\ LlmOK /\ SkillsOK /\ IntakeOK
      => TypesOK
  BY DEF TypesOK
<1> QED
  BY <1>1, <1>2, Composition, ControlTypes, LimiterTypes, RunTypes, GateInvariance, CriticTypes,
     RuleTypes, PipelineInvariance, KnowledgeInvariance, RetrievalInvariance, LlmInvariance,
     SkillTypes, IntakeInvariance, PTL
=============================================================================
