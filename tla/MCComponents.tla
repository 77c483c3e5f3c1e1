---------------------------- MODULE MCComponents ----------------------------
(***************************************************************************)
(* Small instances of the components that share no state with each other   *)
(* nor with the tasks, the audit log and the gates.  "component" says      *)
(* which of them a behaviour is about: it takes that one's steps and       *)
(* leaves the others in one initial state each.                            *)
(***************************************************************************)
EXTENDS Controls, RateLimiter, SubAgentRuns, EvidenceGate, EvidenceCritic, RuleEngine,
        AssessmentPipeline, KnowledgeBase, Retrieval, LlmConfig, Skills, Intake

VARIABLE component

-----------------------------------------------------------------------------
\* Controls: one control of the base pack, one that needs AI at high risk in the
\* EU, and one that only a European framework has.
mcControlIds == {"GEN-ENC-01", "AI-GOV-03", "CRA-VUL-01"}
mcBase == {"GEN-ENC-01", "AI-GOV-03"}
mcAi == {"AI-GOV-03"}
mcFrameworks == {"eu-cra", "iso-42001"}
mcOverlay == [f \in mcFrameworks |->
  IF f = "eu-cra" THEN {"GEN-ENC-01", "CRA-VUL-01"} ELSE {"AI-GOV-03"}]
mcRegion == [f \in mcFrameworks |-> IF f = "eu-cra" THEN "eu" ELSE "any"]
mcListed == [q \in Questions |->
  CASE q = "involves_ai_ml" -> <<"AI-SEC-01", "AI-SEC-02">>
    [] q = "ai_eu_risk_class" -> <<"AI-GOV-03">>
    [] q = "geographic_scope" -> <<"CRA-VUL-01">>]
mcRequired == {"involves_ai_ml", "geographic_scope"}
mcProfiles == {[ai |-> "none", risk |-> "none"], [ai |-> "yes", risk |-> "high"]}

\* Rate limiter: two addresses behind one token.
mcCallers == {[token |-> "token", host |-> "h1"], [token |-> "token", host |-> "h2"]}

\* Sub-agent runs.
mcRoleOf == [u \in {"client", "reviewer", "approver"} |->
  CASE u = "client" -> "client" [] u = "reviewer" -> "security_reviewer" [] OTHER -> "security_approver"]

-----------------------------------------------------------------------------
\* Evidence gate: provenance of the release, with and without a signature, or of
\* something else; a finding that may be waived, one in time; two policies.
Envelope(subject, signed) ==
  [decodes |-> TRUE, slsa |-> TRUE, subjects |-> {subject}, builder |-> "ci", type |-> "t",
   sources |-> {"repo"}, signed |-> signed]
Policy(nonWaivable, human) ==
  [kinds |-> {"sarif", "slsa-provenance"}, signedKinds |-> {"slsa-provenance"},
   blocking |-> {"critical", "high"}, nonWaivable |-> nonWaivable, humanApproval |-> human]

mcSupported == {"sarif", "slsa-provenance"}
mcProvenances == {Envelope("release", TRUE), Envelope("release", FALSE), Envelope("other", TRUE)}
mcDocuments == { [kind |-> "sarif", valid |-> valid, signed |-> FALSE] : valid \in BOOLEAN }
mcFindings == {[id |-> "F1", control |-> "C1", severity |-> "high", status |-> "open"],
               [id |-> "F2", control |-> "C2", severity |-> "critical", status |-> "open"]}
mcWaivers == {[id |-> 1, findings |-> {"F1"}, controls |-> {}, expires |-> 1],
              [id |-> 2, findings |-> {}, controls |-> {"C1", "C2"}, expires |-> 2]}
mcPolicies == {Policy({}, FALSE), Policy({"C2"}, TRUE)}
mcExpectations == { [verifier |-> verifier, builders |-> {"ci"}, types |-> {}, source |-> "repo",
                     signature |-> TRUE] : verifier \in BOOLEAN }

\* Evidence critic: documents of one to four lines, some empty or long.
mcLibraries == { <<<<1, 1, 1>>, <<0>>>>, <<<<1, 0, 2>>, <<4>>>>, <<<<0, 0>>, <<>>>>,
                 <<<<2, 1, 0, 1>>, <<1>>>> }
mcThreats == <<"T1", "T2">>
mcInvented == {[doc |-> 2, first |-> 2, last |-> 4]}

\* Rule engine: every rating rule, and hosting that contradicts the solution.
mcIntakes == [class : {"1", "2", "3", "9"}, access : {"1", "2", "3"}, solution : {"1", "2"},
              hosting : {"1", "40"}, release : {"1", "2"}]
mcProjectRows == [class : {"none", "critical", "confidential", "low"}, system : {"none", "2"},
                  hosting : {"none", "40"}]

\* Pipeline: a short text and two long ones; five answers of the model, with
\* sources out of range, repeated and missing ids, and none.
Threat(id, usable) == [id |-> id, usable |-> usable]
AnswerOf(named, found, drawn, conforms) ==
  [sources |-> named, findings |-> found, threats |-> drawn, conforms |-> conforms]

mcTexts == { [length |-> 3, paragraphs |-> {}, lines |-> {}],
             [length |-> 13, paragraphs |-> {3, 9}, lines |-> {2, 3, 4, 6, 9, 10}],
             [length |-> 11, paragraphs |-> {}, lines |-> {3, 5, 7}] }
mcReplies ==
  { AnswerOf(<<<<"policy", 1>>, <<"policy", 1>>, <<"history", 2>>>>, 2,
             <<Threat(<<1>>, TRUE), Threat(<<1>>, FALSE), Threat(<<1>>, TRUE)>>, TRUE),
    AnswerOf(<<<<"policy", 2>>, <<"policy", 1>>>>, 0,
             <<Threat(<<3>>, TRUE), Threat(<<>>, TRUE), Threat(<<>>, TRUE)>>, TRUE),
    AnswerOf(<<>>, 1, <<>>, TRUE), AnswerOf(<<>>, 1, <<>>, FALSE) }

\* Knowledge base: a document of three paragraphs, the last of which no chunk can
\* hold, and one of two that do not fit into one chunk.
mcSizes == [d \in {"d1", "d2"} |-> IF d = "d1" THEN <<4, 6, 15>> ELSE <<7, 5>>]

-----------------------------------------------------------------------------
\* Intake: a good submission of two files, one that fails on its second file, an
\* agent that is refused, one that waits for its task and one that asks for it,
\* or for a task of another tenant.
Asks(channel, operation, token, given, about) ==
  [channel |-> channel, operation |-> operation, token |-> token, loopback |-> FALSE,
   files |-> given, task |-> about, phase |-> TRUE]
Doc(type, place, small) ==
  [type |-> type, place |-> place, small |-> small, docling |-> FALSE, legacy |-> TRUE,
   suspect |-> type = "text"]

mcCallOf == [c \in {"upload", "mixed", "stranger", "agent", "lookup"} |->
  CASE c = "upload" -> Asks("rest", "assess", "ann", <<"note", "pdf">>, c)
    [] c = "mixed" -> Asks("rest", "assess", "ann", <<"note", "zip">>, c)
    [] c = "stranger" -> Asks("mcp", "assess", "ann", <<"note">>, c)
    [] c = "agent" -> Asks("mcp_wait", "assess", "gateway", <<"pdf">>, c)
    [] c = "lookup" -> Asks("a2a", "get", "gateway", <<>>, "upload")]
mcFileOf == [f \in {"note", "pdf", "zip"} |->
  CASE f = "note" -> Doc("text", "inside", TRUE) [] f = "pdf" -> Doc("office", "inside", TRUE)
    [] OTHER -> Doc("other", "inside", TRUE)]
mcAccountOf == [u \in {"ann"} |-> [active |-> TRUE, role |-> "client", superuser |-> FALSE,
                                   tenant |-> "acme"]]

-----------------------------------------------------------------------------
Components == {"controls", "limiter", "runs", "gate", "critic", "rules", "pipeline", "knowledge",
               "query", "llm", "personas", "inbox"}

\* Of a component that has several initial states and takes no steps, one.
Aside ==
  /\ component # "gate" => release = CHOOSE r \in Releases : TRUE
  /\ component # "critic" =>
       /\ documents = CHOOSE d \in Libraries : TRUE
       /\ design = FALSE
       /\ score = [t \in ThreatIds |-> [p \in AllPassages(documents) |-> 0]]
  /\ component # "pipeline" => task = CHOOSE t \in Tasks : TRUE
  /\ component # "knowledge" => directory = [n \in Names |-> Nothing]

MCInit ==
  /\ component \in Components /\ Aside
  /\ Init /\ LimiterInit /\ RunsInit /\ GateInit /\ CriticInit /\ RulesInit /\ PipelineInit
  /\ KnowledgeInit /\ RetrievalInit /\ LlmInit /\ SkillsInit /\ IntakeInit

MCNext ==
  /\ UNCHANGED component
  /\ IF component = "controls"  THEN Next          ELSE UNCHANGED vars
  /\ IF component = "limiter"   THEN LimiterNext   ELSE UNCHANGED limiter
  /\ IF component = "runs"      THEN RunsNext      ELSE UNCHANGED subAgents
  /\ IF component = "gate"      THEN GateNext      ELSE UNCHANGED gate
  /\ IF component = "critic"    THEN CriticNext    ELSE UNCHANGED critic
  /\ IF component = "rules"     THEN RulesNext     ELSE UNCHANGED log
  /\ IF component = "pipeline"  THEN PipelineNext  ELSE UNCHANGED pipeline
  /\ IF component = "knowledge" THEN KnowledgeNext ELSE UNCHANGED knowledge
  /\ IF component = "query"     THEN RetrievalNext ELSE UNCHANGED retrieved
  /\ IF component = "llm"       THEN LlmNext       ELSE UNCHANGED llm
  /\ IF component = "personas"  THEN SkillsNext    ELSE UNCHANGED personas
  /\ IF component = "inbox"     THEN IntakeNext    ELSE UNCHANGED intake

everything ==
  <<component, vars, limiter, subAgents, gate, critic, log, pipeline, knowledge, retrieved, llm,
    personas, intake>>

MCSpec == MCInit /\ [][MCNext]_everything

-----------------------------------------------------------------------------
\* The variables of each component have their types.
TypesOK ==
  /\ TypeOK /\ BucketsOK /\ RunsOK /\ GateOK /\ CriticOK /\ RulesOK /\ PipelineOK
  /\ KnowledgeOK /\ RetrievalOK /\ LlmOK /\ SkillsOK /\ IntakeOK
=============================================================================
