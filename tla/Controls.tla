------------------------------ MODULE Controls ------------------------------
(***************************************************************************)
(* The controls of a project: app/services/control_generator.py and        *)
(* questionnaire_generator.py behind the routes of controls.py,            *)
(* questionnaire.py, projects.py and admin.py.                             *)
(*                                                                         *)
(* The rules, in the code's own order:                                     *)
(*   - a project's control set is the base pack's controls and those that  *)
(*     the overlay of each chosen framework maps or adds; a control has    *)
(*     one row per framework it comes from;                                *)
(*   - applicability is worked out from intake answers and from columns of *)
(*     the project, and is kept on the rows;                               *)
(*   - generation ignores the answers (it is given an empty intake); a     *)
(*     submission of answers works out again only the controls that the    *)
(*     answered questions map to, or all if they map to none;              *)
(*   - a human decision is the status until evidence is added.             *)
(*                                                                         *)
(* A handler has no await, so with one process it is atomic between two    *)
(* commits.  Only creating a project and changing the organisation's       *)
(* frameworks commit more than once: they leave jobs, one generation each. *)
(***************************************************************************)
EXTENDS Naturals, Sequences, SequencesExt

CONSTANTS
  Projects,
  ControlIds,
  Base,          \* control ids of the base pack's schemas
  AiPrefixed,    \* ids that start with "AI-"
  HighRisk,      \* with a load_condition on the AI risk class
  EuOnly,        \* with a load_condition on the EU in the geographic scope
  Frameworks,    \* overlay packs
  Generic,       \* the framework id of the base pack's controls
  Overlay,       \* of a framework: ids in its control_mappings and additional_controls
  Region,        \* of a framework: what its id requires of the scope, or NoRegion
  NoRegion,
  Listed,        \* of a question: the sequence its schema gives for maps_to_controls
  Required,      \* questions that are always asked
  ForeignKeys,   \* the database enforces foreign keys: PostgreSQL, not SQLite's default
  NoAnswer,
  Profiles,      \* bound: values of a project's columns for AI and its risk class
  MaxChanges     \* bound: operations

VARIABLES
  project,       \* rows of projects
  config,        \* frameworks of the organisation
  rows,          \* rows of control_instances, by control and framework
  asked,         \* questions of the project's questionnaire; {} when it has none
  answers,       \* stored answers
  jobs,          \* generations that the running handler has still to commit
  outdated,      \* history: controls not evaluated since what they depend on changed
  changes        \* history: counts the operations

vars == <<project, config, rows, asked, answers, jobs, outdated, changes>>

Questions == {"involves_ai_ml", "ai_eu_risk_class", "geographic_scope"}
Values(q) ==
  CASE q = "involves_ai_ml" -> {"yes", "no"}
    [] q = "ai_eu_risk_class" -> {"high", "limited"}
    [] q = "geographic_scope" -> {"eu", "us"}
Sheets == { a \in [Questions -> {NoAnswer} \cup UNION {Values(q) : q \in Questions}] :
              \A q \in Questions : a[q] \in Values(q) \cup {NoAnswer} }
Blank == [q \in Questions |-> NoAnswer]

Decisions == {"approved", "rejected", "needs_clarification"}
Undecided == {"pending", "not_applicable"}
Row ==
  [applicable: BOOLEAN, status: Undecided \cup Decisions \cup {"evidence_submitted"},
   decision: Decisions \cup {"none"}, evidence: BOOLEAN]
NoRow == [applicable |-> FALSE, status |-> "absent", decision |-> "none", evidence |-> FALSE]
Keys == ControlIds \X (Frameworks \cup {Generic})

Project ==
  [exists: BOOLEAN, frameworks: SUBSET Frameworks, locked: BOOLEAN,
   ai: {"yes", "no", NoAnswer}, risk: {"high", "limited", NoAnswer}]

ASSUME ProfilesAssumption ==
  \A c \in Profiles : c.ai \in {"yes", "no", NoAnswer} /\ c.risk \in {"high", "limited", NoAnswer}

TypeOK ==
  /\ project \in [Projects -> Project]
  /\ config \subseteq Frameworks
  /\ rows \in [Projects -> [Keys -> Row \cup {NoRow}]]
  /\ asked \in [Projects -> SUBSET Questions]
  /\ answers \in [Projects -> Sheets]
  /\ jobs \subseteq Projects
  /\ outdated \in [Projects -> SUBSET ControlIds]
  /\ changes \in Nat

Init ==
  /\ project = [p \in Projects |-> [exists |-> FALSE, frameworks |-> {}, locked |-> FALSE,
                                    ai |-> NoAnswer, risk |-> NoAnswer]]
  /\ config = {}
  /\ rows = [p \in Projects |-> [k \in Keys |-> NoRow]]
  /\ asked = [p \in Projects |-> {}]
  /\ answers = [p \in Projects |-> Blank]
  /\ jobs = {}
  /\ outdated = [p \in Projects |-> {}]
  /\ changes = 0

-----------------------------------------------------------------------------
(***************************************************************************)
(* The control set, applicability, and what a question maps to.            *)
(***************************************************************************)
Sources(c, frameworks) ==
  (IF c \in Base THEN {Generic} ELSE {}) \cup { f \in frameworks : c \in Overlay[f] }

ControlSet(frameworks) == { k \in Keys : k[2] \in Sources(k[1], frameworks) }

\* An answer, or else the project's column of the same meaning.
Fact(q, sheet, prj) ==
  CASE sheet[q] # NoAnswer -> sheet[q]
    [] sheet[q] = NoAnswer /\ q = "involves_ai_ml" -> prj.ai
    [] sheet[q] = NoAnswer /\ q = "ai_eu_risk_class" -> prj.risk
    [] OTHER -> NoAnswer

\* A region required by any framework of a control is required of the whole
\* control, its row for the base pack included.
Applies(c, prj, sheet) ==
  /\ c \in HighRisk => Fact("ai_eu_risk_class", sheet, prj) = "high"
  /\ c \in EuOnly => Fact("geographic_scope", sheet, prj) = "eu"
  /\ c \in AiPrefixed => Fact("involves_ai_ml", sheet, prj) = "yes"
  /\ \A f \in Sources(c, prj.frameworks) \ {Generic} :
       Region[f] # NoRegion => Fact("geographic_scope", sheet, prj) = Region[f]

\* The schema writes the controls of a question on one line, each in
\* backticks, and the parser of property values keeps the first.
MapsTo(q) == IF Listed[q] = <<>> THEN {} ELSE {Head(Listed[q])}

-----------------------------------------------------------------------------
(***************************************************************************)
(* Generation.  Rows of frameworks that are no longer chosen stay.         *)
(***************************************************************************)
\* Variant: a status is set when the row is made and never again
EvaluatedOnce(row, applicable) ==
  [row EXCEPT !.applicable = applicable,
     !.status = IF row.status = "absent"
                THEN IF applicable THEN "pending" ELSE "not_applicable"
                ELSE row.status]

Evaluated(row, applicable) ==
  [row EXCEPT !.applicable = applicable,
     !.status = IF row.status \in Undecided \cup {"absent"}
                THEN IF applicable THEN "pending" ELSE "not_applicable"
                ELSE row.status]

\* Variant: rows are evaluated before the project has its new frameworks
GenerateOnOldProject(p, frameworks, regenerate) ==
  LET new == [project[p] EXCEPT !.frameworks = frameworks, !.locked = TRUE]
      kept == IF regenerate THEN [k \in Keys |-> NoRow] ELSE rows[p]
  IN /\ regenerate /\ ForeignKeys => \A k \in Keys : ~rows[p][k].evidence
     /\ project' = [project EXCEPT ![p] = new]
     /\ rows' = [rows EXCEPT ![p] =
          [k \in Keys |-> IF k \in ControlSet(frameworks)
                          THEN Evaluated(kept[k], Applies(k[1], project[p], Blank))
                          ELSE kept[k]]]
     /\ outdated' = [outdated EXCEPT ![p] =
          IF answers[p] = Blank THEN {} ELSE ControlIds]

\* One commit: the rows, and the project with its frameworks locked.
Generate(p, frameworks, regenerate) ==
  LET new == [project[p] EXCEPT !.frameworks = frameworks, !.locked = TRUE]
      kept == IF regenerate THEN [k \in Keys |-> NoRow] ELSE rows[p]
  IN /\ regenerate /\ ForeignKeys => \A k \in Keys : ~rows[p][k].evidence
     /\ project' = [project EXCEPT ![p] = new]
     /\ rows' = [rows EXCEPT ![p] =
          [k \in Keys |-> IF k \in ControlSet(frameworks)
                          THEN Evaluated(kept[k], Applies(k[1], new, Blank))
                          ELSE kept[k]]]
     /\ outdated' = [outdated EXCEPT ![p] =
          IF answers[p] = Blank THEN {} ELSE ControlIds]

Idle == jobs = {}
Change == changes < MaxChanges /\ changes' = changes + 1

\* Variant: the project is locked when it is created
CreateLocked(p, frameworks, ai, risk) ==
  /\ Idle /\ ~project[p].exists /\ Change
  /\ project' = [project EXCEPT ![p] =
       [exists |-> TRUE, frameworks |-> frameworks, locked |-> frameworks # {}, ai |-> ai,
        risk |-> risk]]
  /\ jobs' = IF frameworks = {} THEN {} ELSE {p}
  /\ UNCHANGED <<config, rows, asked, answers, outdated>>

\* The project is committed, then its controls are generated.
CreateProject(p, frameworks, ai, risk) ==
  /\ Idle /\ ~project[p].exists /\ Change
  /\ project' = [project EXCEPT ![p] =
       [exists |-> TRUE, frameworks |-> frameworks, locked |-> FALSE, ai |-> ai, risk |-> risk]]
  /\ jobs' = IF frameworks = {} THEN {} ELSE {p}
  /\ UNCHANGED <<config, rows, asked, answers, outdated>>

\* The configuration is committed, then each unlocked project is generated.
UpdateOrgFrameworks(frameworks) ==
  /\ Idle /\ frameworks # {} /\ Change
  /\ config' = frameworks
  /\ jobs' = { p \in Projects : project[p].exists /\ ~project[p].locked }
  /\ UNCHANGED <<project, rows, asked, answers, outdated>>

GenerateNext(p) ==
  /\ p \in jobs
  /\ jobs' = jobs \ {p}
  /\ Generate(p, IF project[p].frameworks # {} THEN project[p].frameworks ELSE config, FALSE)
  /\ UNCHANGED <<config, asked, answers, changes>>

\* The handler raises, or the process stops, between two commits.
Abandon ==
  /\ ~Idle
  /\ jobs' = {}
  /\ UNCHANGED <<project, config, rows, asked, answers, outdated, changes>>

GenerateControls(p, chosen, regenerate) ==
  LET frameworks ==
        CASE chosen # {} -> chosen
          [] chosen = {} /\ project[p].frameworks # {} -> project[p].frameworks
          [] OTHER -> Frameworks
  IN /\ Idle /\ project[p].exists /\ Change
     /\ Generate(p, frameworks, regenerate)
     /\ UNCHANGED <<config, asked, answers, jobs>>

\* Any column may be set; nothing is generated or evaluated again.
UpdateProject(p, frameworks, ai, risk) ==
  /\ Idle /\ project[p].exists /\ Change
  /\ project' = [project EXCEPT ![p].frameworks = frameworks, ![p].ai = ai, ![p].risk = risk]
  /\ outdated' = [outdated EXCEPT ![p] = ControlIds]
  /\ UNCHANGED <<config, rows, asked, answers, jobs>>

-----------------------------------------------------------------------------
(***************************************************************************)
(* The questionnaire.                                                      *)
(***************************************************************************)
Active(p) == { c \in ControlIds :
                 \E k \in Keys : k[1] = c /\ rows[p][k] # NoRow /\ rows[p][k].applicable }

\* Reading the questionnaire creates it once the project has controls.
GetQuestionnaire(p) ==
  /\ Idle /\ asked[p] = {}
  /\ \E k \in Keys : rows[p][k] # NoRow
  /\ asked' = [asked EXCEPT ![p] =
       { q \in Questions : q \in Required \/ MapsTo(q) \cap Active(p) # {} }]
  /\ UNCHANGED <<project, config, rows, answers, jobs, outdated, changes>>

Inputs(c, prj) ==
  (IF c \in HighRisk THEN {"ai_eu_risk_class"} ELSE {})
  \cup (IF c \in AiPrefixed THEN {"involves_ai_ml"} ELSE {})
  \cup (IF c \in EuOnly \/ \E f \in Sources(c, prj.frameworks) \ {Generic} : Region[f] # NoRegion
        THEN {"geographic_scope"} ELSE {})

\* What a submission evaluates again.  incoming has an answer for each
\* question it names; one that was not asked counts here and is not stored.
Touched(p, named) ==
  LET mapped == UNION { MapsTo(q) : q \in named \cap asked[p] }
  IN { c \in ControlIds : /\ mapped # {} => c \in mapped
                          /\ Sources(c, project[p].frameworks) # {} }

SubmitAnswers(p, incoming) ==
  LET named == { q \in Questions : incoming[q] # NoAnswer }
      Answered(S) == [q \in Questions |-> IF q \in S THEN incoming[q] ELSE answers[p][q]]
      touched == Touched(p, named)
      stored == Answered(named \cap asked[p])
      evaluated == { c \in touched : \A k \in ControlSet(project[p].frameworks) :
                       k[1] = c => rows[p][k] # NoRow }
  IN /\ Idle /\ asked[p] # {} /\ named # {} /\ Change
     /\ answers' = [answers EXCEPT ![p] = stored]
     /\ rows' = [rows EXCEPT ![p] = [k \in Keys |->
          IF /\ k[1] \in touched
             /\ rows[p][k] # NoRow
             /\ rows[p][k].applicable # Applies(k[1], project[p], Answered(named))
          THEN Evaluated(rows[p][k], ~rows[p][k].applicable)
          ELSE rows[p][k]]]
     /\ outdated' = [outdated EXCEPT ![p] =
          IF named \subseteq asked[p]
          THEN (@ \ evaluated) \cup { c \in ControlIds \ evaluated :
                 \E q \in Inputs(c, project[p]) : stored[q] # answers[p][q] }
          ELSE ControlIds]
     /\ UNCHANGED <<project, config, asked, jobs>>

-----------------------------------------------------------------------------
(***************************************************************************)
(* Evidence and human review.  The handlers load the first row of a        *)
(* control in the order of the database, whichever its framework.          *)
(***************************************************************************)
Loaded(p, k) == Idle /\ rows[p][k] # NoRow

AddEvidence(p, k) ==
  /\ Loaded(p, k) /\ Change
  /\ rows' = [rows EXCEPT ![p][k].status = "evidence_submitted", ![p][k].evidence = TRUE]
  /\ UNCHANGED <<project, config, asked, answers, jobs, outdated>>

\* Variant: the review sets the status and forgets the decision
ReviewStatusOnly(p, k, decision) ==
  /\ Loaded(p, k) /\ Change
  /\ rows' = [rows EXCEPT ![p][k].status = decision]
  /\ UNCHANGED <<project, config, asked, answers, jobs, outdated>>

SubmitHumanReview(p, k, decision) ==
  /\ Loaded(p, k) /\ Change
  /\ rows' = [rows EXCEPT ![p][k].status = decision, ![p][k].decision = decision]
  /\ UNCHANGED <<project, config, asked, answers, jobs, outdated>>

\* As the summary of a project's controls reports it; every control of the
\* packs in the repository is mandatory.
AllMandatoryApproved(p) ==
  \A k \in Keys : rows[p][k] # NoRow /\ rows[p][k].applicable => rows[p][k].status = "approved"

-----------------------------------------------------------------------------
Next ==
  \/ \E p \in Projects :
       \/ \E fs \in SUBSET Frameworks, c \in Profiles :
            CreateProject(p, fs, c.ai, c.risk) \/ UpdateProject(p, fs, c.ai, c.risk)
       \/ GenerateNext(p)
       \/ \E fs \in SUBSET Frameworks, regenerate \in BOOLEAN : GenerateControls(p, fs, regenerate)
       \/ GetQuestionnaire(p)
       \/ \E incoming \in Sheets : SubmitAnswers(p, incoming)
       \/ \E k \in Keys :
            \/ AddEvidence(p, k)
            \/ \E decision \in Decisions : SubmitHumanReview(p, k, decision)
  \/ \E fs \in SUBSET Frameworks : UpdateOrgFrameworks(fs)
  \/ Abandon

Spec == Init /\ [][Next]_vars

-----------------------------------------------------------------------------
(***************************************************************************)
(* Properties.                                                             *)
(***************************************************************************)
\* The columns of a row tell one story, whichever of generation, answers,
\* evidence and review wrote them last: the status says whether the row
\* applies as the column does, and a status that is a decision is the decision
\* of the last human review, never one that a generation or an answer revived.
Consistent ==
  \A p \in Projects, k \in Keys :
    /\ rows[p][k].status = "pending" => rows[p][k].applicable
    /\ rows[p][k].status = "not_applicable" => ~rows[p][k].applicable
    /\ rows[p][k].status \in Decisions => rows[p][k].decision = rows[p][k].status

\* A row agrees with all the answers on record unless its control is known
\* to be out of date: the frameworks, a column or an answer it depends on
\* changed and nothing evaluated it since.
Fresh ==
  \A p \in Projects : \A k \in ControlSet(project[p].frameworks) :
    k[1] \notin outdated[p] /\ rows[p][k] # NoRow
      => rows[p][k].applicable = Applies(k[1], project[p], answers[p])

\* A locked project has every row of its frameworks, unless its frameworks
\* were changed since: a generation that fails half-way locks nothing.
LockedComplete ==
  \A p \in Projects : project[p].locked =>
    \A k \in ControlSet(project[p].frameworks) :
      k[1] \notin outdated[p] => rows[p][k] # NoRow

\* When the summary reports that all mandatory controls are approved, a human
\* approved each row that the answers on record make applicable, unless the
\* control is out of date.
ClearanceSound ==
  \A p \in Projects : project[p].locked /\ AllMandatoryApproved(p) =>
    \A k \in ControlSet(project[p].frameworks) :
      k[1] \notin outdated[p] /\ Applies(k[1], project[p], answers[p])
        => rows[p][k].decision = "approved"

\* An answer is applied to every control that the schema lists for its
\* question, when all that the control depends on was asked.
ListedControlsFollow ==
  [][\A p \in Projects, q \in Questions, k \in Keys :
       /\ answers'[p][q] # answers[p][q]
       /\ \E i \in 1..Len(Listed[q]) : Listed[q][i] = k[1]
       /\ k \in ControlSet(project[p].frameworks) /\ rows[p][k] # NoRow
       /\ Inputs(k[1], project[p]) \subseteq asked[p]
       => rows'[p][k].applicable = Applies(k[1], project[p], answers'[p])]_vars
=============================================================================
