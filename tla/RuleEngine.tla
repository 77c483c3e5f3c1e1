----------------------------- MODULE RuleEngine -----------------------------
(***************************************************************************)
(* The deterministic risk rules: app/services/s2o_rule_engine.py with the  *)
(* ontology it has built in, the route that asks it about an intake        *)
(* (api/governance/risk_assessment.py), and the part of the orchestrator   *)
(* that asks it about a project and puts the answer in a report.           *)
(*                                                                         *)
(* A rule's condition gives, for some of the facts, the values it accepts. *)
(***************************************************************************)
EXTENDS Naturals, Sequences, FiniteSets, FiniteSetsExt

CONSTANTS
  Intakes,       \* bound: what the route is asked
  ProjectRows,   \* bound: columns of projects that are assessed
  NoValue,       \* no value in a column
  MaxDecisions   \* bound: decisions

VARIABLE log     \* history: the decisions, and what they were about

-----------------------------------------------------------------------------
(***************************************************************************)
(* The ontology.                                                           *)
(***************************************************************************)
Hosting(solution) ==
  CASE solution = "1" -> {"1", "2", "3", "4"}
    [] solution = "2" -> {"40", "41"}
    [] solution = "3" -> {"50"}
    [] solution = "4" -> {"60"}
    [] solution = "5" -> {"70"}
    [] solution = "6" -> {"80"}
    [] OTHER -> {}

RatingRules ==
  << [when |-> [class |-> {"1", "2"}, access |-> {"1"}], rating |-> "high"],
     [when |-> [class |-> {"1"}], rating |-> "high"],
     [when |-> [class |-> {"2"}], rating |-> "medium"],
     [when |-> [class |-> {"3"}], rating |-> "low"] >>

LevelRules ==
  << [when |-> [class |-> {"1"}, access |-> {"1"}], level |-> 1],
     [when |-> [class |-> {"1"}, access |-> {"2"}], level |-> 2],
     [when |-> [class |-> {"2"}, access |-> {"1"}], level |-> 3],
     [when |-> [class |-> {"2"}, access |-> {"2"}], level |-> 4],
     [when |-> [class |-> {"3"}, access |-> {"1"}], level |-> 5],
     [when |-> [class |-> {"3"}, access |-> {"2"}], level |-> 6] >>

Basic == {"intake", "build", "verification", "certification"}
Design == {"threat_model", "design_review"}
Always == [f \in {} |-> {}]

\* Variant: design is added at medium risk only
BaseRuleMediumOnly(release) ==
  IF release = "1"
  THEN [when |-> Always, requirements |-> Basic \cup Design, additions |-> {}]
  ELSE [when |-> Always, requirements |-> Basic,
        additions |-> { [when |-> [rating |-> {"medium"}], add |-> Design] }]

\* One base rule for each type of release, with its conditional additions.
BaseRule(release) ==
  IF release = "1"
  THEN [when |-> Always, requirements |-> Basic \cup Design, additions |-> {}]
  ELSE [when |-> Always, requirements |-> Basic,
        additions |-> { [when |-> [rating |-> {"high", "medium"}], add |-> Design] }]

-----------------------------------------------------------------------------
Matches(when, facts) == \A f \in DOMAIN when : facts[f] \in when[f]

\* The first rule that matches, or else the default.
First(rules, facts, default) ==
  LET matching == { i \in DOMAIN rules : Matches(rules[i].when, facts) }
  IN IF matching = {} THEN default ELSE rules[Min(matching)]

Unknown == 0
Rating(facts) == First(RatingRules, facts, [rating |-> "unknown"]).rating
Level(facts) == First(LevelRules, facts, [level |-> Unknown]).level

Requirements(facts, rating) ==
  LET rule == BaseRule(facts.release)
      known == [f \in DOMAIN facts \cup {"rating"} |-> IF f = "rating" THEN rating ELSE facts[f]]
  IN IF ~Matches(rule.when, known) THEN {}
     ELSE rule.requirements \cup UNION { a.add : a \in { a \in rule.additions : Matches(a.when, known) } }

\* An intake whose hosting does not go with its solution gets no decision.
Evaluate(facts) ==
  IF facts.hosting \notin Hosting(facts.solution)
  THEN [valid |-> FALSE, rating |-> "unknown", level |-> Unknown, profile |-> "unknown",
        requirements |-> {"invalid_selection"}]
  ELSE [valid |-> TRUE, rating |-> Rating(facts), level |-> Level(facts),
        profile |-> IF Level(facts) \in 1..3 THEN "full_ssdlc" ELSE "essential_ssdlc",
        requirements |-> Requirements(facts, Rating(facts))]

-----------------------------------------------------------------------------
(***************************************************************************)
(* What the orchestrator makes of a project: unknown or missing columns,   *)
(* and projects that cannot be read, count as the defaults.                *)
(***************************************************************************)
ClassCode(value) ==
  CASE value \in {"1", "critical", "high"} -> "1"
    [] value \in {"3", "low", "public"} -> "3"
    [] OTHER -> "2"

SystemCode(value) == IF value \in {"1", "2", "3", "4", "5", "6"} THEN value ELSE "1"
HostingCode(value) ==
  IF value \in {"1", "2", "3", "4", "40", "41", "50", "60", "70", "80"} THEN value ELSE "1"

FactsOf(row) ==
  [class |-> ClassCode(row.class), access |-> "2", solution |-> SystemCode(row.system),
   hosting |-> HostingCode(row.hosting), release |-> "1"]

\* The report shows a rating it does not know as low.
Severity(decision) ==
  IF decision.rating \in {"low", "medium", "high"} THEN decision.rating ELSE "low"

\* The profile that a project row is given from its own columns.
DerivedProfile(level, tier) ==
  CASE tier # NoValue -> IF tier \in {"critical", "high"} THEN "full_ssdlc" ELSE "essential_ssdlc"
    [] tier = NoValue /\ level = Unknown -> "none"
    [] OTHER -> IF level <= 3 THEN "full_ssdlc" ELSE "essential_ssdlc"

-----------------------------------------------------------------------------
RulesOK ==
  \A i \in DOMAIN log :
    /\ log[i].decision.level \in 0..6
    /\ log[i].decision.rating \in {"low", "medium", "high", "unknown"}
    /\ log[i].decision.profile \in {"full_ssdlc", "essential_ssdlc", "unknown"}

RulesInit == log = <<>>

Record(facts, shown) ==
  /\ Len(log) < MaxDecisions
  /\ log' = Append(log, [facts |-> facts, decision |-> Evaluate(facts), shown |-> shown])

\* The route refuses an invalid intake.
EvaluateRequest(facts) ==
  Evaluate(facts).valid /\ Record(facts, Evaluate(facts).rating)

AssessProject(row) ==
  Record(FactsOf(row), Severity(Evaluate(FactsOf(row))))

RulesNext ==
  \/ \E facts \in Intakes : EvaluateRequest(facts)
  \/ \E row \in ProjectRows : AssessProject(row)

RulesSpec == RulesInit /\ [][RulesNext]_log

-----------------------------------------------------------------------------
Classes == <<"1", "2", "3">>
Position(x, seq) == CHOOSE i \in DOMAIN seq : seq[i] = x
Known(entry) ==
  entry.decision.valid /\ entry.facts.class \in {"1", "2", "3"} /\ entry.facts.access \in {"1", "2"}

\* Of two decisions, the one about data at least as sensitive, with access at
\* least as wide, in a release at least as large asks for every requirement
\* that the other asks for, gives no lighter profile and a level no lower.
NeverAskedLess ==
  \A i, j \in DOMAIN log :
    LET a == log[i]  b == log[j]
    IN /\ Known(a) /\ Known(b)
       /\ Position(a.facts.class, Classes) <= Position(b.facts.class, Classes)
       /\ Position(a.facts.access, Classes) <= Position(b.facts.access, Classes)
       /\ b.facts.release = "1" => a.facts.release = "1"
       => /\ b.decision.requirements \subseteq a.decision.requirements
          /\ a.decision.level <= b.decision.level
          /\ b.decision.profile = "full_ssdlc" => a.decision.profile = "full_ssdlc"

\* The two places that derive a control profile agree: the engine's profile
\* is the one that a project row gets when it is given the engine's level,
\* and when it is given the engine's rating as its tier.
ProfilesAgree ==
  \A i \in DOMAIN log : Known(log[i]) =>
    /\ log[i].decision.profile = DerivedProfile(log[i].decision.level, NoValue)
    /\ log[i].decision.profile = DerivedProfile(log[i].decision.level, log[i].shown)

\* More sensitive data is never asked less of, by either derivation.
RiskMonotone == NeverAskedLess /\ ProfilesAgree
=============================================================================
