-------------------------- MODULE Judgements_proofs --------------------------
(***************************************************************************)
(* Proofs about the judgements that the program makes without a model: the *)
(* release gate's decisions, what the critic keeps of the verdicts it is   *)
(* given, the risk rules, and which controls apply to a project and which  *)
(* of them are cleared.                                                    *)
(***************************************************************************)
EXTENDS EvidenceGate, EvidenceCritic, RuleEngine, Controls, Induction

\* The decision is the one of the instant at which it was asked for, which is
\* not after now (evaluated_at in evidence_gate.py).
Answered ==
  decision # NoDecision =>
    /\ decision = [outcome |-> Outcome(release, assessed), applied |-> Applied(release, assessed)]
    /\ assessed \in Nat /\ assessed <= now

GateInv == GateOK /\ Answered

\* A waiver that is applied is one of the release's.
LEMMA OutcomeTyped ==
  ASSUME NEW r \in Releases, NEW t
  PROVE  /\ Outcome(r, t) \in {"pass", "fail", "conditional", "insufficient_evidence"}
         /\ Applied(r, t) \subseteq { w.id : w \in Waivers }
<1>1. Outcome(r, t) \in {"pass", "fail", "conditional", "insufficient_evidence"}
  BY Zenon DEF Outcome
<1>2. ASSUME NEW f, Waived(f, r, t)
      PROVE  Min({ w.id : w \in ActiveWaivers(f, r.waivers, t) }) \in { w.id : w \in Waivers }
  <2> DEFINE ids == { w.id : w \in ActiveWaivers(f, r.waivers, t) }
  <2>1. r.waivers \subseteq Waivers
    BY DEF Releases
  <2>2. ids \in SUBSET Nat /\ ids # {} /\ ids \subseteq { w.id : w \in Waivers }
    BY <1>2, <2>1, GateAssumption DEF Waived, ActiveWaivers
  <2> QED BY <2>2, LeastNumber
<1> QED BY <1>1, <1>2 DEF Applied

LEMMA GateInitially == GateInit => GateInv
BY GateAssumption DEF GateInit, GateInv, GateOK, Answered

LEMMA GateSteps == GateInv /\ [GateNext]_gate => GateInv'
<1> SUFFICES ASSUME GateInv, [GateNext]_gate PROVE GateInv'
  OBVIOUS
<1> USE GateAssumption DEF GateOK
<1>1. CASE EvaluateGate
  BY <1>1, OutcomeTyped DEF EvaluateGate, GateInv, Answered
<1>2. CASE TimePasses
  BY <1>2 DEF TimePasses, GateInv, Answered
<1>3. CASE UNCHANGED gate
  BY <1>3 DEF gate, GateInv, Answered
<1> QED BY <1>1, <1>2, <1>3 DEF GateNext

\* The gate's decisions are of its types, and are those of their instants, for
\* any release, policy and waivers (evaluate_gate).
THEOREM GateInvariance == GateSpec => []GateInv
BY GateInitially, GateSteps, PTL DEF GateSpec

-----------------------------------------------------------------------------
(***************************************************************************)
(* The parts of a decision, by the names they have in the code.            *)
(***************************************************************************)
Missing(r) == r.policy.kinds \ { e.kind : e \in Evidence(r) }
Invalid(r) == { e \in Evidence(r) : e.kind \notin Supported \/ ~e.valid }
Unverified(r) == { e \in Evidence(r) : e.kind \in r.policy.signedKinds /\ ~e.signed }
Blocking(r, t) == { f \in r.findings : Blocks(f, r.policy) /\ ~Waived(f, r, t) }
Sound(r) == Invalid(r) = {} /\ Unverified(r) = {} /\ Missing(r) = {}

LEMMA Precedence ==
  ASSUME NEW r, NEW t
  PROVE  /\ Outcome(r, t) \in {"pass", "conditional"} <=> Sound(r) /\ Blocking(r, t) = {}
         /\ Outcome(r, t) = "pass" => Applied(r, t) = {} /\ ~r.policy.humanApproval
         /\ Sound(r) /\ Blocking(r, t) = {} /\ Applied(r, t) = {} /\ ~r.policy.humanApproval
              => Outcome(r, t) = "pass"
         /\ Outcome(r, t) = "fail" <=>
              ~(Invalid(r) = {} /\ Unverified(r) = {} /\ Blocking(r, t) = {})
         /\ Outcome(r, t) \in {"pass", "fail", "conditional", "insufficient_evidence"}
<1> DEFINE missing == Missing(r)
           bad == Invalid(r) \cup Unverified(r)
           blocking == Blocking(r, t)
           applied == Applied(r, t)
           human == r.policy.humanApproval
<1>1. Outcome(r, t) =
        CASE bad # {} \/ blocking # {} -> "fail"
          [] bad = {} /\ blocking = {} /\ missing # {} -> "insufficient_evidence"
          [] bad = {} /\ blocking = {} /\ missing = {} /\ (applied # {} \/ human) -> "conditional"
          [] OTHER -> "pass"
  BY DEF Outcome, Missing, Invalid, Unverified, Blocking
<1>2. Sound(r) <=> bad = {} /\ missing = {}
  BY DEF Sound
<1>3. bad = {} <=> Invalid(r) = {} /\ Unverified(r) = {}
  OBVIOUS
<1> HIDE DEF missing, bad, blocking, applied, human
<1>4. CASE bad # {} \/ blocking # {}
  BY <1>1, <1>2, <1>3, <1>4 DEF blocking, applied, human
<1>5. CASE bad = {} /\ blocking = {} /\ missing # {}
  BY <1>1, <1>2, <1>3, <1>5 DEF blocking, applied, human
<1>6. CASE bad = {} /\ blocking = {} /\ missing = {}
  BY <1>1, <1>2, <1>3, <1>6 DEF blocking, applied, human
<1> QED BY <1>4, <1>5, <1>6

\* A finding that would block has a waiver, or the gate does not clear.
LEMMA WaiverNeeded ==
  ASSUME NEW r, NEW t, Blocking(r, t) = {}, NEW f \in r.findings, Blocks(f, r.policy)
  PROVE  Waived(f, r, t) /\ Applied(r, t) # {}
<1>1. Waived(f, r, t)
  BY DEF Blocking
<1>2. Min({ w.id : w \in ActiveWaivers(f, r.waivers, t) }) \in Applied(r, t)
  BY <1>1 DEF Applied
<1> QED BY <1>1, <1>2

-----------------------------------------------------------------------------
(***************************************************************************)
(* The gate fails closed (evaluate_gate and verify_slsa_dsse): whatever a  *)
(* release brings, it is cleared only with the evidence, the signatures    *)
(* and the waivers that its policy asks for.                               *)
(***************************************************************************)
THEOREM FailsClosed == GateSpec => []ClearedRelease
<1>1. ASSUME GateInv, Cleared PROVE ClearedRelease
  <2> DEFINE r == release
             t == assessed
  <2>1. decision = [outcome |-> Outcome(r, t), applied |-> Applied(r, t)]
    BY <1>1 DEF GateInv, Answered, Cleared
  <2>2. Sound(r) /\ Blocking(r, t) = {}
    <3>1. Outcome(r, t) \in {"pass", "conditional"}
      BY <1>1, <2>1 DEF Cleared
    <3> QED BY <3>1, Precedence
  <2>3. \A e \in Evidence(r) : e.valid /\ (e.kind \in r.policy.signedKinds => e.signed)
    BY <2>2 DEF Sound, Invalid, Unverified
  <2>4. \A e \in r.provenances : Provenance(e, r.expected) \in Evidence(r)
    BY DEF Evidence
  <2>5. ASSUME NEW kind \in r.policy.kinds
        PROVE  \/ \E d \in r.documents : d.kind = kind /\ d.valid
               \/ kind = "slsa-provenance" /\ r.provenances # {}
    <3>1. PICK e \in Evidence(r) : e.kind = kind
      BY <2>2 DEF Sound, Missing
    <3>2. CASE e \in r.documents
      BY <2>3, <3>1, <3>2
    <3>3. CASE \E p \in r.provenances : e = Provenance(p, r.expected)
      BY <3>1, <3>3 DEF Provenance
    <3> QED BY <3>1, <3>2, <3>3 DEF Evidence
  <2>6. ASSUME {"slsa-provenance"} \subseteq r.policy.kinds \cap r.policy.signedKinds,
               NEW e \in r.provenances
        PROVE  /\ e.decodes /\ Digest \in e.subjects /\ e.builder \in r.expected.builders
               /\ e.signed /\ r.expected.verifier
    <3>1. Provenance(e, r.expected).valid /\ Provenance(e, r.expected).signed
      BY <2>3, <2>4, <2>6 DEF Provenance
    <3>2. Verified(e, r.expected) /\ SignatureOk(e, r.expected)
      BY <3>1 DEF Provenance
    <3> QED BY <3>2 DEF Verified, SignatureOk
  <2>7. ASSUME NEW f \in r.findings, f.status = "open", f.severity \in r.policy.blocking
        PROVE  /\ f.control \notin r.policy.nonWaivable
               /\ \E w \in r.waivers : /\ w.expires > t
                                       /\ f.id \in w.findings \/ f.control \in w.controls
                                       /\ decision.outcome = "conditional"
    <3>1. Waived(f, r, t) /\ Applied(r, t) # {}
      BY <2>2, <2>7, WaiverNeeded DEF Blocks
    <3>2. decision.outcome = "conditional"
      BY <1>1, <2>1, <3>1, Precedence DEF Cleared
    <3> QED BY <3>1, <3>2 DEF Waived, ActiveWaivers
  <2> QED BY <2>5, <2>6, <2>7 DEF ClearedRelease
<1>2. GateInv => ClearedRelease
  BY <1>1 DEF ClearedRelease
<1> QED BY <1>2, GateInvariance, PTL

-----------------------------------------------------------------------------
(***************************************************************************)
(* Waivers only run out (_active_waiver), so time alone never improves a   *)
(* decision.                                                               *)
(***************************************************************************)
LEMMA BlockingGrows ==
  ASSUME NEW r \in Releases, NEW t \in Int, NEW u \in Int, t <= u
  PROVE  Blocking(r, t) \subseteq Blocking(r, u)
<1>1. ASSUME NEW f, Waived(f, r, u) PROVE Waived(f, r, t)
  <2>1. r.waivers \subseteq Waivers
    BY DEF Releases
  <2>2. PICK w \in r.waivers : w.expires > u /\ (f.id \in w.findings \/ f.control \in w.controls)
    BY <1>1 DEF Waived, ActiveWaivers
  <2>3. w.expires > t
    BY <2>1, <2>2, GateAssumption
  <2> QED BY <1>1, <2>2, <2>3 DEF Waived, ActiveWaivers
<1> QED BY <1>1 DEF Blocking

LEMMA Later ==
  ASSUME NEW r \in Releases, NEW t \in Int, NEW u \in Int, t <= u
  PROVE  Rank(Outcome(r, u)) <= Rank(Outcome(r, t))
<1>1. Blocking(r, t) \subseteq Blocking(r, u)
  BY BlockingGrows
<1>2. CASE Outcome(r, u) = "fail"
  BY <1>2, Precedence DEF Rank
<1>3. CASE Outcome(r, u) = "insufficient_evidence"
  <2>1. Outcome(r, t) # "fail"
    BY <1>1, <1>3, Precedence
  <2> QED BY <1>3, <2>1, Precedence DEF Rank
<1>4. CASE Outcome(r, u) = "conditional"
  <2>1. Outcome(r, t) \in {"pass", "conditional"}
    BY <1>1, <1>4, Precedence
  <2> QED BY <1>4, <2>1 DEF Rank
<1>5. CASE Outcome(r, u) = "pass"
  <2>1. /\ Sound(r) /\ Blocking(r, u) = {} /\ Applied(r, u) = {} /\ ~r.policy.humanApproval
    BY <1>5, Precedence
  <2>2. \A f \in r.findings : ~Blocks(f, r.policy)
    BY <2>1, WaiverNeeded
  <2>3. Applied(r, t) = {} /\ Blocking(r, t) = {}
    BY <2>2 DEF Applied, Blocking
  <2>4. Outcome(r, t) = "pass"
    BY <2>1, <2>3, Precedence
  <2> QED BY <1>5, <2>4 DEF Rank
<1> QED BY <1>2, <1>3, <1>4, <1>5, Precedence

\* Asked again with the same inputs, the gate answers the same or worse.
THEOREM TimeNeverHelps == GateSpec => NeverImproves
<1>1. ASSUME GateInv, [GateNext]_gate PROVE NoBetter
  <2> SUFFICES ASSUME decision # NoDecision
               PROVE  Rank(decision'.outcome) <= Rank(decision.outcome)
    BY DEF NoBetter
  <2>1. decision.outcome = Outcome(release, assessed) /\ assessed \in Nat /\ assessed <= now
    BY <1>1 DEF GateInv, Answered
  <2>2. release \in Releases /\ now \in Nat
    BY <1>1, GateAssumption DEF GateInv, GateOK
  <2>3. CASE EvaluateGate
    <3>1. decision'.outcome = Outcome(release, now)
      BY <2>3 DEF EvaluateGate
    <3> QED BY <2>1, <2>2, <3>1, Later
  <2>4. CASE decision' = decision
    BY <2>1, <2>2, <2>4, Later
  <2> QED BY <1>1, <2>3, <2>4 DEF GateNext, TimePasses, gate
<1>2. GateSpec => [][NoBetter]_gate
  BY <1>1, GateInvariance, PTL DEF GateSpec
<1> QED BY <1>2 DEF NeverImproves

-----------------------------------------------------------------------------
(***************************************************************************)
(* The critic.  A reply may name anything; what is kept of it cites only   *)
(* what was put before the model for that threat.                          *)
(***************************************************************************)
\* What a verdict on a threat may be (_verdict_from_item, _apply_verdicts).
Carried(k, t) ==
  /\ k.status \in Statuses
  /\ k.evidence \cup k.counter \subseteq Allowed(t)
  /\ k.evidence \cup k.counter = {} <=> k.status = "insufficient_evidence"
  /\ k.status = "supported" => k.evidence # {}
  /\ k.status = "contradicted" => k.counter # {}

LEMMA KeptCarried == ASSUME NEW v PROVE Carried(Kept(v), v.threat)
<1> DEFINE allowed == Allowed(v.threat)
           evidence == v.evidence \cap allowed
           counter == v.counter \cap allowed
<1>1. Kept(v) =
        CASE v.status = "supported" /\ evidence # {} ->
               [status |-> "supported", evidence |-> evidence, counter |-> counter]
          [] v.status = "contradicted" /\ counter # {} ->
               [status |-> "contradicted", evidence |-> evidence, counter |-> counter]
          [] v.status = "contradicted" /\ counter = {} /\ evidence # {} ->
               [status |-> "contradicted", evidence |-> {}, counter |-> evidence]
          [] OTHER -> Unanswered
  BY DEF Kept
<1>2. evidence \subseteq allowed /\ counter \subseteq allowed
  OBVIOUS
<1> HIDE DEF evidence, counter
<1>3. CASE v.status = "supported" /\ evidence # {}
  BY <1>1, <1>2, <1>3 DEF Carried, Statuses
<1>4. CASE v.status = "contradicted" /\ counter # {}
  BY <1>1, <1>2, <1>4 DEF Carried, Statuses
<1>5. CASE v.status = "contradicted" /\ counter = {} /\ evidence # {}
  BY <1>1, <1>2, <1>5 DEF Carried, Statuses
<1>6. CASE ~ \/ v.status = "supported" /\ evidence # {}
             \/ v.status = "contradicted" /\ counter # {}
             \/ v.status = "contradicted" /\ counter = {} /\ evidence # {}
  BY <1>1, <1>2, <1>6 DEF Carried, Statuses, Unanswered
<1> QED BY <1>3, <1>4, <1>5, <1>6

LEMMA UnansweredCarried == ASSUME NEW t PROVE Carried(Unanswered, t)
BY DEF Carried, Unanswered, Statuses

\* The first verdict on a threat is one on that threat.
LEMMA FirstOfTwo ==
  ASSUME NEW S \in SUBSET {1, 2}, S # {}
  PROVE  Min(S) \in S
<1>1. CASE 1 \in S
  <2>1. 1 \in S /\ \A m \in S : 1 <= m
    BY <1>1
  <2> QED BY <2>1 DEF Min
<1>2. CASE 1 \notin S
  <2>1. \A m \in S : m = 2
    BY <1>2
  <2>2. PICK m \in S : TRUE
    OBVIOUS
  <2>3. 2 \in S /\ \A x \in S : 2 <= x
    BY <2>1, <2>2
  <2> QED BY <2>3 DEF Min
<1> QED BY <1>1, <1>2

LEMMA VerdictCarried ==
  ASSUME NEW reply, DOMAIN reply \subseteq {1, 2}, NEW t
  PROVE  Carried(VerdictOn(t, reply), t)
<1> DEFINE on == { i \in DOMAIN reply : reply[i].threat = t }
<1>1. CASE on = {}
  BY <1>1, UnansweredCarried DEF VerdictOn
<1>2. CASE on # {}
  <2>1. Min(on) \in on
    BY <1>2, FirstOfTwo
  <2>2. reply[Min(on)].threat = t
    BY <2>1
  <2> QED BY <1>2, <2>2, KeptCarried DEF VerdictOn
<1> QED BY <1>1, <1>2

\* Three statuses, each verdict has one, so the counts add up.
LEMMA CountsAddUp ==
  ASSUME NEW n \in Nat, NEW vs, DOMAIN vs = 1..n, \A i \in 1..n : vs[i].status \in Statuses
  PROVE  n = Count(vs, "supported") + Count(vs, "contradicted")
             + Count(vs, "insufficient_evidence")
<1> DEFINE Of(s) == { i \in 1..n : vs[i].status = s }
           A == Of("supported")
           B == Of("contradicted")
           C == Of("insufficient_evidence")
<1>1. IsFiniteSet(1..n) /\ Cardinality(1..n) = n
  BY FS_Interval
<1>2. IsFiniteSet(A) /\ IsFiniteSet(B) /\ IsFiniteSet(C) /\ IsFiniteSet(A \cup B)
  BY <1>1, FS_Subset
<1>3. A \cap B = {} /\ (A \cup B) \cap C = {} /\ (A \cup B) \cup C = 1..n
  BY DEF Statuses
<1>4. /\ Count(vs, "supported") = Cardinality(A) /\ Count(vs, "contradicted") = Cardinality(B)
      /\ Count(vs, "insufficient_evidence") = Cardinality(C)
  BY DEF Count
<1>5. Cardinality({}) = 0
  BY FS_EmptySet
<1> HIDE DEF A, B, C
<1>6. Cardinality(A \cup B) = Cardinality(A) + Cardinality(B) - Cardinality(A \cap B)
  BY <1>2, FS_Union
<1>7. Cardinality((A \cup B) \cup C)
        = Cardinality(A \cup B) + Cardinality(C) - Cardinality((A \cup B) \cap C)
  BY <1>2, FS_Union
<1>8. Cardinality(A) \in Nat /\ Cardinality(B) \in Nat /\ Cardinality(C) \in Nat
  BY <1>2, FS_CardinalityType
<1>9. Cardinality((A \cup B) \cup C) = n
  BY <1>1, <1>3
<1>10. Cardinality(A \cap B) = 0 /\ Cardinality((A \cup B) \cap C) = 0
  BY <1>3, <1>5
<1>11. n = Cardinality(A) + Cardinality(B) + Cardinality(C)
  BY <1>6, <1>7, <1>8, <1>9, <1>10
<1> QED BY <1>4, <1>11

\* What stands when the verdicts were applied, whatever the reply was.
CriticInv ==
  /\ progress \in {"drafted", "asked", "verified"}
  /\ progress = "drafted" => verdicts = <<>> /\ summary = NoSummary
  /\ Grounded

LEMMA ThreatsSeq ==
  /\ Len(Threats) \in Nat /\ DOMAIN Threats = 1..Len(Threats)
  /\ \A i \in DOMAIN Threats : Threats[i] \in ThreatIds
BY CriticAssumption DEF ThreatIds

\* Only threats among the first MaxThreats are put before the model.
LEMMA ExaminedEarly ==
  ASSUME NEW t \in Examined
  PROVE  \E j \in 1..MaxThreats : Threats[j] = t
<1> DEFINE n == Min({Len(Threats), MaxThreats})
<1>1. n <= MaxThreats /\ n \in Int
  <2>1. CASE Len(Threats) <= MaxThreats
    <3>1. \A y \in {Len(Threats), MaxThreats} : Len(Threats) <= y
      BY <2>1, ThreatsSeq
    <3>2. n \in {Len(Threats), MaxThreats} /\ \A y \in {Len(Threats), MaxThreats} : n <= y
      BY <3>1 DEF Min
    <3> QED BY <3>2, ThreatsSeq, CriticAssumption
  <2>2. CASE MaxThreats <= Len(Threats)
    <3>1. \A y \in {Len(Threats), MaxThreats} : MaxThreats <= y
      BY <2>2, ThreatsSeq, CriticAssumption
    <3>2. n \in {Len(Threats), MaxThreats} /\ \A y \in {Len(Threats), MaxThreats} : n <= y
      BY <3>1 DEF Min
    <3> QED BY <3>2, ThreatsSeq, CriticAssumption
  <2> QED BY <2>1, <2>2, ThreatsSeq, CriticAssumption
<1>2. PICK j \in 1..n : t = Threats[j]
  BY DEF Examined
<1> QED BY <1>1, <1>2, CriticAssumption

\* Whatever was replied, and if nothing was, what is kept of it is grounded.
LEMMA VerdictsGrounded ==
  ASSUME NEW reply, DOMAIN reply \subseteq {1, 2}, NEW how,
         ApplyVerdicts(reply, how), how = "fallback" => reply = <<>>,
         reply = <<>> \/ candidates' = candidates
  PROVE  Grounded'
<1> DEFINE kept == [i \in DOMAIN Threats |-> VerdictOn(Threats[i], reply)]
<1>1. /\ verdicts' = kept
      /\ sources' = sources \cup UNION { kept[i].evidence \cup kept[i].counter : i \in DOMAIN kept }
      /\ summary' = [status |-> how, total |-> Len(Threats),
                     counts |-> [s \in Statuses |-> Count(kept, s)]]
  BY DEF ApplyVerdicts
<1>2. \A i \in DOMAIN Threats : Carried(kept[i], Threats[i])
  BY VerdictCarried
<1>3. ASSUME reply = <<>>, NEW i \in DOMAIN Threats PROVE kept[i] = Unanswered
  BY <1>3 DEF VerdictOn
<1>4. Len(verdicts') = Len(Threats) /\ summary'.total = Len(Threats)
  BY <1>1, ThreatsSeq
<1>5. summary'.total = summary'.counts["supported"] + summary'.counts["contradicted"]
                       + summary'.counts["insufficient_evidence"]
  <2>1. \A i \in 1..Len(Threats) : kept[i].status \in Statuses
    BY <1>2, ThreatsSeq DEF Carried
  <2>2. Len(Threats) = Count(kept, "supported") + Count(kept, "contradicted")
                       + Count(kept, "insufficient_evidence")
    BY <2>1, ThreatsSeq, CountsAddUp
  <2> QED BY <1>1, <2>2 DEF Statuses
<1>6. ASSUME NEW i \in DOMAIN Threats
      PROVE  LET cited == verdicts'[i].evidence \cup verdicts'[i].counter
             IN /\ cited \subseteq candidates'[Threats[i]] \cap sources'
                /\ (cited = {}) = (verdicts'[i].status = "insufficient_evidence")
                /\ verdicts'[i].status = "supported" => verdicts'[i].evidence # {}
                /\ verdicts'[i].status = "contradicted" => verdicts'[i].counter # {}
                /\ summary'.status = "fallback" => cited = {}
                /\ i > MaxThreats /\ (\A j \in 1..MaxThreats : Threats[j] # Threats[i])
                     => cited = {}
  <2> DEFINE cited == kept[i].evidence \cup kept[i].counter
  <2>1. verdicts'[i] = kept[i] /\ Carried(kept[i], Threats[i])
    BY <1>1, <1>2, <1>6
  <2>2. cited \subseteq sources'
    BY <1>1, <1>6
  <2>3. reply = <<>> => cited = {}
    BY <1>3, <1>6 DEF Unanswered
  <2>4. cited \subseteq candidates'[Threats[i]]
    BY <2>1, <2>3 DEF Carried, Allowed
  <2>5. summary'.status = "fallback" => cited = {}
    BY <1>1, <2>3
  <2>6. (\A j \in 1..MaxThreats : Threats[j] # Threats[i]) => cited = {}
    BY <2>1, ExaminedEarly DEF Carried, Allowed
  <2> QED BY <2>1, <2>2, <2>4, <2>5, <2>6 DEF Carried
<1> QED BY <1>4, <1>5, <1>6 DEF Grounded

LEMMA CriticInitially == CriticInit => CriticInv
BY DEF CriticInit, CriticInv, Grounded

LEMMA CriticSteps == CriticInv /\ [CriticNext]_critic => CriticInv'
<1> SUFFICES ASSUME CriticInv, [CriticNext]_critic PROVE CriticInv'
  OBVIOUS
<1>1. CASE Skip
  <2>1. /\ verdicts' = <<>> /\ summary' = NoSummary /\ progress' = "verified"
        /\ design' => Threats = <<>>
    BY <1>1 DEF Skip, CriticInv
  <2>2. Threats = <<>> => Len(Threats) = 0 /\ DOMAIN Threats = {}
    OBVIOUS
  <2>3. design' => Grounded'
    BY <2>1, <2>2 DEF Grounded, NoSummary, Statuses
  <2> QED BY <2>1, <2>3 DEF CriticInv, Grounded
<1>2. CASE Ask
  <2>1. CASE progress' = "verified" /\ ApplyVerdicts(<<>>, "fallback")
    <3>1. Grounded'
      BY <2>1, VerdictsGrounded
    <3> QED BY <2>1, <3>1 DEF CriticInv
  <2>2. CASE progress' = "asked"
    BY <2>2 DEF CriticInv, Grounded
  <2> QED BY <1>2, <2>1, <2>2 DEF Ask
<1>3. CASE Fail
  <2>1. Grounded'
    BY <1>3, VerdictsGrounded DEF Fail
  <2> QED BY <1>3, <2>1 DEF Fail, CriticInv
<1>4. ASSUME NEW first, NEW second, CriticReply(<<first, second>>) PROVE CriticInv'
  <2>1. DOMAIN <<first, second>> \subseteq {1, 2}
    OBVIOUS
  <2>2. Grounded'
    BY <1>4, <2>1, VerdictsGrounded DEF CriticReply
  <2> QED BY <1>4, <2>2 DEF CriticReply, CriticInv
<1>5. CASE UNCHANGED critic
  BY <1>5 DEF critic, CriticInv, Grounded
<1> QED BY <1>1, <1>2, <1>3, <1>4, <1>5 DEF CriticNext

\* The critic's verdicts stand on passages that were put before the model, are
\* among the sources and are all counted (_apply_verdicts), for any documents,
\* threats, scores and replies.
THEOREM VerdictsStand == CriticSpec => []Grounded
<1>1. CriticSpec => []CriticInv
  BY CriticInitially, CriticSteps, PTL DEF CriticSpec
<1>2. CriticInv => Grounded
  BY DEF CriticInv
<1> QED BY <1>1, <1>2, PTL

-----------------------------------------------------------------------------
(***************************************************************************)
(* The risk rules, first match by first match, over the whole ontology.    *)
(***************************************************************************)
LEMMA FirstIs ==
  ASSUME NEW rules, DOMAIN rules \subseteq Int, NEW facts, NEW default,
         NEW i \in DOMAIN rules, Matches(rules[i].when, facts),
         \A j \in DOMAIN rules : j < i => ~Matches(rules[j].when, facts)
  PROVE  First(rules, facts, default) = rules[i]
<1> DEFINE matching == { j \in DOMAIN rules : Matches(rules[j].when, facts) }
<1>1. i \in matching /\ \A j \in matching : i <= j
  OBVIOUS
<1>2. \A j \in matching : (\A y \in matching : j <= y) => j = i
  BY <1>1
<1>3. Min(matching) = i
  BY <1>1, <1>2 DEF Min
<1> QED BY <1>1, <1>3 DEF First

\* The whole table of ratings.
LEMMA RatingIs ==
  ASSUME NEW facts, facts.class \in {"1", "2", "3"}, facts.access \in {"1", "2"}
  PROVE  Rating(facts) = IF facts.class = "3" THEN "low"
                         ELSE IF facts.class = "1" \/ facts.access = "1" THEN "high" ELSE "medium"
<1> DEFINE r == RatingRules
           default == [rating |-> "unknown"]
<1>1. /\ DOMAIN r = 1..4
      /\ r[1] = [when |-> [class |-> {"1", "2"}, access |-> {"1"}], rating |-> "high"]
      /\ r[2] = [when |-> [class |-> {"1"}], rating |-> "high"]
      /\ r[3] = [when |-> [class |-> {"2"}], rating |-> "medium"]
      /\ r[4] = [when |-> [class |-> {"3"}], rating |-> "low"]
  BY DEF RatingRules
<1>2. Rating(facts) = First(r, facts, default).rating
  BY DEF Rating
<1> HIDE DEF r
<1>3. Matches(r[1].when, facts) <=> facts.class \in {"1", "2"} /\ facts.access \in {"1"}
  <2>1. r[1].when = [class |-> {"1", "2"}, access |-> {"1"}]
    BY <1>1
  <2> QED BY <2>1 DEF Matches
<1>4. Matches(r[2].when, facts) <=> facts.class \in {"1"}
  <2>1. r[2].when = [class |-> {"1"}]
    BY <1>1
  <2> QED BY <2>1 DEF Matches
<1>5. Matches(r[3].when, facts) <=> facts.class \in {"2"}
  <2>1. r[3].when = [class |-> {"2"}]
    BY <1>1
  <2> QED BY <2>1 DEF Matches
<1>6. Matches(r[4].when, facts) <=> facts.class \in {"3"}
  <2>1. r[4].when = [class |-> {"3"}]
    BY <1>1
  <2> QED BY <2>1 DEF Matches
<1>7. CASE facts.class \in {"1", "2"} /\ facts.access = "1"
  <2>1. Matches(r[1].when, facts)
    BY <1>3, <1>7
  <2>2. \A j \in 1..4 : j < 1 => ~Matches(r[j].when, facts)
    OBVIOUS
  <2>3. First(r, facts, default) = r[1]
    <3>1. 1 \in DOMAIN r /\ DOMAIN r \subseteq Int /\ \A j \in DOMAIN r : j < 1 => ~Matches(r[j].when, facts)
      BY <1>1, <2>2
    <3> HIDE DEF default
    <3> QED BY <2>1, <3>1, FirstIs
  <2> QED BY <1>1, <1>2, <1>7, <2>3
<1>8. CASE facts.class = "1" /\ facts.access = "2"
  <2>1. Matches(r[2].when, facts)
    BY <1>4, <1>8
  <2>2. \A j \in 1..4 : j < 2 => ~Matches(r[j].when, facts)
    <3>1. \A j \in 1..4 : j < 2 => j \in {1}
      OBVIOUS
    <3> QED BY <3>1, <1>3, <1>8
  <2>3. First(r, facts, default) = r[2]
    BY <1>1, <2>1, <2>2, FirstIs
  <2> QED BY <1>1, <1>2, <1>8, <2>3
<1>9. CASE facts.class = "2" /\ facts.access = "2"
  <2>1. Matches(r[3].when, facts)
    BY <1>5, <1>9
  <2>2. \A j \in 1..4 : j < 3 => ~Matches(r[j].when, facts)
    <3>1. \A j \in 1..4 : j < 3 => j \in {1, 2}
      OBVIOUS
    <3> QED BY <3>1, <1>3, <1>4, <1>9
  <2>3. First(r, facts, default) = r[3]
    BY <1>1, <2>1, <2>2, FirstIs
  <2> QED BY <1>1, <1>2, <1>9, <2>3
<1>10. CASE facts.class = "3"
  <2>1. Matches(r[4].when, facts)
    BY <1>6, <1>10
  <2>2. \A j \in 1..4 : j < 4 => ~Matches(r[j].when, facts)
    <3>1. \A j \in 1..4 : j < 4 => j \in {1, 2, 3}
      OBVIOUS
    <3> QED BY <3>1, <1>3, <1>4, <1>5, <1>10
  <2>3. First(r, facts, default) = r[4]
    BY <1>1, <2>1, <2>2, FirstIs
  <2> QED BY <1>1, <1>2, <1>10, <2>3
<1> QED BY <1>7, <1>8, <1>9, <1>10

\* The whole table of levels: by class, then by access.
LEMMA LevelIs ==
  ASSUME NEW facts, facts.class \in {"1", "2", "3"}, facts.access \in {"1", "2"}
  PROVE  Level(facts) = (IF facts.class = "1" THEN 0 ELSE IF facts.class = "2" THEN 2 ELSE 4)
                        + (IF facts.access = "1" THEN 1 ELSE 2)
<1> DEFINE r == LevelRules
           default == [level |-> Unknown]
           c(i) == IF i \in {1, 2} THEN "1" ELSE IF i \in {3, 4} THEN "2" ELSE "3"
           a(i) == IF i \in {1, 3, 5} THEN "1" ELSE "2"
<1>1. /\ DOMAIN r = 1..6
      /\ r[1] = [when |-> [class |-> {"1"}, access |-> {"1"}], level |-> 1]
      /\ r[2] = [when |-> [class |-> {"1"}, access |-> {"2"}], level |-> 2]
      /\ r[3] = [when |-> [class |-> {"2"}, access |-> {"1"}], level |-> 3]
      /\ r[4] = [when |-> [class |-> {"2"}, access |-> {"2"}], level |-> 4]
      /\ r[5] = [when |-> [class |-> {"3"}, access |-> {"1"}], level |-> 5]
      /\ r[6] = [when |-> [class |-> {"3"}, access |-> {"2"}], level |-> 6]
  <2>1. DOMAIN r = 1..6
    BY DEF LevelRules
  <2>2. r[1] = [when |-> [class |-> {"1"}, access |-> {"1"}], level |-> 1]
    BY DEF LevelRules
  <2>3. r[2] = [when |-> [class |-> {"1"}, access |-> {"2"}], level |-> 2]
    BY DEF LevelRules
  <2>4. r[3] = [when |-> [class |-> {"2"}, access |-> {"1"}], level |-> 3]
    BY DEF LevelRules
  <2>5. r[4] = [when |-> [class |-> {"2"}, access |-> {"2"}], level |-> 4]
    BY DEF LevelRules
  <2>6. r[5] = [when |-> [class |-> {"3"}, access |-> {"1"}], level |-> 5]
    BY DEF LevelRules
  <2>7. r[6] = [when |-> [class |-> {"3"}, access |-> {"2"}], level |-> 6]
    BY DEF LevelRules
  <2> QED BY <2>1, <2>2, <2>3, <2>4, <2>5, <2>6, <2>7
<1>2. Level(facts) = First(r, facts, default).level
  BY DEF Level
<1> HIDE DEF r
<1>3. ASSUME NEW i \in 1..6
      PROVE  r[i].when = [class |-> {c(i)}, access |-> {a(i)}] /\ r[i].level = i
  BY <1>1
<1>4. ASSUME NEW i \in 1..6
      PROVE  Matches(r[i].when, facts) <=> facts.class = c(i) /\ facts.access = a(i)
  BY <1>3 DEF Matches
<1>5. \E i \in 1..6 : c(i) = facts.class /\ a(i) = facts.access
  OBVIOUS
<1>6. PICK i \in 1..6 : c(i) = facts.class /\ a(i) = facts.access
  BY <1>5
<1>7. \A j \in 1..6 : j < i => c(j) # c(i) \/ a(j) # a(i)
  OBVIOUS
<1>8. First(r, facts, default) = r[i]
  <2>1. Matches(r[i].when, facts)
    BY <1>4, <1>6
  <2>2. \A j \in 1..6 : j < i => ~Matches(r[j].when, facts)
    BY <1>4, <1>6, <1>7
  <2> HIDE DEF c, a
  <2> QED BY <1>1, <2>1, <2>2, FirstIs
<1>9. Level(facts) = i
  BY <1>2, <1>3, <1>8
<1> QED BY <1>6, <1>9

LEMMA RequirementsAre ==
  ASSUME NEW facts, NEW rating
  PROVE  Requirements(facts, rating)
           = IF facts.release = "1" \/ rating \in {"high", "medium"} THEN Basic \cup Design ELSE Basic
<1> DEFINE rule == BaseRule(facts.release)
           known == [f \in DOMAIN facts \cup {"rating"} |-> IF f = "rating" THEN rating ELSE facts[f]]
           extra == { a \in rule.additions : Matches(a.when, known) }
<1>1. Matches(Always, known)
  BY DEF Matches, Always
<1>2. known.rating = rating
  OBVIOUS
<1> HIDE DEF known
<1>3. CASE facts.release = "1"
  <2>1. rule.when = Always /\ rule.requirements = Basic \cup Design /\ rule.additions = {}
    BY <1>3 DEF BaseRule
  <2>2. extra = {}
    BY <2>1
  <2>3. Requirements(facts, rating) = rule.requirements \cup UNION { a.add : a \in extra }
    BY <1>1, <2>1 DEF Requirements, known
  <2> QED BY <1>3, <2>1, <2>2, <2>3
<1>4. CASE facts.release # "1"
  <2> DEFINE more == [when |-> [rating |-> {"high", "medium"}], add |-> Design]
  <2>1. rule.when = Always /\ rule.requirements = Basic /\ rule.additions = {more}
    BY <1>4 DEF BaseRule
  <2>2. Matches(more.when, known) <=> rating \in {"high", "medium"}
    BY <1>2 DEF Matches
  <2>3. Requirements(facts, rating) = rule.requirements \cup UNION { a.add : a \in extra }
    BY <1>1, <2>1 DEF Requirements, known
  <2>4. CASE rating \in {"high", "medium"}
    <3>1. extra = {more}
      BY <2>1, <2>2, <2>4
    <3>2. more.add = Design
      OBVIOUS
    <3>3. UNION { a.add : a \in extra } = Design
      <4> HIDE DEF more, extra
      <4> QED BY <3>1, <3>2
    <3> QED BY <2>1, <2>3, <2>4, <3>3
  <2>5. CASE rating \notin {"high", "medium"}
    <3>1. extra = {}
      BY <2>1, <2>2, <2>5
    <3>2. UNION { a.add : a \in extra } = {}
      BY <3>1
    <3> QED BY <1>4, <2>1, <2>3, <2>5, <3>2
  <2> QED BY <2>4, <2>5
<1> QED BY <1>3, <1>4

\* What the log holds: what the rules say of something that was asked about.
Asked == Intakes \cup { FactsOf(row) : row \in ProjectRows }
Decided ==
  { [facts |-> f, decision |-> Evaluate(f), shown |-> Evaluate(f).rating] : f \in Asked }
  \cup { [facts |-> f, decision |-> Evaluate(f), shown |-> Severity(Evaluate(f))] : f \in Asked }

RulesInv == log \in Seq(Decided)

LEMMA RulesInitially == RulesInit => RulesInv
BY DEF RulesInit, RulesInv

LEMMA RulesSteps == RulesInv /\ [RulesNext]_log => RulesInv'
<1> SUFFICES ASSUME RulesInv, [RulesNext]_log PROVE RulesInv'
  OBVIOUS
<1>1. ASSUME NEW facts \in Intakes, EvaluateRequest(facts) PROVE RulesInv'
  <2> DEFINE entry == [facts |-> facts, decision |-> Evaluate(facts), shown |-> Evaluate(facts).rating]
  <2>1. facts \in Asked
    BY DEF Asked
  <2>2. entry \in Decided
    BY <2>1 DEF Decided
  <2> QED BY <1>1, <2>2 DEF EvaluateRequest, Record, RulesInv
<1>2. ASSUME NEW row \in ProjectRows, AssessProject(row) PROVE RulesInv'
  <2> DEFINE f == FactsOf(row)
             entry == [facts |-> f, decision |-> Evaluate(f), shown |-> Severity(Evaluate(f))]
  <2>1. f \in Asked
    BY DEF Asked
  <2>2. entry \in Decided
    BY <2>1 DEF Decided
  <2> QED BY <1>2, <2>2 DEF AssessProject, Record, RulesInv
<1>3. CASE UNCHANGED log
  BY <1>3 DEF RulesInv
<1> QED BY <1>1, <1>2, <1>3 DEF RulesNext

\* A known decision, by the three facts that it depends on.
LEMMA DecidedAs ==
  ASSUME NEW e \in Decided, Known(e)
  PROVE  /\ e.decision.rating = Rating(e.facts)
         /\ e.decision.level = Level(e.facts)
         /\ e.decision.profile = IF Level(e.facts) \in 1..3 THEN "full_ssdlc" ELSE "essential_ssdlc"
         /\ e.decision.requirements = Requirements(e.facts, Rating(e.facts))
         /\ e.shown = Rating(e.facts)
<1>1. PICK f \in Asked :
        \/ e = [facts |-> f, decision |-> Evaluate(f), shown |-> Evaluate(f).rating]
        \/ e = [facts |-> f, decision |-> Evaluate(f), shown |-> Severity(Evaluate(f))]
  BY DEF Decided
<1>2. e.facts = f /\ e.decision = Evaluate(f) /\ Evaluate(f).valid
  BY <1>1 DEF Known
<1>3. Evaluate(f) = [valid |-> TRUE, rating |-> Rating(f), level |-> Level(f),
                     profile |-> IF Level(f) \in 1..3 THEN "full_ssdlc" ELSE "essential_ssdlc",
                     requirements |-> Requirements(f, Rating(f))]
  BY <1>2 DEF Evaluate
<1>4. Rating(f) \in {"low", "medium", "high"}
  BY <1>2, RatingIs DEF Known
<1>5. Severity(Evaluate(f)) = Rating(f)
  BY <1>3, <1>4 DEF Severity
<1> QED BY <1>1, <1>2, <1>3, <1>5

LEMMA ClassPositions ==
  /\ Position("1", Classes) = 1 /\ Position("2", Classes) = 2 /\ Position("3", Classes) = 3
<1>1. DOMAIN Classes = 1..3 /\ Classes[1] = "1" /\ Classes[2] = "2" /\ Classes[3] = "3"
  BY DEF Classes
<1> QED BY <1>1 DEF Position

LEMMA MoreIsAsked ==
  ASSUME NEW a \in Decided, NEW b \in Decided, Known(a), Known(b),
         Position(a.facts.class, Classes) <= Position(b.facts.class, Classes),
         Position(a.facts.access, Classes) <= Position(b.facts.access, Classes),
         b.facts.release = "1" => a.facts.release = "1"
  PROVE  /\ b.decision.requirements \subseteq a.decision.requirements
         /\ a.decision.level <= b.decision.level
         /\ b.decision.profile = "full_ssdlc" => a.decision.profile = "full_ssdlc"
<1> DEFINE order(x) == IF x = "1" THEN 1 ELSE IF x = "2" THEN 2 ELSE 3
<1>1. /\ a.facts.class \in {"1", "2", "3"} /\ a.facts.access \in {"1", "2"}
      /\ b.facts.class \in {"1", "2", "3"} /\ b.facts.access \in {"1", "2"}
  BY DEF Known
<1>2. \A x \in {"1", "2", "3"} : Position(x, Classes) = order(x)
  BY ClassPositions
<1>3. order(a.facts.class) <= order(b.facts.class) /\ order(a.facts.access) <= order(b.facts.access)
  BY <1>1, <1>2
<1>4. Level(a.facts) \in 1..6 /\ Level(b.facts) \in 1..6 /\ Level(a.facts) <= Level(b.facts)
  <2>1. Level(a.facts) = (IF a.facts.class = "1" THEN 0 ELSE IF a.facts.class = "2" THEN 2 ELSE 4)
                         + (IF a.facts.access = "1" THEN 1 ELSE 2)
    BY <1>1, LevelIs
  <2>2. Level(b.facts) = (IF b.facts.class = "1" THEN 0 ELSE IF b.facts.class = "2" THEN 2 ELSE 4)
                         + (IF b.facts.access = "1" THEN 1 ELSE 2)
    BY <1>1, LevelIs
  <2> QED BY <1>1, <1>3, <2>1, <2>2
<1>5. Rating(b.facts) \in {"high", "medium"} => Rating(a.facts) \in {"high", "medium"}
  BY <1>1, <1>3, RatingIs
<1>6. Requirements(b.facts, Rating(b.facts)) \subseteq Requirements(a.facts, Rating(a.facts))
  BY <1>5, RequirementsAre
<1> QED BY <1>4, <1>6, DecidedAs

LEMMA OneProfile ==
  ASSUME NEW e \in Decided, Known(e)
  PROVE  /\ e.decision.profile = DerivedProfile(e.decision.level, NoValue)
         /\ e.decision.profile = DerivedProfile(e.decision.level, e.shown)
<1>1. e.facts.class \in {"1", "2", "3"} /\ e.facts.access \in {"1", "2"}
  BY DEF Known
<1>2. Level(e.facts) = (IF e.facts.class = "1" THEN 0 ELSE IF e.facts.class = "2" THEN 2 ELSE 4)
                       + (IF e.facts.access = "1" THEN 1 ELSE 2)
  BY <1>1, LevelIs
<1>3. Level(e.facts) \in 1..6 /\ (Level(e.facts) \in 1..3 <=> Level(e.facts) <= 3)
  BY <1>1, <1>2
<1>4. Rating(e.facts) \in {"low", "medium", "high"} /\ (Rating(e.facts) = "high" <=> Level(e.facts) <= 3)
  BY <1>1, <1>2, RatingIs
<1> QED BY <1>3, <1>4, DecidedAs DEF DerivedProfile, Unknown

\* Whatever is asked about, the decision is one of the tables or the default.
LEMMA FirstAmong ==
  ASSUME NEW rules, NEW n \in Nat, DOMAIN rules = 1..n, NEW facts, NEW default
  PROVE  First(rules, facts, default) = default \/ \E i \in 1..n : First(rules, facts, default) = rules[i]
<1> DEFINE matching == { i \in DOMAIN rules : Matches(rules[i].when, facts) }
<1>1. CASE matching = {}
  BY <1>1 DEF First
<1>2. CASE matching # {}
  <2>1. Min(matching) \in matching
    <3>1. matching \in SUBSET Nat
      OBVIOUS
    <3> HIDE DEF matching
    <3> QED BY <1>2, <3>1, LeastNumber
  <2> QED BY <1>2, <2>1 DEF First
<1> QED BY <1>1, <1>2

LEMMA EvaluateTyped ==
  ASSUME NEW facts
  PROVE  /\ Evaluate(facts).level \in 0..6
         /\ Evaluate(facts).rating \in {"low", "medium", "high", "unknown"}
         /\ Evaluate(facts).profile \in {"full_ssdlc", "essential_ssdlc", "unknown"}
<1>1. Level(facts) \in 0..6
  <2>1. DOMAIN LevelRules = 1..6 /\ \A i \in 1..6 : LevelRules[i].level \in 0..6
    BY DEF LevelRules
  <2>2. \/ First(LevelRules, facts, [level |-> Unknown]) = [level |-> Unknown]
        \/ \E i \in 1..6 : First(LevelRules, facts, [level |-> Unknown]) = LevelRules[i]
    <3> DEFINE default == [level |-> Unknown]
               n == 6
    <3>1. DOMAIN LevelRules = 1..n /\ n \in Nat
      BY <2>1
    <3> HIDE DEF default, n
    <3>2. \/ First(LevelRules, facts, default) = default
          \/ \E i \in 1..n : First(LevelRules, facts, default) = LevelRules[i]
      BY <3>1, FirstAmong
    <3> QED BY <3>2 DEF default, n
  <2> QED BY <2>1, <2>2 DEF Level, Unknown
<1>2. Rating(facts) \in {"low", "medium", "high", "unknown"}
  <2>1. /\ DOMAIN RatingRules = 1..4
        /\ \A i \in 1..4 : RatingRules[i].rating \in {"low", "medium", "high", "unknown"}
    BY DEF RatingRules
  <2>2. \/ First(RatingRules, facts, [rating |-> "unknown"]) = [rating |-> "unknown"]
        \/ \E i \in 1..4 : First(RatingRules, facts, [rating |-> "unknown"]) = RatingRules[i]
    <3> DEFINE default == [rating |-> "unknown"]
               n == 4
    <3>1. DOMAIN RatingRules = 1..n /\ n \in Nat
      BY <2>1
    <3> HIDE DEF default, n
    <3>2. \/ First(RatingRules, facts, default) = default
          \/ \E i \in 1..n : First(RatingRules, facts, default) = RatingRules[i]
      BY <3>1, FirstAmong
    <3> QED BY <3>2 DEF default, n
  <2> QED BY <2>1, <2>2 DEF Rating
<1>3. CASE facts.hosting \notin Hosting(facts.solution)
  BY <1>3 DEF Evaluate, Unknown
<1>4. CASE facts.hosting \in Hosting(facts.solution)
  BY <1>1, <1>2, <1>4 DEF Evaluate
<1> QED BY <1>3, <1>4

\* Every decision has a level, a rating and a profile of those there are, for
\* whatever facts are asked about (s2o_rule_engine.py).
THEOREM RuleTypes == RulesSpec => []RulesOK
<1>1. RulesSpec => []RulesInv
  BY RulesInitially, RulesSteps, PTL DEF RulesSpec
<1>2. RulesInv => RulesOK
  <2> SUFFICES ASSUME RulesInv, NEW i \in DOMAIN log
               PROVE  /\ log[i].decision.level \in 0..6
                      /\ log[i].decision.rating \in {"low", "medium", "high", "unknown"}
                      /\ log[i].decision.profile \in {"full_ssdlc", "essential_ssdlc", "unknown"}
    BY DEF RulesOK
  <2>1. log[i] \in Decided
    BY DEF RulesInv
  <2>2. PICK f : log[i].decision = Evaluate(f)
    BY <2>1 DEF Decided
  <2> QED BY <2>2, EvaluateTyped
<1> QED BY <1>1, <1>2, PTL

\* Of any two intakes or projects, the one about more sensitive data is never
\* asked for less, and both ways to a control profile agree (evaluate_risk and
\* _derive_control_profile), whatever the intakes and the projects are.
THEOREM RiskIsMonotone == RulesSpec => []RiskMonotone
<1>1. RulesSpec => []RulesInv
  BY RulesInitially, RulesSteps, PTL DEF RulesSpec
<1>2. RulesInv => RiskMonotone
  <2> SUFFICES ASSUME RulesInv PROVE RiskMonotone
    OBVIOUS
  <2>1. \A i \in DOMAIN log : log[i] \in Decided
    BY DEF RulesInv
  <2>2. NeverAskedLess
    BY <2>1, MoreIsAsked DEF NeverAskedLess
  <2>3. ProfilesAgree
    BY <2>1, OneProfile DEF ProfilesAgree
  <2> QED BY <2>2, <2>3 DEF RiskMonotone
<1> QED BY <1>1, <1>2, PTL

-----------------------------------------------------------------------------
(***************************************************************************)
(* Controls: the rows of projects are well formed, and what the summary    *)
(* clears was approved by a human.                                         *)
(***************************************************************************)

\* What Consistent says of one row.
RowOK(row) ==
  /\ row.status = "pending" => row.applicable
  /\ row.status = "not_applicable" => ~row.applicable
  /\ row.status \in Decisions => row.decision = row.status

\* Rows are only those of projects, and so are generations.
OfProjects ==
  /\ \A p \in Projects : ~project[p].exists => \A k \in Keys : rows[p][k] = NoRow
  /\ \A p \in jobs : project[p].exists

ControlsInv == TypeOK /\ OfProjects /\ Consistent /\ LockedComplete /\ Fresh

-----------------------------------------------------------------------------
(***************************************************************************)
(* The operators.                                                          *)
(***************************************************************************)
LEMMA NoRowIsNone == NoRow \notin Row
BY DEF NoRow, Row, Undecided, Decisions

LEMMA KeyIds == \A k \in Keys : k[1] \in ControlIds
BY DEF Keys

LEMMA AppliesBoolean ==
  \A c, prj, sheet : Applies(c, prj, sheet) \in BOOLEAN
BY DEF Applies

\* Working a row out again keeps it well formed and sets what applies.
LEMMA EvaluatedRow ==
  ASSUME NEW row \in Row \cup {NoRow}, RowOK(row), NEW applicable \in BOOLEAN
  PROVE  /\ Evaluated(row, applicable) \in Row
         /\ RowOK(Evaluated(row, applicable))
         /\ Evaluated(row, applicable).applicable = applicable
<1>1. CASE row = NoRow
  <2> DEFINE status == IF applicable THEN "pending" ELSE "not_applicable"
  <2>1. row.status = "absent" /\ row.decision = "none" /\ row.evidence = FALSE
    BY <1>1 DEF NoRow
  <2>2. Evaluated(row, applicable) = [row EXCEPT !.applicable = applicable, !.status = status]
    BY <2>1 DEF Evaluated
  <2>3. Evaluated(row, applicable) =
          [applicable |-> applicable, status |-> status, decision |-> "none", evidence |-> FALSE]
    BY <1>1, <2>2 DEF NoRow
  <2> QED BY <2>3 DEF Row, RowOK, Undecided, Decisions
<1>2. CASE row \in Row
  <2>1. CASE row.status \in Undecided
    <3>1. /\ Evaluated(row, applicable) \in Row
          /\ Evaluated(row, applicable).status = IF applicable THEN "pending" ELSE "not_applicable"
          /\ Evaluated(row, applicable).applicable = applicable
      BY <1>2, <2>1 DEF Evaluated, Row, Undecided, Decisions
    <3> QED BY <3>1 DEF RowOK, Decisions
  <2>2. CASE row.status \notin Undecided
    <3>1. row.status # "absent"
      BY <1>2 DEF Row, Undecided, Decisions
    <3>2. /\ Evaluated(row, applicable) \in Row
          /\ Evaluated(row, applicable).status = row.status
          /\ Evaluated(row, applicable).decision = row.decision
          /\ Evaluated(row, applicable).applicable = applicable
      BY <1>2, <2>2, <3>1 DEF Evaluated, Row
    <3> QED BY <2>2, <3>2 DEF RowOK, Undecided
  <2> QED BY <2>1, <2>2
<1> QED BY <1>1, <1>2

\* Applicability depends on the answers that Inputs names, and no others.
LEMMA InputsSuffice ==
  ASSUME NEW c, NEW prj, NEW s, NEW t, \A q \in Inputs(c, prj) : s[q] = t[q]
  PROVE  Applies(c, prj, s) = Applies(c, prj, t)
<1>1. ASSUME NEW q \in Inputs(c, prj) PROVE Fact(q, s, prj) = Fact(q, t, prj)
  BY <1>1 DEF Fact
<1>2. c \in HighRisk => Fact("ai_eu_risk_class", s, prj) = Fact("ai_eu_risk_class", t, prj)
  BY <1>1 DEF Inputs
<1>3. c \in AiPrefixed => Fact("involves_ai_ml", s, prj) = Fact("involves_ai_ml", t, prj)
  BY <1>1 DEF Inputs
<1>4. (c \in EuOnly \/ \E f \in Sources(c, prj.frameworks) \ {Generic} : Region[f] # NoRegion)
        => Fact("geographic_scope", s, prj) = Fact("geographic_scope", t, prj)
  BY <1>1 DEF Inputs
<1> QED BY <1>2, <1>3, <1>4 DEF Applies

-----------------------------------------------------------------------------
(***************************************************************************)
(* One lemma per operation: each keeps the types and the well formed rows. *)
(***************************************************************************)
Core == TypeOK /\ OfProjects /\ Consistent

LEMMA RowsOK ==
  ASSUME TypeOK, Consistent, NEW p \in Projects, NEW k \in Keys
  PROVE  rows[p][k] \in Row \cup {NoRow} /\ RowOK(rows[p][k])
BY DEF TypeOK, Consistent, RowOK

\* The rows that a generation leaves.
LEMMA GenerateRows ==
  ASSUME Core, NEW p \in Projects, NEW fs \in SUBSET Frameworks, NEW again \in BOOLEAN,
         Generate(p, fs, again)
  PROVE  \A k \in Keys :
           /\ k \in ControlSet(fs) =>
                /\ rows'[p][k] \in Row
                /\ rows'[p][k].applicable = Applies(k[1], project'[p], Blank)
           /\ rows'[p][k] \in Row \cup {NoRow}
           /\ RowOK(rows'[p][k])
<1> DEFINE kept == IF again THEN [k \in Keys |-> NoRow] ELSE rows[p]
           new == [project[p] EXCEPT !.frameworks = fs, !.locked = TRUE]
<1> SUFFICES ASSUME NEW k \in Keys
             PROVE  /\ k \in ControlSet(fs) =>
                         /\ rows'[p][k] \in Row
                         /\ rows'[p][k].applicable = Applies(k[1], project'[p], Blank)
                    /\ rows'[p][k] \in Row \cup {NoRow}
                    /\ RowOK(rows'[p][k])
  OBVIOUS
<1>1. kept[k] \in Row \cup {NoRow} /\ RowOK(kept[k])
  <2>1. RowOK(NoRow)
    BY DEF RowOK, NoRow, Decisions
  <2> QED BY <2>1, RowsOK DEF Core
<1>2. rows'[p][k] = IF k \in ControlSet(fs) THEN Evaluated(kept[k], Applies(k[1], new, Blank)) ELSE kept[k]
  BY DEF Generate, Core, TypeOK
<1>3. project'[p] = new
  BY DEF Generate, Core, TypeOK
<1> HIDE DEF kept, new
<1> QED BY <1>1, <1>2, <1>3, EvaluatedRow, AppliesBoolean

LEMMA GenerateCore ==
  ASSUME Core, NEW p \in Projects, NEW fs \in SUBSET Frameworks, NEW again \in BOOLEAN,
         project[p].exists, jobs' \subseteq jobs, UNCHANGED <<config, asked, answers>>, changes' \in Nat,
         Generate(p, fs, again)
  PROVE  Core'
<1>1. /\ project' = [project EXCEPT ![p] = [project[p] EXCEPT !.frameworks = fs, !.locked = TRUE]]
      /\ outdated' \in [Projects -> SUBSET ControlIds]
  BY DEF Generate, Core, TypeOK
<1>2. project' \in [Projects -> Project]
  BY <1>1 DEF Core, TypeOK, Project
<1>3. \A j \in Projects : project'[j].exists = project[j].exists
  BY <1>1 DEF Core, TypeOK, Project
<1>4. /\ DOMAIN rows' = Projects /\ rows' = [j \in Projects |-> rows'[j]]
      /\ \A j \in Projects : j # p => rows'[j] = rows[j]
      /\ rows'[p] = [k \in Keys |-> rows'[p][k]]
  BY DEF Generate, Core, TypeOK
<1>5. \A k \in Keys : rows'[p][k] \in Row \cup {NoRow} /\ RowOK(rows'[p][k])
  BY GenerateRows
<1>6. rows' \in [Projects -> [Keys -> Row \cup {NoRow}]]
  BY <1>4, <1>5 DEF Core, TypeOK
<1>7. Consistent'
  BY <1>4, <1>5 DEF Core, Consistent, RowOK
<1>8. OfProjects'
  <2>1. \A j \in Projects : ~project'[j].exists => rows'[j] = rows[j]
    BY <1>3, <1>4
  <2>2. jobs' \subseteq Projects /\ \A j \in jobs' : project'[j].exists
    BY <1>3 DEF Core, OfProjects, TypeOK
  <2> QED BY <1>3, <2>1, <2>2 DEF Core, OfProjects
<1>9. TypeOK'
  BY <1>1, <1>2, <1>6 DEF Core, TypeOK
<1> QED BY <1>7, <1>8, <1>9 DEF Core

LEMMA CreateProjectCore ==
  ASSUME Core, NEW p \in Projects, NEW fs \in SUBSET Frameworks, NEW c \in Profiles,
         CreateProject(p, fs, c.ai, c.risk)
  PROVE  Core'
<1>1. project' \in [Projects -> Project]
  BY ProfilesAssumption DEF CreateProject, Core, TypeOK, Project
<1>2. TypeOK'
  BY <1>1 DEF CreateProject, Change, Core, TypeOK
<1>3. OfProjects'
  BY DEF CreateProject, Core, TypeOK, OfProjects
<1> QED BY <1>2, <1>3 DEF CreateProject, Core, Consistent

LEMMA UpdateProjectCore ==
  ASSUME Core, NEW p \in Projects, NEW fs \in SUBSET Frameworks, NEW c \in Profiles,
         UpdateProject(p, fs, c.ai, c.risk)
  PROVE  Core'
<1>1. project' \in [Projects -> Project]
  <2> DEFINE new == [project[p] EXCEPT !.frameworks = fs, !.ai = c.ai, !.risk = c.risk]
  <2>1. project[p] \in Project
    BY DEF Core, TypeOK
  <2>2. new \in Project
    BY <2>1, ProfilesAssumption DEF Project
  <2>3. project' = [project EXCEPT ![p] = new]
    BY <2>1 DEF UpdateProject, Core, TypeOK, Project
  <2> HIDE DEF new
  <2> QED BY <2>2, <2>3 DEF Core, TypeOK
<1>2. \A j \in Projects : project'[j].exists = project[j].exists
  BY DEF UpdateProject, Core, TypeOK, Project
<1>3. TypeOK'
  BY <1>1 DEF UpdateProject, Change, Core, TypeOK
<1>4. OfProjects'
  BY <1>2 DEF UpdateProject, Core, OfProjects, Idle
<1> QED BY <1>3, <1>4 DEF UpdateProject, Core, Consistent

LEMMA UpdateOrgCore ==
  ASSUME Core, NEW fs \in SUBSET Frameworks, UpdateOrgFrameworks(fs)
  PROVE  Core'
BY DEF UpdateOrgFrameworks, Change, Core, TypeOK, OfProjects, Consistent

LEMMA GetQuestionnaireCore ==
  ASSUME Core, NEW p \in Projects, GetQuestionnaire(p)
  PROVE  Core'
BY DEF GetQuestionnaire, Core, TypeOK, OfProjects, Consistent

LEMMA AbandonCore == ASSUME Core, Abandon PROVE Core'
BY DEF Abandon, Core, TypeOK, OfProjects, Consistent

-----------------------------------------------------------------------------
\* A submission of answers: what becomes of each row.
AnswersNamed(incoming) == { q \in Questions : incoming[q] # NoAnswer }
AnswersAfter(p, incoming, S) == [q \in Questions |-> IF q \in S THEN incoming[q] ELSE answers[p][q]]

LEMMA AnswerRows ==
  ASSUME Core, NEW p \in Projects, NEW incoming \in Sheets, SubmitAnswers(p, incoming), NEW k \in Keys
  PROVE  /\ rows'[p][k] \in Row \cup {NoRow} /\ RowOK(rows'[p][k])
         /\ rows[p][k] = NoRow => rows'[p][k] = NoRow
         /\ rows[p][k] # NoRow => rows'[p][k] \in Row
         /\ rows[p][k] # NoRow => rows'[p][k].applicable =
              IF k[1] \in Touched(p, AnswersNamed(incoming))
              THEN Applies(k[1], project[p], AnswersAfter(p, incoming, AnswersNamed(incoming)))
              ELSE rows[p][k].applicable
<1> DEFINE row == rows[p][k]
           holds == Applies(k[1], project[p], AnswersAfter(p, incoming, AnswersNamed(incoming)))
<1>1. rows'[p][k] =
        IF /\ k[1] \in Touched(p, AnswersNamed(incoming))
           /\ row # NoRow
           /\ row.applicable # holds
        THEN Evaluated(row, ~row.applicable)
        ELSE row
  BY DEF SubmitAnswers, AnswersNamed, AnswersAfter, Core, TypeOK
<1>2. row \in Row \cup {NoRow} /\ RowOK(row)
  BY RowsOK DEF Core
<1>3. row # NoRow => row \in Row /\ row.applicable \in BOOLEAN
  BY <1>2 DEF Row
<1>4. holds \in BOOLEAN
  BY AppliesBoolean
<1> HIDE DEF row, holds
<1>5. CASE row = NoRow
  BY <1>1, <1>2, <1>5 DEF row
<1>6. CASE row # NoRow /\ k[1] \in Touched(p, AnswersNamed(incoming)) /\ row.applicable # holds
  <2>1. rows'[p][k] = Evaluated(row, ~row.applicable)
    BY <1>1, <1>6
  <2>2. (~row.applicable) = holds
    BY <1>3, <1>4, <1>6
  <2>3. /\ Evaluated(row, ~row.applicable) \in Row /\ RowOK(Evaluated(row, ~row.applicable))
        /\ Evaluated(row, ~row.applicable).applicable = (~row.applicable)
    BY <1>2, <1>3, <1>6, EvaluatedRow
  <2> QED BY <1>6, <2>1, <2>2, <2>3 DEF row, holds
<1>7. CASE row # NoRow /\ ~(k[1] \in Touched(p, AnswersNamed(incoming)) /\ row.applicable # holds)
  <2>1. rows'[p][k] = row
    BY <1>1, <1>7
  <2> QED BY <1>2, <1>3, <1>7, <2>1 DEF row, holds
<1> QED BY <1>5, <1>6, <1>7

LEMMA SheetsMerge ==
  ASSUME TypeOK, NEW p \in Projects, NEW incoming \in Sheets, NEW S
  PROVE  AnswersAfter(p, incoming, S) \in Sheets
<1>1. \A q \in Questions : AnswersAfter(p, incoming, S)[q] \in Values(q) \cup {NoAnswer}
  BY DEF AnswersAfter, Sheets, TypeOK
<1> QED BY <1>1 DEF AnswersAfter, Sheets

LEMMA SubmitAnswersCore ==
  ASSUME Core, NEW p \in Projects, NEW incoming \in Sheets, SubmitAnswers(p, incoming)
  PROVE  Core'
<1>1. answers' = [answers EXCEPT ![p] = AnswersAfter(p, incoming, AnswersNamed(incoming) \cap asked[p])]
  BY DEF SubmitAnswers, AnswersNamed, AnswersAfter
<1>2. answers' \in [Projects -> Sheets]
  BY <1>1, SheetsMerge DEF Core, TypeOK
<1>3. /\ rows' = [j \in Projects |-> rows'[j]]
      /\ \A j \in Projects : j # p => rows'[j] = rows[j]
      /\ rows'[p] = [k \in Keys |-> rows'[p][k]]
  BY DEF SubmitAnswers, Core, TypeOK
<1>4. rows' \in [Projects -> [Keys -> Row \cup {NoRow}]]
  BY <1>3, AnswerRows DEF Core, TypeOK
<1>5. outdated' \in [Projects -> SUBSET ControlIds]
  BY DEF SubmitAnswers, Touched, Core, TypeOK
<1>6. changes' \in Nat /\ UNCHANGED <<project, config, asked, jobs>>
  BY DEF SubmitAnswers, Change, Core, TypeOK
<1>7. Consistent'
  BY <1>3, AnswerRows DEF Core, Consistent, RowOK
<1>8. OfProjects'
  BY <1>3, <1>6, AnswerRows DEF Core, OfProjects
<1> QED BY <1>2, <1>4, <1>5, <1>6, <1>7, <1>8 DEF Core, TypeOK

\* Evidence and review change one row and not whether it applies.
LEMMA ReviewRows ==
  ASSUME Core, NEW p \in Projects, NEW k \in Keys,
         \/ AddEvidence(p, k)
         \/ \E given \in Decisions : SubmitHumanReview(p, k, given)
  PROVE  /\ rows[p][k] # NoRow
         /\ rows'[p][k] \in Row /\ RowOK(rows'[p][k])
         /\ rows'[p][k].applicable = rows[p][k].applicable
         /\ \A j \in Projects, i \in Keys : j # p \/ i # k => rows'[j][i] = rows[j][i]
         /\ rows' \in [Projects -> [Keys -> Row \cup {NoRow}]]
<1>1. rows[p][k] \in Row /\ rows[p][k] # NoRow
  BY RowsOK DEF Core, AddEvidence, SubmitHumanReview, Loaded
<1>2. CASE AddEvidence(p, k)
  <2> DEFINE row == [rows[p][k] EXCEPT !.status = "evidence_submitted", !.evidence = TRUE]
  <2>1. row \in Row /\ RowOK(row) /\ row.applicable = rows[p][k].applicable
    BY <1>1 DEF Row, RowOK, Decisions
  <2>2. rows' = [rows EXCEPT ![p] = [@ EXCEPT ![k] = row]]
    BY <1>1, <1>2 DEF AddEvidence, Core, TypeOK, Row
  <2> HIDE DEF row
  <2> QED BY <1>1, <2>1, <2>2 DEF Core, TypeOK
<1>3. ASSUME NEW given \in Decisions, SubmitHumanReview(p, k, given)
      PROVE  /\ rows'[p][k] \in Row /\ RowOK(rows'[p][k])
             /\ rows'[p][k].applicable = rows[p][k].applicable
             /\ \A j \in Projects, i \in Keys : j # p \/ i # k => rows'[j][i] = rows[j][i]
             /\ rows' \in [Projects -> [Keys -> Row \cup {NoRow}]]
  <2> DEFINE row == [rows[p][k] EXCEPT !.status = given, !.decision = given]
  <2>1. row \in Row /\ RowOK(row) /\ row.applicable = rows[p][k].applicable
    BY <1>1 DEF Row, RowOK, Decisions
  <2>2. rows' = [rows EXCEPT ![p] = [@ EXCEPT ![k] = row]]
    <3>1. rows' = [rows EXCEPT ![p][k].status = given, ![p][k].decision = given]
      BY <1>3, Zenon DEF SubmitHumanReview
    <3>2. rows \in [Projects -> [Keys -> Row \cup {NoRow}]]
      BY DEF Core, TypeOK
    <3> QED BY <1>1, <3>1, <3>2 DEF Row
  <2> HIDE DEF row
  <2> QED BY <1>1, <2>1, <2>2 DEF Core, TypeOK
<1> QED BY <1>1, <1>2, <1>3

LEMMA ReviewCore ==
  ASSUME Core, NEW p \in Projects, NEW k \in Keys,
         \/ AddEvidence(p, k)
         \/ \E given \in Decisions : SubmitHumanReview(p, k, given)
  PROVE  Core'
<1>1. changes' \in Nat /\ UNCHANGED <<project, config, asked, answers, jobs, outdated>>
  <2>1. Change /\ UNCHANGED <<project, config, asked, answers, jobs, outdated>>
    <3>1. CASE AddEvidence(p, k)
      BY <3>1 DEF AddEvidence
    <3>2. CASE \E given \in Decisions : SubmitHumanReview(p, k, given)
      BY <3>2 DEF SubmitHumanReview
    <3> QED BY <3>1, <3>2
  <2>2. changes \in Nat
    BY DEF Core, TypeOK
  <2> QED BY <2>1, <2>2 DEF Change
<1>2. TypeOK'
  BY <1>1, ReviewRows DEF Core, TypeOK
<1>3. Consistent'
  BY ReviewRows DEF Core, Consistent, RowOK
<1>4. OfProjects'
  BY <1>1, ReviewRows DEF Core, OfProjects
<1> QED BY <1>2, <1>3, <1>4 DEF Core

-----------------------------------------------------------------------------
(***************************************************************************)
(* The steps of the specification.                                         *)
(***************************************************************************)
\* What the frameworks of a generation may be.
LEMMA GenerateNextCore ==
  ASSUME Core, NEW p \in Projects, GenerateNext(p)
  PROVE  Core'
<1> DEFINE fs == IF project[p].frameworks # {} THEN project[p].frameworks ELSE config
<1>1. fs \in SUBSET Frameworks /\ project[p].exists
  BY DEF GenerateNext, Core, OfProjects, TypeOK, Project
<1>2. jobs' \subseteq jobs /\ changes' \in Nat /\ UNCHANGED <<config, asked, answers>>
  BY DEF GenerateNext, Core, TypeOK
<1>3. Generate(p, fs, FALSE)
  BY DEF GenerateNext
<1> HIDE DEF fs
<1> QED BY <1>1, <1>2, <1>3, GenerateCore

ChosenFor(p, chosen) ==
  CASE chosen # {} -> chosen
    [] chosen = {} /\ project[p].frameworks # {} -> project[p].frameworks
    [] OTHER -> Frameworks

LEMMA GenerateControlsMeans ==
  ASSUME Core, NEW p \in Projects, NEW chosen \in SUBSET Frameworks, NEW again \in BOOLEAN,
         GenerateControls(p, chosen, again)
  PROVE  /\ ChosenFor(p, chosen) \in SUBSET Frameworks
         /\ Generate(p, ChosenFor(p, chosen), again)
         /\ project[p].exists
         /\ jobs' \subseteq jobs /\ changes' \in Nat /\ UNCHANGED <<config, asked, answers>>
<1>1. project[p].frameworks \in SUBSET Frameworks
  BY DEF Core, TypeOK, Project
<1>2. ChosenFor(p, chosen) \in SUBSET Frameworks
  BY <1>1 DEF ChosenFor
<1>3. Generate(p, ChosenFor(p, chosen), again)
  BY DEF GenerateControls, ChosenFor
<1> QED BY <1>2, <1>3 DEF GenerateControls, Change, Core, TypeOK

LEMMA CoreStep == Core /\ [Next]_vars => Core'
<1> SUFFICES ASSUME Core, [Next]_vars PROVE Core'
  OBVIOUS
<1>1. CASE UNCHANGED vars
  BY <1>1 DEF vars, Core, TypeOK, OfProjects, Consistent
<1>2. ASSUME NEW p \in Projects, NEW fs \in SUBSET Frameworks, NEW c \in Profiles,
             CreateProject(p, fs, c.ai, c.risk) \/ UpdateProject(p, fs, c.ai, c.risk)
      PROVE  Core'
  BY <1>2, CreateProjectCore, UpdateProjectCore
<1>3. ASSUME NEW p \in Projects, GenerateNext(p) PROVE Core'
  BY <1>3, GenerateNextCore
<1>4. ASSUME NEW p \in Projects, NEW fs \in SUBSET Frameworks, NEW again \in BOOLEAN,
             GenerateControls(p, fs, again)
      PROVE  Core'
  BY <1>4, GenerateControlsMeans, GenerateCore
<1>5. ASSUME NEW p \in Projects, GetQuestionnaire(p) PROVE Core'
  BY <1>5, GetQuestionnaireCore
<1>6. ASSUME NEW p \in Projects, NEW incoming \in Sheets, SubmitAnswers(p, incoming) PROVE Core'
  BY <1>6, SubmitAnswersCore
<1>7. ASSUME NEW p \in Projects, NEW k \in Keys,
             \/ AddEvidence(p, k)
             \/ \E given \in Decisions : SubmitHumanReview(p, k, given)
      PROVE  Core'
  BY <1>7, ReviewCore
<1>8. ASSUME NEW fs \in SUBSET Frameworks, UpdateOrgFrameworks(fs) PROVE Core'
  BY <1>8, UpdateOrgCore
<1>9. CASE Abandon
  BY <1>9, AbandonCore
<1> QED BY <1>1, <1>2, <1>3, <1>4, <1>5, <1>6, <1>7, <1>8, <1>9 DEF Next

LEMMA CoreInit == Init => Core
<1> SUFFICES ASSUME Init PROVE Core
  OBVIOUS
<1>1. Blank \in Sheets
  BY DEF Blank, Sheets
<1>2. TypeOK
  BY <1>1 DEF Init, TypeOK, Project
<1>3. OfProjects /\ Consistent
  BY DEF Init, OfProjects, Consistent, NoRow, Decisions
<1> QED BY <1>2, <1>3 DEF Core

LEMMA CoreHolds == Spec => []Core
<1> QED BY CoreInit, CoreStep, PTL DEF Spec

\* Every variable keeps its type, for any packs, frameworks and projects.
THEOREM ControlTypes == Spec => []TypeOK
<1>1. Core => TypeOK
  BY DEF Core
<1> QED BY <1>1, CoreHolds, PTL

\* The columns of a row tell one story, whatever generations, answers,
\* evidence and reviews come in whatever order.
THEOREM RowsConsistent == Spec => []Consistent
<1>1. Core => Consistent
  BY DEF Core
<1> QED BY <1>1, CoreHolds, PTL

-----------------------------------------------------------------------------
(***************************************************************************)
(* A locked project has its rows, and they agree with the answers.         *)
(***************************************************************************)
Complete(p) ==
  project[p].locked =>
    \A k \in ControlSet(project[p].frameworks) : k[1] \notin outdated[p] => rows[p][k] # NoRow

FreshAt(p) ==
  \A k \in ControlSet(project[p].frameworks) :
    k[1] \notin outdated[p] /\ rows[p][k] # NoRow
      => rows[p][k].applicable = Applies(k[1], project[p], answers[p])

Good(p) == Complete(p) /\ FreshAt(p)

LEMMA GoodMeans ==
  (\A p \in Projects : Good(p)) <=> LockedComplete /\ Fresh
BY DEF Good, Complete, FreshAt, LockedComplete, Fresh

LEMMA Untouched ==
  ASSUME NEW p \in Projects, Good(p), project'[p] = project[p], rows'[p] = rows[p],
         answers'[p] = answers[p], outdated'[p] = outdated[p]
  PROVE  Good(p)'
BY DEF Good, Complete, FreshAt

LEMMA AllOutdated ==
  ASSUME NEW p \in Projects, outdated'[p] = ControlIds
  PROVE  Good(p)'
<1>1. \A k \in ControlSet(project[p].frameworks)' : k[1] \in ControlIds
  BY KeyIds DEF ControlSet
<1> QED BY <1>1 DEF Good, Complete, FreshAt

LEMMA GenerateGood ==
  ASSUME Core, NEW p \in Projects, NEW fs \in SUBSET Frameworks, NEW again \in BOOLEAN,
         UNCHANGED answers, Generate(p, fs, again), NEW j \in Projects, Good(j)
  PROVE  Good(j)'
<1>1. CASE j # p
  BY <1>1, Untouched DEF Generate, Core, TypeOK
<1>2. CASE j = p /\ answers[p] # Blank
  BY <1>2, AllOutdated DEF Generate, Core, TypeOK
<1>3. CASE j = p /\ answers[p] = Blank
  <2>1. project'[p].frameworks = fs
    BY DEF Generate, Core, TypeOK, Project
  <2>2. \A k \in ControlSet(fs) :
          rows'[p][k] # NoRow /\ rows'[p][k].applicable = Applies(k[1], project'[p], Blank)
    BY GenerateRows, NoRowIsNone DEF ControlSet
  <2> QED BY <1>3, <2>1, <2>2 DEF Good, Complete, FreshAt
<1> QED BY <1>1, <1>2, <1>3

\* What is answered is either evaluated again or does not matter.
LEMMA AnswersGood ==
  ASSUME Core, NEW p \in Projects, NEW incoming \in Sheets, SubmitAnswers(p, incoming),
         NEW j \in Projects, Good(j)
  PROVE  Good(j)'
<1> DEFINE named == AnswersNamed(incoming)
           stored == AnswersAfter(p, incoming, named \cap asked[p])
           touched == Touched(p, named)
           evaluated == { c \in touched : \A k \in ControlSet(project[p].frameworks) :
                            k[1] = c => rows[p][k] # NoRow }
<1>1. CASE j # p
  BY <1>1, Untouched DEF SubmitAnswers, Core, TypeOK
<1>2. CASE j = p /\ ~(named \subseteq asked[p])
  BY <1>2, AllOutdated DEF SubmitAnswers, AnswersNamed, Core, TypeOK
<1>3. CASE j = p /\ named \subseteq asked[p]
  <2>1. answers'[p] = stored /\ project' = project
    BY DEF SubmitAnswers, AnswersNamed, AnswersAfter, Core, TypeOK
  <2>2. stored = AnswersAfter(p, incoming, named)
    BY <1>3 DEF AnswersAfter, AnswersNamed
  <2>3. outdated'[p] = (outdated[p] \ evaluated)
                       \cup { c \in ControlIds \ evaluated :
                                \E q \in Inputs(c, project[p]) : stored[q] # answers[p][q] }
    BY <1>3 DEF SubmitAnswers, AnswersNamed, AnswersAfter, Core, TypeOK
  <2> SUFFICES ASSUME NEW k \in ControlSet(project[p].frameworks), k[1] \notin outdated'[p]
               PROVE  /\ project[p].locked => rows'[p][k] # NoRow
                      /\ rows'[p][k] # NoRow =>
                           rows'[p][k].applicable = Applies(k[1], project[p], stored)
    BY <1>3, <2>1 DEF Good, Complete, FreshAt
  <2>4. k \in Keys /\ k[1] \in ControlIds
    BY KeyIds DEF ControlSet
  <2>5. /\ rows[p][k] = NoRow => rows'[p][k] = NoRow
        /\ rows[p][k] # NoRow => rows'[p][k] # NoRow
        /\ rows[p][k] # NoRow => rows'[p][k].applicable =
             IF k[1] \in touched THEN Applies(k[1], project[p], stored) ELSE rows[p][k].applicable
    BY <2>2, <2>4, AnswerRows, NoRowIsNone
  <2> HIDE DEF evaluated, touched, stored
  <2>6. CASE k[1] \in evaluated
    <3>1. k[1] \in touched /\ rows[p][k] # NoRow
      BY <2>6 DEF evaluated
    <3> QED BY <3>1, <2>5
  <2>7. CASE k[1] \notin evaluated
    <3>1. k[1] \notin outdated[p] /\ \A q \in Inputs(k[1], project[p]) : stored[q] = answers[p][q]
      BY <2>3, <2>4, <2>7
    <3>2. Applies(k[1], project[p], stored) = Applies(k[1], project[p], answers[p])
      BY <3>1, InputsSuffice
    <3>3. /\ project[p].locked => rows[p][k] # NoRow
          /\ rows[p][k] # NoRow => rows[p][k].applicable = Applies(k[1], project[p], answers[p])
      BY <1>3, <3>1 DEF Good, Complete, FreshAt
    <3> QED BY <3>2, <3>3, <2>5
  <2> QED BY <2>6, <2>7
<1> QED BY <1>1, <1>2, <1>3

LEMMA ReviewGood ==
  ASSUME Core, NEW p \in Projects, NEW k \in Keys,
         \/ AddEvidence(p, k)
         \/ \E given \in Decisions : SubmitHumanReview(p, k, given),
         NEW j \in Projects, Good(j)
  PROVE  Good(j)'
<1>1. UNCHANGED <<project, answers, outdated>>
  <2>1. CASE AddEvidence(p, k)
    BY <2>1, Zenon DEF AddEvidence
  <2>2. CASE \E given \in Decisions : SubmitHumanReview(p, k, given)
    BY <2>2, Zenon DEF SubmitHumanReview
  <2> QED BY <2>1, <2>2
<1>2. \A i \in Keys : /\ rows[j][i] # NoRow => rows'[j][i] # NoRow
                      /\ rows'[j][i] # NoRow => rows[j][i] # NoRow
                      /\ rows'[j][i].applicable = rows[j][i].applicable
  BY ReviewRows, NoRowIsNone
<1>3. \A i \in ControlSet(project[j].frameworks) : i \in Keys
  BY DEF ControlSet
<1> QED BY <1>1, <1>2, <1>3 DEF Good, Complete, FreshAt

LEMMA CreateGood ==
  ASSUME Core, NEW p \in Projects, NEW fs \in SUBSET Frameworks, NEW c \in Profiles,
         CreateProject(p, fs, c.ai, c.risk), NEW j \in Projects, Good(j)
  PROVE  Good(j)'
<1>1. CASE j # p
  BY <1>1, Untouched DEF CreateProject, Core, TypeOK
<1>2. CASE j = p
  <2>1. project'[p].locked = FALSE
    BY DEF CreateProject, Core, TypeOK
  <2>2. \A k \in Keys : rows'[p][k] = NoRow
    BY DEF CreateProject, Core, OfProjects
  <2>3. \A k \in ControlSet(project[p].frameworks)' : k \in Keys
    BY DEF ControlSet
  <2> QED BY <1>2, <2>1, <2>2, <2>3 DEF Good, Complete, FreshAt
<1> QED BY <1>1, <1>2

LEMMA UpdateGood ==
  ASSUME Core, NEW p \in Projects, NEW fs \in SUBSET Frameworks, NEW c \in Profiles,
         UpdateProject(p, fs, c.ai, c.risk), NEW j \in Projects, Good(j)
  PROVE  Good(j)'
<1>1. CASE j # p
  BY <1>1, Untouched DEF UpdateProject, Core, TypeOK
<1>2. CASE j = p
  BY <1>2, AllOutdated DEF UpdateProject, Core, TypeOK
<1> QED BY <1>1, <1>2

LEMMA GoodStep ==
  ASSUME Core, [Next]_vars, NEW j \in Projects, Good(j)
  PROVE  Good(j)'
<1>1. CASE UNCHANGED vars
  BY <1>1, Untouched DEF vars
<1>2. ASSUME NEW p \in Projects, NEW fs \in SUBSET Frameworks, NEW c \in Profiles,
             CreateProject(p, fs, c.ai, c.risk) \/ UpdateProject(p, fs, c.ai, c.risk)
      PROVE  Good(j)'
  BY <1>2, CreateGood, UpdateGood
<1>3. ASSUME NEW p \in Projects, GenerateNext(p) PROVE Good(j)'
  <2> DEFINE fs == IF project[p].frameworks # {} THEN project[p].frameworks ELSE config
  <2>1. fs \in SUBSET Frameworks
    BY DEF Core, TypeOK, Project
  <2>2. Generate(p, fs, FALSE) /\ UNCHANGED answers
    BY <1>3 DEF GenerateNext
  <2> HIDE DEF fs
  <2> QED BY <2>1, <2>2, GenerateGood
<1>4. ASSUME NEW p \in Projects, NEW fs \in SUBSET Frameworks, NEW again \in BOOLEAN,
             GenerateControls(p, fs, again)
      PROVE  Good(j)'
  BY <1>4, GenerateControlsMeans, GenerateGood
<1>5. ASSUME NEW p \in Projects, GetQuestionnaire(p) PROVE Good(j)'
  BY <1>5, Untouched DEF GetQuestionnaire
<1>6. ASSUME NEW p \in Projects, NEW incoming \in Sheets, SubmitAnswers(p, incoming) PROVE Good(j)'
  BY <1>6, AnswersGood
<1>7. ASSUME NEW p \in Projects, NEW k \in Keys,
             \/ AddEvidence(p, k)
             \/ \E given \in Decisions : SubmitHumanReview(p, k, given)
      PROVE  Good(j)'
  BY <1>7, ReviewGood
<1>8. ASSUME NEW fs \in SUBSET Frameworks, UpdateOrgFrameworks(fs) PROVE Good(j)'
  BY <1>8, Untouched DEF UpdateOrgFrameworks
<1>9. CASE Abandon
  BY <1>9, Untouched DEF Abandon
<1> QED BY <1>1, <1>2, <1>3, <1>4, <1>5, <1>6, <1>7, <1>8, <1>9 DEF Next

LEMMA ControlsInvariance == Spec => []ControlsInv
<1>1. Init => ControlsInv
  <2> SUFFICES ASSUME Init PROVE ControlsInv
    OBVIOUS
  <2>1. \A p \in Projects : \A k \in Keys : rows[p][k] = NoRow
    BY DEF Init
  <2>2. \A p \in Projects : ~project[p].locked
    BY DEF Init
  <2>3. LockedComplete /\ Fresh
    BY <2>1, <2>2 DEF LockedComplete, Fresh, ControlSet
  <2> QED BY <2>3, CoreInit DEF ControlsInv, Core
<1>2. ControlsInv /\ [Next]_vars => ControlsInv'
  <2> SUFFICES ASSUME ControlsInv, [Next]_vars PROVE ControlsInv'
    OBVIOUS
  <2>1. Core /\ \A p \in Projects : Good(p)
    BY GoodMeans DEF ControlsInv, Core
  <2>2. Core'
    BY <2>1, CoreStep
  <2>3. \A p \in Projects : Good(p)'
    BY <2>1, GoodStep
  <2>4. (LockedComplete /\ Fresh)'
    BY <2>3 DEF Good, Complete, FreshAt, LockedComplete, Fresh
  <2> QED BY <2>2, <2>4 DEF ControlsInv, Core
<1> QED BY <1>1, <1>2, PTL DEF Spec

\* A locked project has the rows of its frameworks: the lock and the rows are
\* one commit (generate_controls_for_project).
THEOREM LockedAreComplete == Spec => []LockedComplete
<1>1. ControlsInv => LockedComplete
  BY DEF ControlsInv
<1> QED BY <1>1, ControlsInvariance, PTL

\* A row that is not known to be out of date agrees with all the answers on
\* record: the partial evaluation of update_applicability_on_answer misses
\* only controls that outdated names.
THEOREM RowsAreFresh == Spec => []Fresh
<1>1. ControlsInv => Fresh
  BY DEF ControlsInv
<1> QED BY <1>1, ControlsInvariance, PTL

\* The clearance that the summary of a project reports is one a human gave.
THEOREM ClearanceIsSound == Spec => []ClearanceSound
<1>1. ControlsInv => ClearanceSound
  <2> SUFFICES ASSUME ControlsInv, NEW p \in Projects, project[p].locked, AllMandatoryApproved(p),
                      NEW k \in ControlSet(project[p].frameworks), k[1] \notin outdated[p],
                      Applies(k[1], project[p], answers[p])
               PROVE  rows[p][k].decision = "approved"
    BY DEF ClearanceSound
  <2>1. k \in Keys /\ rows[p][k] # NoRow
    BY DEF ControlsInv, LockedComplete, ControlSet
  <2>2. rows[p][k].applicable
    BY <2>1 DEF ControlsInv, Fresh
  <2>3. rows[p][k].status = "approved"
    BY <2>1, <2>2 DEF AllMandatoryApproved
  <2> QED BY <2>1, <2>3 DEF ControlsInv, Consistent, Decisions
<1> QED BY <1>1, ControlsInvariance, PTL
=============================================================================
