---------------------------- MODULE EvidenceGate ----------------------------
(***************************************************************************)
(* The release gate: app/services/evidence_gate.py over the envelopes of   *)
(* models/evidence.py, with the verifier of SLSA provenance that makes one *)
(* kind of them, app/services/slsa_verifier.py.                            *)
(*                                                                         *)
(* The inputs of one release are fixed and the gate is asked again as time *)
(* passes.  Evidence, findings and waivers are sets: the code sorts them   *)
(* by id first.  A waiver's id is its number, which is that order.         *)
(***************************************************************************)
EXTENDS Integers, FiniteSets, FiniteSetsExt

CONSTANTS
  Supported,     \* SUPPORTED_EVIDENCE_KINDS
  Provenances,   \* bound: DSSE envelopes with what a verifier says of them
  Documents,     \* bound: evidence of the other kinds
  Findings,      \* bound: findings
  Waivers,       \* bound: waivers
  Policies,      \* bound: gate policies
  Expectations,  \* bound: what the operator expects of provenance
  Digest,        \* the release's digest
  NoSource, NoDecision,
  MaxTime        \* bound: instants

ASSUME GateAssumption ==
  /\ MaxTime \in Nat
  /\ \A w \in Waivers : w.id \in Nat /\ w.expires \in Int

VARIABLES
  release,       \* the inputs
  now,
  decision,      \* the last answer, or NoDecision
  assessed       \* history: when it was given

gate == <<release, now, decision, assessed>>

-----------------------------------------------------------------------------
(***************************************************************************)
(* SLSA provenance.  An envelope that cannot be decoded leaves an empty    *)
(* statement, which fails the checks that follow.                          *)
(***************************************************************************)
\* Variant: without a verifier any signature is good
SignatureUnlessVerifier(envelope, expected) == ~expected.verifier \/ envelope.signed

SignatureOk(envelope, expected) == expected.verifier /\ envelope.signed

SourceUris(envelope) == IF envelope.decodes THEN envelope.sources ELSE {}

Verified(envelope, expected) ==
  /\ envelope.decodes
  /\ envelope.slsa
  /\ Digest \in envelope.subjects
  /\ envelope.builder \in expected.builders
  /\ expected.types # {} => envelope.type \in expected.types
  /\ expected.source # NoSource => expected.source \in SourceUris(envelope)
  /\ expected.signature => SignatureOk(envelope, expected)

Provenance(envelope, expected) ==
  [kind |-> "slsa-provenance",
   valid |-> Verified(envelope, expected),
   signed |-> SignatureOk(envelope, expected)]

-----------------------------------------------------------------------------
(***************************************************************************)
(* The gate.                                                               *)
(***************************************************************************)
Evidence(r) == r.documents \cup { Provenance(e, r.expected) : e \in r.provenances }

\* Variant: a waiver counts from its end on
ActiveWaiversAfter(finding, waivers, t) ==
  { w \in waivers : /\ w.expires <= t
                    /\ finding.id \in w.findings \/ finding.control \in w.controls }

ActiveWaivers(finding, waivers, t) ==
  { w \in waivers : /\ w.expires > t
                    /\ finding.id \in w.findings \/ finding.control \in w.controls }

Blocks(finding, policy) == finding.status = "open" /\ finding.severity \in policy.blocking

Waived(finding, r, t) ==
  /\ ActiveWaivers(finding, r.waivers, t) # {}
  /\ finding.control \notin r.policy.nonWaivable

\* The waiver that is applied is the first that is active.
Applied(r, t) ==
  { Min({ w.id : w \in ActiveWaivers(f, r.waivers, t) }) :
      f \in { f \in r.findings : Blocks(f, r.policy) /\ Waived(f, r, t) } }

Outcome(r, t) ==
  LET missing == r.policy.kinds \ { e.kind : e \in Evidence(r) }
      invalid == { e \in Evidence(r) : e.kind \notin Supported \/ ~e.valid }
      unverified == { e \in Evidence(r) : e.kind \in r.policy.signedKinds /\ ~e.signed }
      blocking == { f \in r.findings : Blocks(f, r.policy) /\ ~Waived(f, r, t) }
  IN CASE invalid \cup unverified # {} \/ blocking # {} -> "fail"
       [] invalid \cup unverified = {} /\ blocking = {} /\ missing # {} -> "insufficient_evidence"
       [] invalid \cup unverified = {} /\ blocking = {} /\ missing = {}
          /\ (Applied(r, t) # {} \/ r.policy.humanApproval) -> "conditional"
       [] OTHER -> "pass"

Releases ==
  [policy : Policies, expected : Expectations, provenances : SUBSET Provenances,
   documents : SUBSET Documents, findings : SUBSET Findings, waivers : SUBSET Waivers]

GateOK ==
  /\ release \in Releases
  /\ now \in 0..MaxTime /\ assessed \in -1..MaxTime
  /\ decision = NoDecision \/
       /\ decision.outcome \in {"pass", "fail", "conditional", "insufficient_evidence"}
       /\ decision.applied \subseteq { w.id : w \in Waivers }

GateInit ==
  /\ release \in Releases
  /\ now = 0 /\ decision = NoDecision /\ assessed = -1

EvaluateGate ==
  /\ decision' = [outcome |-> Outcome(release, now), applied |-> Applied(release, now)]
  /\ assessed' = now
  /\ UNCHANGED <<release, now>>

TimePasses ==
  /\ now < MaxTime
  /\ now' = now + 1
  /\ UNCHANGED <<release, decision, assessed>>

GateNext == EvaluateGate \/ TimePasses

GateSpec == GateInit /\ [][GateNext]_gate

-----------------------------------------------------------------------------
Cleared == decision # NoDecision /\ decision.outcome \in {"pass", "conditional"}

\* The gate fails closed.  A release that is cleared has the evidence its
\* policy asks for; where the policy wants signed provenance, a verifier that
\* the operator trusts signed for this artifact by a trusted builder, even if
\* the expectations do not ask for a signature; and each severe finding still
\* open has a waiver that had not run out, for a control that may be waived.
ClearedRelease ==
  Cleared =>
    /\ \A kind \in release.policy.kinds :
         \/ \E d \in release.documents : d.kind = kind /\ d.valid
         \/ kind = "slsa-provenance" /\ release.provenances # {}
    /\ {"slsa-provenance"} \subseteq release.policy.kinds \cap release.policy.signedKinds =>
         \A e \in release.provenances :
           /\ e.decodes /\ Digest \in e.subjects /\ e.builder \in release.expected.builders
           /\ e.signed /\ release.expected.verifier
    /\ \A f \in release.findings :
         f.status = "open" /\ f.severity \in release.policy.blocking =>
           /\ f.control \notin release.policy.nonWaivable
           /\ \E w \in release.waivers :
                /\ w.expires > assessed
                /\ f.id \in w.findings \/ f.control \in w.controls
                /\ decision.outcome = "conditional"

Rank(outcome) ==
  CASE outcome = "fail" -> 0
    [] outcome = "insufficient_evidence" -> 1
    [] outcome = "conditional" -> 2
    [] outcome = "pass" -> 3

\* Time alone never improves a decision: waivers only run out.  Asked again
\* with the same inputs, the gate answers the same or worse.
NoBetter == decision # NoDecision => Rank(decision'.outcome) <= Rank(decision.outcome)
NeverImproves == [][NoBetter]_gate
=============================================================================
