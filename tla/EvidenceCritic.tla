--------------------------- MODULE EvidenceCritic ---------------------------
(***************************************************************************)
(* The critic of design-phase threat models, app/services/                 *)
(* evidence_critic.py: it cuts the current documents into passages, ranks  *)
(* the passages for each threat, asks a model for verdicts and keeps of    *)
(* the answer only what the passages can carry.                            *)
(*                                                                         *)
(* A document is the sequence of its lines' lengths, 0 for a blank line; a *)
(* passage is the lines it covers, which are what its id says.  A score of *)
(* a passage is a number; its arithmetic is left out.                      *)
(***************************************************************************)
EXTENDS Integers, Sequences, FiniteSets, SequencesExt, FiniteSetsExt

CONSTANTS
  Libraries,     \* bound: the current documents, a sequence
  MaxLines, MaxChars,            \* 6 and 850
  MaxThreats, MaxCandidates,     \* settings, at least 1
  Threats,       \* bound: the report's threats, a sequence of ids
  Scores,        \* bound: scores
  Invented       \* bound: what a verdict may name beside passages

VARIABLES
  documents,     \* the current documents
  design,        \* the report has a design phase or skill
  score,         \* of a threat's id and a passage
  progress,      \* "drafted", "asked", "verified"
  passages,
  candidates,    \* of a threat's id
  verdicts,      \* of the report's threats, in their order
  sources,       \* passages among the report's sources
  summary

critic == <<documents, design, score, progress, passages, candidates, verdicts, sources, summary>>

Statuses == {"supported", "contradicted", "insufficient_evidence"}
ThreatIds == { Threats[i] : i \in DOMAIN Threats }
ASSUME CriticAssumption ==
  /\ Threats \in Seq(ThreatIds) /\ Libraries \subseteq Seq(Seq(Nat))
  /\ {MaxLines, MaxChars, MaxThreats, MaxCandidates} \subseteq Nat \ {0}

Span == [doc : Nat, first : Nat, last : Nat]

-----------------------------------------------------------------------------
(***************************************************************************)
(* Passages: runs of lines that are not blank, cut when a run has MaxLines *)
(* lines or MaxChars characters.                                           *)
(***************************************************************************)
\* Variant: the passage goes on after it was cut
FlushKeeps(cut, d, last) ==
  IF cut.chars = 0 THEN cut
  ELSE [cut EXCEPT !.spans = @ \cup {[doc |-> d, first |-> cut.first, last |-> last]}]

Flush(cut, d, last) ==
  IF cut.chars = 0 THEN cut
  ELSE [spans |-> cut.spans \cup {[doc |-> d, first |-> cut.first, last |-> last]},
        first |-> 0, chars |-> 0]

AddLine(cut, d, n, length) ==
  LET grown == [spans |-> cut.spans, first |-> IF cut.chars = 0 THEN n ELSE cut.first,
                chars |-> cut.chars + length]
  IN IF n - grown.first + 1 >= MaxLines \/ grown.chars >= MaxChars
     THEN Flush(grown, d, n)
     ELSE grown

PassagesOf(d, lines) ==
  LET read[n \in 0..Len(lines)] ==
        IF n = 0 THEN [spans |-> {}, first |-> 0, chars |-> 0]
        ELSE IF lines[n] = 0 THEN Flush(read[n - 1], d, n - 1) ELSE AddLine(read[n - 1], d, n, lines[n])
  IN Flush(read[Len(lines)], d, Len(lines)).spans

AllPassages(docs) == UNION { PassagesOf(d, docs[d]) : d \in DOMAIN docs }

(***************************************************************************)
(* The best passages for a threat: by score, then the earlier line, then   *)
(* the later document.  With no score above 0 at most two are taken.       *)
(***************************************************************************)
Better(t, p, q) ==
  \/ score[t][p] > score[t][q]
  \/ score[t][p] = score[t][q] /\ p.first < q.first
  \/ score[t][p] = score[t][q] /\ p.first = q.first /\ p.doc > q.doc

Ranked(t, ps) ==
  LET scored == { p \in ps : score[t][p] > 0 }
      Top(S, n) == { p \in S : Cardinality({ q \in S : Better(t, q, p) }) < n }
  IN IF scored # {} THEN Top(scored, MaxCandidates)
     ELSE Top(ps, Min({2, MaxCandidates}))

Examined == { Threats[i] : i \in 1..Min({Len(Threats), MaxThreats}) }

-----------------------------------------------------------------------------
(***************************************************************************)
(* What is kept of a reply, a sequence of verdicts.                        *)
(***************************************************************************)
Verdict ==
  [threat : ThreatIds, status : Statuses \cup {"other"},
   evidence : SUBSET Span, counter : SUBSET Span]
Unanswered == [status |-> "insufficient_evidence", evidence |-> {}, counter |-> {}]

\* Variant: any passage may be cited
AllowedAny(t) == passages

Allowed(t) == IF t \in Examined THEN candidates[t] ELSE {}

Kept(v) ==
  LET evidence == v.evidence \cap Allowed(v.threat)
      counter == v.counter \cap Allowed(v.threat)
  IN CASE v.status = "supported" /\ evidence # {} ->
            [status |-> "supported", evidence |-> evidence, counter |-> counter]
       [] v.status = "contradicted" /\ counter # {} ->
            [status |-> "contradicted", evidence |-> evidence, counter |-> counter]
       [] v.status = "contradicted" /\ counter = {} /\ evidence # {} ->
            [status |-> "contradicted", evidence |-> {}, counter |-> evidence]
       [] OTHER -> Unanswered

\* The first verdict on a threat counts.
VerdictOn(t, reply) ==
  LET on == { i \in DOMAIN reply : reply[i].threat = t }
  IN IF on = {} THEN Unanswered ELSE Kept(reply[Min(on)])

Count(vs, status) == Cardinality({ i \in DOMAIN vs : vs[i].status = status })

ApplyVerdicts(reply, how) ==
  LET kept == [i \in DOMAIN Threats |-> VerdictOn(Threats[i], reply)]
  IN /\ verdicts' = kept
     /\ sources' = sources \cup UNION { kept[i].evidence \cup kept[i].counter : i \in DOMAIN kept }
     /\ summary' = [status |-> how, total |-> Len(Threats),
                    counts |-> [s \in Statuses |-> Count(kept, s)]]

-----------------------------------------------------------------------------
NoSummary == [status |-> "none", total |-> 0, counts |-> [s \in Statuses |-> 0]]

CriticOK ==
  /\ documents \in Libraries /\ design \in BOOLEAN
  /\ progress \in {"drafted", "asked", "verified"}
  /\ passages \subseteq Span
  /\ candidates \in [ThreatIds -> SUBSET Span]
  /\ verdicts \in Seq([status : Statuses, evidence : SUBSET Span, counter : SUBSET Span])
  /\ sources \subseteq Span
  /\ summary.status \in {"none", "completed", "fallback"}

CriticInit ==
  /\ documents \in Libraries /\ design \in BOOLEAN
  /\ score \in [ThreatIds -> [AllPassages(documents) -> Scores]]
  /\ progress = "drafted"
  /\ passages = {} /\ candidates = [t \in ThreatIds |-> {}]
  /\ verdicts = <<>> /\ sources = {} /\ summary = NoSummary

\* The critic is disabled, the report is no design report, or no threats.
Skip ==
  /\ progress = "drafted" /\ (~design \/ Threats = <<>>)
  /\ progress' = "verified"
  /\ UNCHANGED <<documents, design, score, passages, candidates, verdicts, sources, summary>>

Ask ==
  LET ps == AllPassages(documents)
      best == [t \in ThreatIds |-> IF t \in Examined THEN Ranked(t, ps) ELSE {}]
  IN /\ progress = "drafted" /\ design /\ Threats # <<>>
     /\ passages' = ps /\ candidates' = best
     /\ IF ps = {}
        THEN progress' = "verified" /\ ApplyVerdicts(<<>>, "fallback")
        ELSE progress' = "asked" /\ UNCHANGED <<verdicts, sources, summary>>
     /\ UNCHANGED <<documents, design, score>>

CriticReply(reply) ==
  /\ progress = "asked" /\ progress' = "verified"
  /\ ApplyVerdicts(reply, "completed")
  /\ UNCHANGED <<documents, design, score, passages, candidates>>

\* The call fails, or its answer has no JSON object.
Fail ==
  /\ progress = "asked" /\ progress' = "verified"
  /\ ApplyVerdicts(<<>>, "fallback")
  /\ UNCHANGED <<documents, design, score, passages, candidates>>

Named == { {} } \cup { {p} : p \in passages \cup Invented }

CriticNext ==
  \/ Skip \/ Ask \/ Fail
  \/ \E i, j \in DOMAIN Threats, s \in Statuses \cup {"other"}, e, c \in Named, f \in Named :
       CriticReply(<<[threat |-> Threats[i], status |-> s, evidence |-> e, counter |-> c],
               [threat |-> Threats[j], status |-> "supported", evidence |-> f, counter |-> e]>>)

CriticSpec == CriticInit /\ [][CriticNext]_critic

-----------------------------------------------------------------------------
\* The passages of the documents hold every line that is not blank exactly
\* once, and no blank line: a verdict can be traced to one place.
PassagesPartition ==
  progress # "drafted" /\ design /\ Threats # <<>> =>
    \A d \in DOMAIN documents : \A n \in DOMAIN documents[d] :
      Cardinality({ p \in passages : p.doc = d /\ n \in p.first..p.last })
        = (IF documents[d][n] = 0 THEN 0 ELSE 1)

\* A verdict stands on passages of the current documents: a threat that is
\* called supported or contradicted cites at least one, all that it cites
\* were put before the model for this threat and are among the report's
\* sources, threats that were not put before it are undecided, and the
\* summary counts every threat once.
Grounded ==
  progress = "verified" /\ design =>
    /\ Len(verdicts) = Len(Threats) /\ summary.total = Len(Threats)
    /\ summary.total = summary.counts["supported"] + summary.counts["contradicted"]
                       + summary.counts["insufficient_evidence"]
    /\ \A i \in DOMAIN Threats :
         LET cited == verdicts[i].evidence \cup verdicts[i].counter
         IN /\ cited \subseteq candidates[Threats[i]] \cap sources
            /\ (cited = {}) = (verdicts[i].status = "insufficient_evidence")
            /\ verdicts[i].status = "supported" => verdicts[i].evidence # {}
            /\ verdicts[i].status = "contradicted" => verdicts[i].counter # {}
            /\ summary.status = "fallback" => cited = {}
            /\ i > MaxThreats /\ (\A j \in 1..MaxThreats : Threats[j] # Threats[i]) => cited = {}
=============================================================================
