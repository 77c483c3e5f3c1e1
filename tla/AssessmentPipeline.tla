------------------------- MODULE AssessmentPipeline -------------------------
(***************************************************************************)
(* One assessment: the graph of app/agent/graph/assessment_graph.py, whose *)
(* nodes are in app/agent/orchestrator.py and task_contract.py.  The nodes *)
(* run in order; one that raises ends the attempt, and the task service    *)
(* may run the graph again.                                                *)
(*                                                                         *)
(* A text is its length and the places where it may be cut; a threat's id  *)
(* is a sequence of numbers, <<1>> for "T1" and <<1, 3>> for "T1-3".       *)
(***************************************************************************)
EXTENDS Integers, Sequences, FiniteSets, SequencesExt, FiniteSetsExt

CONSTANTS
  Texts,         \* bound: [length, paragraphs, lines]: where two line ends are, and one
  Threshold, SectionSize, Overlap,     \* 12000, 10000 and 500
  MaxPolicy, MaxHistory,               \* chunks asked of the knowledge base: 5 and 3
  CriticEnabled,
  Replies,       \* bound: what the reviewing model answers
  Unparsed,      \* an answer that is not JSON
  MaxAttempts    \* attempts that the task service makes

ASSUME PipelineAssumption ==
  /\ {SectionSize, Overlap, MaxPolicy, MaxHistory, MaxAttempts} \subseteq Nat
  /\ Overlap < SectionSize \div 2 /\ MaxAttempts > 0
  /\ \A text \in Texts :
       /\ text.length \in Nat /\ text.paragraphs \subseteq Nat /\ text.lines \subseteq Nat
       /\ \A p \in text.paragraphs : {p, p + 1} \subseteq text.lines
  /\ Unparsed \notin Replies
  /\ \A answer \in Replies :
       /\ answer.findings \in Nat /\ answer.conforms \in BOOLEAN
       /\ answer.sources \in Seq({"policy", "history"} \X Nat)
       /\ answer.threats \in Seq([id : Seq(Nat), usable : BOOLEAN])

VARIABLES
  task,          \* [text, project, design]
  node,          \* the node that runs next
  chunks,        \* [policy, history]: how many chunks were retrieved
  sections,      \* the pieces of the text that were drafted
  reply,
  report,
  outcome,       \* of the evaluation
  controlRows,   \* committed control rows: of an attempt, how many findings
  attempt

pipeline == <<task, node, chunks, sections, reply, report, outcome, controlRows, attempt>>

Nodes == {"gather", "draft", "review", "parse", "verify", "evaluate", "persist", "done", "raised"}

-----------------------------------------------------------------------------
(***************************************************************************)
(* Cutting a long text.  A section ends at the last paragraph in the later *)
(* half of its window, or the last line, or the window's end; the next one *)
(* starts Overlap before that.                                             *)
(***************************************************************************)
\* Variant: the cut is looked for beyond the window
CutAnywhere(text, start) ==
  LET In(places) == { p \in places : start + SectionSize \div 2 <= p }
  IN CASE In(text.paragraphs) # {} -> Max(In(text.paragraphs))
       [] In(text.paragraphs) = {} /\ In(text.lines) # {} -> Max(In(text.lines))
       [] OTHER -> start + SectionSize

\* A break must be within the window, both line ends of a paragraph's too.
CutAfter(text, start) ==
  LET end == start + SectionSize
      In(places, width) ==
        { p \in places : start + SectionSize \div 2 <= p /\ p + width <= end }
  IN CASE In(text.paragraphs, 2) # {} -> Max(In(text.paragraphs, 2))
       [] In(text.paragraphs, 2) = {} /\ In(text.lines, 1) # {} -> Max(In(text.lines, 1))
       [] OTHER -> end

SectionsOf(text) ==
  LET from[start \in 0..text.length] ==
        IF start + SectionSize >= text.length THEN <<[from |-> start, to |-> text.length]>>
        ELSE LET cut == CutAfter(text, start)
             IN <<[from |-> start, to |-> cut]>> \o from[cut - Overlap]
  IN from[0]

Pieces(text) ==
  IF text.length > Threshold THEN SectionsOf(text) ELSE <<[from |-> 0, to |-> text.length]>>

-----------------------------------------------------------------------------
(***************************************************************************)
(* From the reviewer's answer to a report.                                 *)
(***************************************************************************)
Offered == ({"policy"} \X (1..chunks.policy)) \cup ({"history"} \X (1..chunks.history))

\* Variant: a chunk named twice is two sources
DeclaredAgain(names) ==
  { [id |-> i, chunk |-> names[i]] : i \in { i \in DOMAIN names : names[i] \in Offered } }

\* Sources are numbered by their place in the answer; those that name no
\* chunk that was offered, or one already named, are dropped.
Declared(names) ==
  { [id |-> i, chunk |-> names[i]] :
      i \in { i \in DOMAIN names : /\ names[i] \in Offered
                                   /\ \A j \in 1..(i - 1) : names[j] # names[i] } }

\* Without any, every chunk is a source, the policies' numbers first.
Everything ==
  { [id |-> IF c[1] = "policy" THEN c[2] ELSE chunks.policy + c[2], chunk |-> c] : c \in Offered }

ReportSources(names) == IF Declared(names) # {} THEN Declared(names) ELSE Everything

\* Threats of no known category or without a description are dropped; a
\* threat without an id is numbered by its place, and one whose id was seen
\* gets its place as a suffix.
Normalized(threats) ==
  LET Named(i) == IF threats[i].id = <<>> THEN <<i>> ELSE threats[i].id
      seen[n \in 0..Len(threats)] ==
        IF n = 0 THEN <<>>
        ELSE IF ~threats[n].usable THEN seen[n - 1]
        ELSE Append(seen[n - 1], IF Contains(seen[n - 1], Named(n)) THEN Append(Named(n), n) ELSE Named(n))
  IN seen[Len(threats)]

NoReport == [threats |-> <<>>, verified |-> FALSE, sources |-> {}, findings |-> 0, parsed |-> FALSE]

\* The rule engine's two findings and its text are put in every report, so
\* a report always has findings and its summary is never empty.
Parsed(answer) ==
  IF answer = Unparsed
  THEN [NoReport EXCEPT !.sources = Everything]
  ELSE [threats |-> Normalized(answer.threats), verified |-> FALSE,
        sources |-> ReportSources(answer.sources), findings |-> answer.findings, parsed |-> TRUE]

\* A report always has findings, the rule engine's, so it needs a source.
Evaluation(r) ==
  CASE r.threats # <<>> /\ ~r.verified -> "failed"
    [] (r.threats = <<>> \/ r.verified) /\ r.sources = {} -> "needs_review"
    [] OTHER -> "passed"

-----------------------------------------------------------------------------
Tasks == [text : Texts, project : {"none", "uuid", "other"}, design : BOOLEAN]

PipelineOK ==
  /\ task \in Tasks /\ node \in Nodes
  /\ chunks.policy \in 0..MaxPolicy /\ chunks.history \in 0..MaxHistory
  /\ reply \in Replies \cup {Unparsed}
  /\ outcome \in {"none", "passed", "needs_review", "failed"}
  /\ attempt \in 1..MaxAttempts
  /\ controlRows \in [1..MaxAttempts -> Nat]

Anew ==
  /\ node' = "gather" /\ chunks' = [policy |-> 0, history |-> 0] /\ sections' = <<>>
  /\ reply' = Unparsed /\ report' = NoReport /\ outcome' = "none"

PipelineInit ==
  /\ task \in Tasks
  /\ node = "gather" /\ chunks = [policy |-> 0, history |-> 0] /\ sections = <<>>
  /\ reply = Unparsed /\ report = NoReport /\ outcome = "none"
  /\ controlRows = [a \in 1..MaxAttempts |-> 0] /\ attempt = 1

At(n, next) == node = n /\ node' = next

\* A query that fails gives no chunks; extraction of evidence that fails
\* falls back to keywords.  Neither raises.
Gather(policy, history) ==
  /\ At("gather", "draft")
  /\ chunks' = [policy |-> policy, history |-> history]
  /\ UNCHANGED <<task, sections, reply, report, outcome, controlRows, attempt>>

Draft ==
  /\ At("draft", "review")
  /\ sections' = Pieces(task.text)
  /\ UNCHANGED <<task, chunks, reply, report, outcome, controlRows, attempt>>

Review(answer) ==
  /\ At("review", "parse")
  /\ reply' = answer
  /\ UNCHANGED <<task, chunks, sections, report, outcome, controlRows, attempt>>

\* An answer whose fields the report's schema rejects raises.
Parse ==
  /\ reply # Unparsed => reply.conforms
  /\ At("parse", "verify")
  /\ report' = Parsed(reply)
  /\ UNCHANGED <<task, chunks, sections, reply, outcome, controlRows, attempt>>

\* The critic, on its own failure too, leaves a verdict on every threat.
Verify ==
  /\ At("verify", "evaluate")
  /\ report' = [report EXCEPT !.verified = CriticEnabled /\ task.design]
  /\ UNCHANGED <<task, chunks, sections, reply, outcome, controlRows, attempt>>

EvaluateReport ==
  /\ At("evaluate", "persist")
  /\ outcome' = Evaluation(report)
  /\ UNCHANGED <<task, chunks, sections, reply, report, controlRows, attempt>>

\* One commit for all findings but the rule engine's.
Persist ==
  /\ At("persist", "done")
  /\ controlRows' = [controlRows EXCEPT ![attempt] = IF task.project = "uuid" THEN report.findings ELSE 0]
  /\ UNCHANGED <<task, chunks, sections, reply, report, outcome, attempt>>

\* A database error is logged and the report goes on without its rows.
PersistFails ==
  /\ task.project = "uuid" /\ report.findings > 0
  /\ At("persist", "done")
  /\ UNCHANGED <<task, chunks, sections, reply, report, outcome, controlRows, attempt>>

Raise ==
  /\ \/ node \in {"draft", "review"}
     \/ node = "parse" /\ reply # Unparsed /\ ~reply.conforms
  /\ node' = "raised"
  /\ UNCHANGED <<task, chunks, sections, reply, report, outcome, controlRows, attempt>>

\* The task service runs the graph again: after an error, or when it died
\* before it saved the report.
Again ==
  /\ node \in {"raised", "done"} /\ attempt < MaxAttempts
  /\ attempt' = attempt + 1
  /\ Anew
  /\ UNCHANGED <<task, controlRows>>

PipelineNext ==
  \/ \E p \in 0..MaxPolicy, h \in 0..MaxHistory : Gather(p, h)
  \/ Draft
  \/ \E answer \in Replies \cup {Unparsed} : Review(answer)
  \/ Parse \/ Verify \/ EvaluateReport \/ Persist \/ PersistFails \/ Raise \/ Again

PipelineSpec == PipelineInit /\ [][PipelineNext]_pipeline

-----------------------------------------------------------------------------
\* The sections that are drafted read the whole text in order, none longer
\* than its limit, each taking up what the last one ended with.
SectionsCover ==
  sections # <<>> =>
    /\ sections[1].from = 0 /\ sections[Len(sections)].to = task.text.length
    /\ \A i \in 1..(Len(sections) - 1) :
         /\ sections[i + 1].from = sections[i].to - Overlap
         /\ sections[i + 1].from > sections[i].from
    /\ Len(sections) > 1 => \A i \in DOMAIN sections : sections[i].to - sections[i].from <= SectionSize

\* Every source of a report stands for a chunk that the reviewer was given,
\* under an id and a chunk that no other source has; every usable threat is
\* in the report, under an id of its own unless the model wrote an id that
\* looks like a suffixed one.
Traceable ==
  report # NoReport =>
    /\ \A s \in report.sources : s.chunk \in Offered
    /\ \A s, t \in report.sources : s.id = t.id \/ s.chunk = t.chunk => s = t
    /\ report.parsed =>
         /\ Len(report.threats) = Cardinality({ i \in DOMAIN reply.threats : reply.threats[i].usable })
         /\ (\A i \in DOMAIN reply.threats : Len(reply.threats[i].id) < 2) =>
              \A i, j \in DOMAIN report.threats : report.threats[i] = report.threats[j] => i = j

\* Findings reach the project's controls in one piece: an attempt that did
\* not finish left no rows, one that did left all of its findings or none,
\* and a report that fails its evaluation leaves them all the same.
RowsAllOrNothing ==
  /\ \A a \in attempt..MaxAttempts : a > attempt \/ node # "done" => controlRows[a] = 0
  /\ node = "done" => controlRows[attempt] \in {0, report.findings}
  /\ task.project # "uuid" => \A a \in 1..MaxAttempts : controlRows[a] = 0

\* What a project gets of an assessment can be traced, and comes in one piece.
ReportTraceable == Traceable /\ RowsAllOrNothing
=============================================================================
