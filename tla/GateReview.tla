----------------------------- MODULE GateReview -----------------------------
(***************************************************************************)
(* The gates of one project: app/api/governance/submissions.py over the    *)
(* tables of app/models/governance/submission.py.                          *)
(*                                                                         *)
(* A handler reads the submission of a gate, or creates it, decides on     *)
(* what it read, assigns columns, appends an audit row and commits.  There *)
(* is no await in between, so with one process a handler is atomic; with   *)
(* several, another process may commit between the read and the commit.    *)
(* A commit writes only the columns the handler changed.                   *)
(*                                                                         *)
(* A handler that refuses its request leaves nothing behind: the row it    *)
(* may have created is rolled back.  A refusal is therefore no step.       *)
(***************************************************************************)
EXTENDS Naturals, Sequences

CONSTANTS
  Workers,      \* processes that serve requests
  Users,
  Role,         \* of each user; "superuser" stands for the flag is_superuser
  Anonymous,    \* the user of local development, id null, a superuser
  Gates,
  Seeded,       \* the gates that get a catalogue of requirements: gate 3
  Ids,          \* submission ids (uuid4, never reused)
  RowIds,       \* requirement row ids
  NoGate,       \* the submission does not exist
  NoRow,        \* the requirement row does not exist
  MaxEdits      \* bound: audit rows of operations that change no status

Roles == {"client", "security_reviewer", "security_approver", "admin", "superuser", "user"}

ASSUME RoleAssumption == Role \in [Users -> Roles]
ASSUME SentinelAssumption ==
  /\ Anonymous \notin Users
  /\ NoGate \notin Gates \cup Ids
  /\ NoRow \notin RowIds \cup Ids
ASSUME SeededAssumption == Seeded \subseteq Gates
ASSUME BoundsAssumption == MaxEdits \in Nat

VARIABLES
  submission,   \* rows of gate_submissions
  rows,         \* rows of requirement_rows, with their evidence_items
  request,      \* the transaction of each process
  trail,        \* of each submission: its audit rows that record a change of status
  edits         \* history: audit rows of other changes

vars == <<submission, rows, request, trail, edits>>

Actors == Users \cup {Anonymous}

Statuses ==
  {"draft", "pending", "approved", "changes_requested", "rejected", "rework", "completed"}

\* A submitter or reviewer that was never set is null, as is Anonymous's id.
Submission ==
  [gate: Gates \cup {NoGate}, status: Statuses, submitter: Actors, reviewer: Actors,
   comments: BOOLEAN, intake: BOOLEAN]

Draft(g) ==
  [gate |-> g, status |-> "draft", submitter |-> Anonymous, reviewer |-> Anonymous,
   comments |-> FALSE, intake |-> FALSE]

Absent == Draft(NoGate)

Requirement ==
  [of: Ids \cup {NoRow}, origin: {"client", "catalogue"}, evidence: BOOLEAN,
   review: {"pending_review", "accepted", "rejected", "needs_clarification"}]

NewRequirement(i, origin) ==
  [of |-> i, origin |-> origin, evidence |-> FALSE, review |-> "pending_review"]

NoRequirement == NewRequirement(NoRow, "client")

\* An audit row: gate.submit names no status, gate.review names both.
Entry ==
  [actor: Actors, action: {"gate.submit"}]
    \cup [actor: Actors, action: {"gate.review"}, from: Statuses, to: Statuses]

\* What a transaction read, what it makes of it, and what it adds.  entry has
\* at most one audit row; without one, the change of status is none.
Request ==
  [id: Ids \cup {NoGate}, seen: Submission, new: Submission,
   requirement: {"none", "client", "catalogue"}, entry: {<<>>} \cup {<<e>> : e \in Entry}]

Idle ==
  [id |-> NoGate, seen |-> Absent, new |-> Absent, requirement |-> "none", entry |-> <<>>]

TypeOK ==
  /\ submission \in [Ids -> Submission]
  /\ rows \in [RowIds -> Requirement]
  /\ request \in [Workers -> Request]
  /\ trail \in [Ids -> Seq(Entry)]
  /\ edits \in Nat

Init ==
  /\ submission = [i \in Ids |-> Absent]
  /\ rows = [r \in RowIds |-> NoRequirement]
  /\ request = [w \in Workers |-> Idle]
  /\ trail = [i \in Ids |-> <<>>]
  /\ edits = 0

-----------------------------------------------------------------------------
(***************************************************************************)
(* The transition table and the roles.                                     *)
(***************************************************************************)
Submitters == {"client", "security_reviewer", "admin"}
Reviewers == {"security_reviewer", "security_approver", "admin"}

Transitions ==
  { [from |-> "draft", to |-> "pending", by |-> Submitters],
    [from |-> "rework", to |-> "pending", by |-> Submitters],
    [from |-> "pending", to |-> "approved", by |-> Reviewers],
    [from |-> "pending", to |-> "changes_requested", by |-> Reviewers],
    [from |-> "pending", to |-> "rejected", by |-> Reviewers],
    [from |-> "changes_requested", to |-> "rework", by |-> {"client", "admin"}],
    [from |-> "approved", to |-> "completed", by |-> {"security_approver", "admin"}] }

RoleOf(u) == IF u = Anonymous THEN "superuser" ELSE Role[u]

Holds(u, roles) == RoleOf(u) \in roles \cup {"superuser"}

\* Variant: the roles are looked up, the transition is not
MayMoveAnywhere(u, from, to) == \E t \in Transitions : t.to = to /\ Holds(u, t.by)

MayMove(u, from, to) ==
  \E t \in Transitions : t.from = from /\ t.to = to /\ Holds(u, t.by)

CommentRequired == {<<"pending", "changes_requested">>, <<"pending", "rejected">>}

-----------------------------------------------------------------------------
(***************************************************************************)
(* Reading: the submission of a gate, or a new one.                        *)
(***************************************************************************)
Of(g) == {i \in Ids : submission[i].gate = g}

Unused == {i \in Ids : submission[i] = Absent /\ \A w \in Workers : request[w].id # i}

\* Variant: creates without looking
Created(g) == Unused

\* Any of the rows: .first() without an order
Found(g) == IF Of(g) = {} THEN Unused ELSE Of(g)

Seen(g, i) == IF submission[i] = Absent THEN Draft(g) ELSE submission[i]

Begin(w, i, seen, new, requirement, entry) ==
  /\ request[w] = Idle
  /\ request' = [request EXCEPT ![w] =
       [id |-> i, seen |-> seen, new |-> new, requirement |-> requirement, entry |-> entry]]
  /\ UNCHANGED <<submission, rows, trail, edits>>

\* Variant: does not look for rows of the submission
MissingAnyway(g, i) == g \in Seeded

\* Whether _seed_gate3_rows has to add the catalogue
Missing(g, i) == g \in Seeded /\ \A r \in RowIds : rows[r].of # i

\* The rows of the request come first, so that they count as existing ones.
Upsert(w, u, g) ==
  /\ Holds(u, Submitters)
  /\ edits < MaxEdits
  /\ \E i \in Found(g), intake \in BOOLEAN, requirement \in {"none", "client"} :
       Begin(w, i, Seen(g, i),
             [Seen(g, i) EXCEPT !.intake = @ \/ intake],
             IF requirement = "none" /\ Missing(g, i) THEN "catalogue" ELSE requirement,
             <<>>)

Submit(w, u, g) ==
  \E i \in Found(g) :
    /\ MayMove(u, Seen(g, i).status, "pending")
    /\ Begin(w, i, Seen(g, i),
             [Seen(g, i) EXCEPT !.status = "pending", !.submitter = u],
             "none", <<[actor |-> u, action |-> "gate.submit"]>>)

\* Variant: the submitter may review
OtherOrSame(u, seen) == TRUE

\* The comparison is skipped when nobody is known to have submitted.
IsOther(u, seen) == seen.submitter # Anonymous => seen.submitter # u

\* Variant: the reviewer is the one the request names
DecidedByPayload(seen, u, to, comments) ==
  [seen EXCEPT !.status = to, !.comments = comments, !.reviewer = to]

\* Variant: the comments are checked and not stored
DecidedWithoutComments(seen, u, to, comments) == [seen EXCEPT !.status = to, !.reviewer = u]

DecidedBy(seen, u, to, comments) ==
  [seen EXCEPT !.status = to, !.comments = comments, !.reviewer = u]

Review(w, u, g) ==
  \E i \in Found(g), to \in {"approved", "changes_requested", "rejected", "completed"},
     comments \in BOOLEAN :
    /\ MayMove(u, Seen(g, i).status, to)
    /\ IsOther(u, Seen(g, i))
    /\ <<Seen(g, i).status, to>> \in CommentRequired => comments
    /\ Begin(w, i, Seen(g, i), DecidedBy(Seen(g, i), u, to, comments), "none",
             <<[actor |-> u, action |-> "gate.review",
                from |-> Seen(g, i).status, to |-> to]>>)

-----------------------------------------------------------------------------
(***************************************************************************)
(* The end of a transaction.                                               *)
(***************************************************************************)
\* The columns whose value the handler changed are written, the others kept.
Merged(row, seen, new) ==
  [c \in DOMAIN new |-> IF new[c] = seen[c] THEN row[c] ELSE new[c]]

Written(row, seen, new) == IF row = Absent THEN new ELSE Merged(row, seen, new)

Commit(w) ==
  LET q == request[w] IN
  /\ q # Idle
  /\ submission' = [submission EXCEPT ![q.id] = Written(@, q.seen, q.new)]
  /\ \/ q.requirement = "none" /\ UNCHANGED rows
     \/ /\ q.requirement # "none"
        /\ \E r \in RowIds :
             /\ rows[r] = NoRequirement
             /\ rows' = [rows EXCEPT ![r] = NewRequirement(q.id, q.requirement)]
  /\ trail' = [trail EXCEPT ![q.id] = @ \o q.entry]
  /\ edits' = IF q.entry = <<>> THEN edits + 1 ELSE edits
  /\ request' = [request EXCEPT ![w] = Idle]

\* The transaction fails, or its process stops
Rollback(w) ==
  /\ request[w] # Idle
  /\ request' = [request EXCEPT ![w] = Idle]
  /\ UNCHANGED <<submission, rows, trail, edits>>

(***************************************************************************)
(* The handlers of one requirement row decide nothing on what they read,   *)
(* so that two of them at once are the same as one after the other.        *)
(***************************************************************************)
UpdateRow(u, r) ==
  /\ rows[r] # NoRequirement
  /\ Holds(u, Reviewers)
  /\ edits < MaxEdits
  /\ \E review \in {"pending_review", "accepted", "rejected", "needs_clarification"} :
       rows' = [rows EXCEPT ![r].review = review]
  /\ edits' = edits + 1
  /\ UNCHANGED <<submission, request, trail>>

AddEvidence(u, r) ==
  /\ rows[r] # NoRequirement
  /\ Holds(u, Submitters)
  /\ edits < MaxEdits
  /\ rows' = [rows EXCEPT ![r].evidence = TRUE]
  /\ edits' = edits + 1
  /\ UNCHANGED <<submission, request, trail>>

Next ==
  \/ \E w \in Workers, u \in Actors, g \in Gates :
       Upsert(w, u, g) \/ Submit(w, u, g) \/ Review(w, u, g)
  \/ \E w \in Workers : Commit(w) \/ Rollback(w)
  \/ \E u \in Actors, r \in RowIds : UpdateRow(u, r) \/ AddEvidence(u, r)

Spec == Init /\ [][Next]_vars

\* Transactions end, and every user tries to submit every gate for ever.
FairSpec ==
  /\ Spec
  /\ \A w \in Workers : WF_vars(Commit(w))
  /\ \A u \in Users, g \in Gates : WF_vars(\E w \in Workers : Submit(w, u, g))

-----------------------------------------------------------------------------
(***************************************************************************)
(* Properties.                                                             *)
(***************************************************************************)
Decisions == {"approved", "changes_requested", "rejected", "completed"}

\* Who decided about a gate is not who submitted it (review_gate; doc 08:
\* "A gate submitter cannot approve or reject the same gate").  The user of
\* local development has no id, and is not compared.
SeparationOfDuties ==
  \A i \in Ids :
    submission[i].status \in Decisions =>
      \/ submission[i].submitter = Anonymous
      \/ submission[i].submitter # submission[i].reviewer

\* The status an audit row leaves behind
To(e) == IF e.action = "gate.submit" THEN "pending" ELSE e.to

After(t, n) == IF n = 0 THEN "draft" ELSE To(t[n])

\* A sequence of audit rows that leads to the state s of a gate: its rows are
\* steps of the transition table, each by a user who holds a role for it, each
\* review names the status it was decided on, and the last of them left the
\* status and the last actor of s.
Explains(t, s) ==
  /\ \A n \in 1..Len(t) :
       /\ \E x \in Transitions :
            x.from = After(t, n - 1) /\ x.to = To(t[n]) /\ Holds(t[n].actor, x.by)
       /\ t[n].action = "gate.review" => t[n].from = After(t, n - 1)
  /\ s.status = After(t, Len(t))
  /\ t # <<>> => IF t[Len(t)].action = "gate.submit"
                 THEN s.submitter = t[Len(t)].actor
                 ELSE s.reviewer = t[Len(t)].actor

\* The audit log alone tells the state of a gate and how it was reached (the
\* rows of submit_gate and review_gate; doc 08 wants a decision "reproducible,
\* attributable").
TrailExplains == \A i \in Ids : Explains(trail[i], submission[i])

\* A project has one submission per gate, whatever order its handlers create
\* it in (_get_or_create_submission; the table has no such constraint).
OneSubmission ==
  \A i, j \in Ids :
    submission[i].gate = submission[j].gate /\ submission[i].gate # NoGate => i = j

\* The catalogue is added at most once to a submission, and to none of another
\* gate, however often the submission is updated (_seed_gate3_rows).
CatalogueOnce ==
  \A r, s \in RowIds :
    rows[r].origin = "catalogue" /\ rows[s].origin = "catalogue" /\ rows[r].of = rows[s].of
      => r = s /\ submission[rows[r].of].gate \in Seeded

\* A gate with requested changes is submitted again, if everyone who may do so
\* keeps trying (the transitions of changes_requested and rework).
Resubmitted ==
  \A i \in Ids :
    submission[i].status = "changes_requested" ~> submission[i].status = "pending"

(***************************************************************************)
(* What the gates promise, whatever rows and transactions they are made    *)
(* of: the state of a gate is that of its submission.                      *)
(***************************************************************************)
\* The submission of gate g among those of a table, or none yet
SubmissionIn(table, g) ==
  LET own == {i \in Ids : table[i].gate = g}
  IN  IF own = {} THEN Draft(g) ELSE table[CHOOSE i \in own : TRUE]

Lifecycle ==
  INSTANCE GateLifecycle WITH
    status <- [g \in Gates |-> SubmissionIn(submission, g).status],
    submitter <- [g \in Gates |-> SubmissionIn(submission, g).submitter],
    reviewer <- [g \in Gates |-> SubmissionIn(submission, g).reviewer],
    comments <- [g \in Gates |-> SubmissionIn(submission, g).comments],
    Allowed <- {move \in Actors \X Statuses \X Statuses : MayMove(move[1], move[2], move[3])},
    Explained <- CommentRequired

\* However its handlers' reads and writes interleave with requirements, evidence,
\* failures and stops, a gate has one state, and each change of it is one
\* submission or one decision that was allowed in the state the gate is in then:
\* by who may, about somebody else's submission, with comments where they are
\* required (submit_gate, review_gate, GATE_STATUS_TRANSITIONS).
ImplementsGate == Lifecycle!Spec

(***************************************************************************)
(* The inductive invariant, for one process.                               *)
(***************************************************************************)
OneProcess == \A v, w \in Workers : v = w

\* What a transaction read is still there, and what it makes of it is a step
\* of the table, by someone who may take it.
Sound(q) ==
  /\ q.id \in Ids
  /\ q.new.gate \in Gates
  /\ q.seen = Seen(q.new.gate, q.id)
  /\ q.seen.gate = q.new.gate
  /\ submission[q.id] = Absent => Of(q.new.gate) = {}
  /\ q.requirement = "catalogue" => Missing(q.new.gate, q.id)
  /\ q.entry = <<>> =>
       /\ q.new.status = q.seen.status
       /\ q.new.submitter = q.seen.submitter
       /\ q.new.reviewer = q.seen.reviewer
       /\ q.new.comments = q.seen.comments
  /\ \A e \in Entry : q.entry = <<e>> =>
       /\ MayMove(e.actor, q.seen.status, To(e))
       /\ q.new.status = To(e)
       /\ e.action = "gate.submit" =>
            /\ q.new.submitter = e.actor
            /\ q.new.reviewer = q.seen.reviewer
            /\ q.new.comments = q.seen.comments
       /\ e.action = "gate.review" =>
            /\ e.from = q.seen.status /\ e.to \in Decisions
            /\ q.new.reviewer = e.actor
            /\ q.new.submitter = q.seen.submitter
            /\ IsOther(e.actor, q.seen)
            /\ <<e.from, e.to>> \in CommentRequired => q.new.comments

\* Requirements belong to submissions that exist.
RowsOfSubmissions ==
  \A r \in RowIds :
    /\ rows[r].of # NoRow => submission[rows[r].of] # Absent
    /\ rows[r].of = NoRow => rows[r].origin = "client"

Consistent == \A w \in Workers : request[w] # Idle => Sound(request[w])

IInv ==
  /\ TypeOK
  /\ Consistent
  /\ RowsOfSubmissions
  /\ OneSubmission
  /\ SeparationOfDuties
  /\ TrailExplains
  /\ CatalogueOnce
=============================================================================
