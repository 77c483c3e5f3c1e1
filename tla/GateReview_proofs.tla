-------------------------- MODULE GateReview_proofs --------------------------
(***************************************************************************)
(* Proofs about GateReview.  Types hold for any number of processes; the   *)
(* safety properties hold if one process serves the requests.              *)
(***************************************************************************)
EXTENDS GateReview, SequenceTheorems, TLAPS

-----------------------------------------------------------------------------
(***************************************************************************)
(* Types.                                                                  *)
(***************************************************************************)
\* What a transaction reads is a submission of its gate.
LEMMA SeenType ==
  ASSUME TypeOK, NEW g \in Gates, NEW i \in Found(g)
  PROVE  /\ i \in Ids
         /\ Seen(g, i) \in Submission
         /\ Seen(g, i).gate = g
<1>1. i \in Ids
  BY DEF Found, Of, Unused
<1>2. CASE submission[i] = Absent
  BY <1>1, <1>2 DEF Seen, Draft, Submission, Actors, Statuses
<1>3. CASE submission[i] # Absent
  BY <1>1, <1>3 DEF Seen, Found, Of, Unused, TypeOK
<1>4. QED
  BY <1>1, <1>2, <1>3

LEMMA ActorType == Anonymous \in Actors /\ Users \subseteq Actors
BY DEF Actors

LEMMA IdleType == Absent \in Submission /\ Idle \in Request
BY ActorType DEF Idle, Request, Absent, Draft, Submission, Statuses

\* A handler begins a transaction that has the type of one.
LEMMA BeginType ==
  ASSUME TypeOK, NEW w \in Workers, NEW q \in Request,
         Begin(w, q.id, q.seen, q.new, q.requirement, q.entry)
  PROVE  TypeOK' /\ request' = [request EXCEPT ![w] = q]
<1>1. q = [id |-> q.id, seen |-> q.seen, new |-> q.new, requirement |-> q.requirement,
           entry |-> q.entry]
  BY DEF Request
<1>2. request' = [request EXCEPT ![w] = q]
  BY <1>1 DEF Begin
<1>3. QED
  BY <1>2 DEF Begin, TypeOK

-----------------------------------------------------------------------------
(***************************************************************************)
(* What a handler begins is sound.                                         *)
(***************************************************************************)
LEMMA FoundFirst ==
  ASSUME NEW g \in Gates, NEW i \in Found(g)
  PROVE  submission[i] = Absent => Of(g) = {}
BY SentinelAssumption DEF Found, Of, Absent, Draft

LEMMA UpsertBegins ==
  ASSUME TypeOK, NEW w \in Workers, NEW u \in Actors, NEW g \in Gates, Upsert(w, u, g)
  PROVE  \E q \in Request :
           Begin(w, q.id, q.seen, q.new, q.requirement, q.entry) /\ Sound(q)
<1>1. PICK i \in Found(g), intake \in BOOLEAN, requirement \in {"none", "client"} :
        Begin(w, i, Seen(g, i),
              [Seen(g, i) EXCEPT !.intake = @ \/ intake],
              IF requirement = "none" /\ Missing(g, i) THEN "catalogue" ELSE requirement,
              <<>>)
  BY DEF Upsert
<1>. DEFINE seen == Seen(g, i)
            new == [seen EXCEPT !.intake = @ \/ intake]
            added == IF requirement = "none" /\ Missing(g, i) THEN "catalogue" ELSE requirement
            q == [id |-> i, seen |-> seen, new |-> new, requirement |-> added,
                  entry |-> <<>>]
<1>2. i \in Ids /\ seen \in Submission /\ seen.gate = g
  BY SeenType
<1>3. /\ new \in Submission
      /\ new.gate = g /\ new.status = seen.status
      /\ new.submitter = seen.submitter /\ new.reviewer = seen.reviewer
      /\ new.comments = seen.comments
  BY <1>2 DEF Submission
<1>4. added \in {"none", "client", "catalogue"} /\ (added = "catalogue" => Missing(g, i))
  OBVIOUS
<1>. HIDE DEF added, new, seen
<1>5. q \in Request
  BY <1>2, <1>3, <1>4 DEF Request
<1>6. Begin(w, q.id, q.seen, q.new, q.requirement, q.entry)
  BY <1>1 DEF new, added, seen
<1>7. Sound(q)
  <2>1. submission[i] = Absent => Of(g) = {}
    BY FoundFirst
  <2>2. \A e \in Entry : q.entry # <<e>>
    OBVIOUS
  <2>3. q.seen = Seen(g, i)
    BY DEF seen
  <2>4. QED
    BY <1>2, <1>3, <1>4, <2>1, <2>2, <2>3 DEF Sound
<1>8. QED
  BY <1>5, <1>6, <1>7

LEMMA SubmitBegins ==
  ASSUME TypeOK, NEW w \in Workers, NEW u \in Actors, NEW g \in Gates, Submit(w, u, g)
  PROVE  \E q \in Request :
           Begin(w, q.id, q.seen, q.new, q.requirement, q.entry) /\ Sound(q)
<1>1. PICK i \in Found(g) :
        /\ MayMove(u, Seen(g, i).status, "pending")
        /\ Begin(w, i, Seen(g, i),
                 [Seen(g, i) EXCEPT !.status = "pending", !.submitter = u],
                 "none", <<[actor |-> u, action |-> "gate.submit"]>>)
  BY DEF Submit
<1>. DEFINE seen == Seen(g, i)
            new == [seen EXCEPT !.status = "pending", !.submitter = u]
            entry == [actor |-> u, action |-> "gate.submit"]
            q == [id |-> i, seen |-> seen, new |-> new, requirement |-> "none",
                  entry |-> <<entry>>]
<1>2. i \in Ids /\ seen \in Submission /\ seen.gate = g
  BY SeenType
<1>3. /\ new \in Submission
      /\ new.gate = g /\ new.status = "pending" /\ new.submitter = u
      /\ new.reviewer = seen.reviewer /\ new.comments = seen.comments
  BY <1>2 DEF Submission, Statuses
<1>4. entry \in Entry /\ entry.actor = u /\ entry.action = "gate.submit"
  BY DEF Entry
<1>. HIDE DEF entry, new, seen
<1>5. q \in Request
  BY <1>2, <1>3, <1>4 DEF Request
<1>6. Begin(w, q.id, q.seen, q.new, q.requirement, q.entry)
  BY <1>1 DEF new, entry, seen
<1>7. Sound(q)
  <2>1. submission[i] = Absent => Of(g) = {}
    BY FoundFirst
  <2>2. q.entry # <<>> /\ \A e \in Entry : q.entry = <<e>> => e = entry
    OBVIOUS
  <2>3. q.seen = Seen(g, i)
    BY DEF seen
  <2>4. MayMove(entry.actor, q.seen.status, To(entry)) /\ q.new.status = To(entry)
    BY <1>1, <1>3, <1>4, <2>3 DEF To
  <2>5. QED
    BY <1>2, <1>3, <1>4, <2>1, <2>2, <2>3, <2>4 DEF Sound
<1>8. QED
  BY <1>5, <1>6, <1>7

LEMMA ReviewBegins ==
  ASSUME TypeOK, NEW w \in Workers, NEW u \in Actors, NEW g \in Gates, Review(w, u, g)
  PROVE  \E q \in Request :
           Begin(w, q.id, q.seen, q.new, q.requirement, q.entry) /\ Sound(q)
<1>1. PICK i \in Found(g), to \in {"approved", "changes_requested", "rejected", "completed"},
           comments \in BOOLEAN :
        /\ MayMove(u, Seen(g, i).status, to)
        /\ IsOther(u, Seen(g, i))
        /\ <<Seen(g, i).status, to>> \in CommentRequired => comments
        /\ Begin(w, i, Seen(g, i), DecidedBy(Seen(g, i), u, to, comments), "none",
                 <<[actor |-> u, action |-> "gate.review",
                    from |-> Seen(g, i).status, to |-> to]>>)
  BY DEF Review
<1>. DEFINE seen == Seen(g, i)
            new == DecidedBy(seen, u, to, comments)
            entry == [actor |-> u, action |-> "gate.review", from |-> seen.status, to |-> to]
            q == [id |-> i, seen |-> seen, new |-> new, requirement |-> "none",
                  entry |-> <<entry>>]
<1>2. i \in Ids /\ seen \in Submission /\ seen.gate = g
  BY SeenType
<1>3. /\ new \in Submission
      /\ new.gate = g /\ new.status = to /\ new.reviewer = u
      /\ new.submitter = seen.submitter /\ new.comments = comments
  BY <1>2 DEF Submission, Statuses, DecidedBy
<1>4. /\ entry \in Entry /\ entry.actor = u /\ entry.action = "gate.review"
      /\ entry.from = seen.status /\ entry.to = to /\ to \in Decisions
  BY <1>2 DEF Entry, Submission, Statuses, Decisions
<1>. HIDE DEF entry, new, seen
<1>5. q \in Request
  BY <1>2, <1>3, <1>4 DEF Request
<1>6. Begin(w, q.id, q.seen, q.new, q.requirement, q.entry)
  BY <1>1 DEF new, entry, seen
<1>7. Sound(q)
  <2>1. submission[i] = Absent => Of(g) = {}
    BY FoundFirst
  <2>2. q.entry # <<>> /\ \A e \in Entry : q.entry = <<e>> => e = entry
    OBVIOUS
  <2>3. q.seen = Seen(g, i)
    BY DEF seen
  <2>4. /\ MayMove(entry.actor, q.seen.status, To(entry)) /\ q.new.status = To(entry)
        /\ IsOther(entry.actor, q.seen)
        /\ <<entry.from, entry.to>> \in CommentRequired => q.new.comments
    BY <1>1, <1>3, <1>4, <2>3 DEF To
  <2>5. QED
    BY <1>2, <1>3, <1>4, <2>1, <2>2, <2>3, <2>4 DEF Sound
<1>8. QED
  BY <1>5, <1>6, <1>7

LEMMA HandlerBegins ==
  ASSUME TypeOK, NEW w \in Workers, NEW u \in Actors, NEW g \in Gates,
         Upsert(w, u, g) \/ Submit(w, u, g) \/ Review(w, u, g)
  PROVE  \E q \in Request :
           Begin(w, q.id, q.seen, q.new, q.requirement, q.entry) /\ Sound(q)
<1>1. CASE Upsert(w, u, g)
  BY <1>1, UpsertBegins
<1>2. CASE Submit(w, u, g)
  BY <1>2, SubmitBegins
<1>3. CASE Review(w, u, g)
  BY <1>3, ReviewBegins
<1>4. QED
  BY <1>1, <1>2, <1>3

-----------------------------------------------------------------------------
(***************************************************************************)
(* Types are kept by every step.                                           *)
(***************************************************************************)
LEMMA WrittenType ==
  ASSUME NEW row \in Submission, NEW seen \in Submission, NEW new \in Submission
  PROVE  Written(row, seen, new) \in Submission
<1>. DEFINE Col(c) == IF new[c] = seen[c] THEN row[c] ELSE new[c]
<1>1. DOMAIN new = {"gate", "status", "submitter", "reviewer", "comments", "intake"}
  BY DEF Submission
<1>2. Merged(row, seen, new) =
        [gate |-> Col("gate"), status |-> Col("status"), submitter |-> Col("submitter"),
         reviewer |-> Col("reviewer"), comments |-> Col("comments"),
         intake |-> Col("intake")]
  BY <1>1 DEF Merged
<1>3. /\ Col("gate") \in Gates \cup {NoGate} /\ Col("status") \in Statuses
      /\ Col("submitter") \in Actors /\ Col("reviewer") \in Actors
      /\ Col("comments") \in BOOLEAN /\ Col("intake") \in BOOLEAN
  BY DEF Submission
<1>. HIDE DEF Col
<1>4. Merged(row, seen, new) \in Submission
  BY <1>2, <1>3 DEF Submission
<1>5. QED
  BY <1>4 DEF Written

LEMMA CommitType ==
  ASSUME TypeOK, NEW w \in Workers, Commit(w), request[w].id \in Ids
  PROVE  TypeOK'
<1>. DEFINE q == request[w]
<1>1. q \in Request
  BY DEF TypeOK
<1>2. submission' \in [Ids -> Submission]
  <2>1. Written(submission[q.id], q.seen, q.new) \in Submission
    BY <1>1, WrittenType DEF TypeOK, Request
  <2>2. QED
    BY <2>1 DEF Commit, TypeOK
<1>3. rows' \in [RowIds -> Requirement]
  <2>1. CASE rows' = rows
    BY <2>1 DEF TypeOK
  <2>2. CASE q.requirement # "none"
    <3>1. q.requirement \in {"client", "catalogue"} /\ q.id \in Ids
      BY <1>1, <2>2 DEF Request
    <3>2. NewRequirement(q.id, q.requirement) \in Requirement
      BY <3>1 DEF Requirement, NewRequirement
    <3>3. QED
      BY <2>2, <3>2 DEF Commit, TypeOK
  <2>3. QED
    BY <2>1, <2>2 DEF Commit
<1>4. request' \in [Workers -> Request]
  BY IdleType DEF Commit, TypeOK
<1>5. trail' \in [Ids -> Seq(Entry)]
  <2>1. q.entry \in Seq(Entry)
    <3>1. q.entry = <<>> \/ \E e \in Entry : q.entry = <<e>>
      BY <1>1 DEF Request
    <3>2. \A e \in Entry : <<e>> \in Seq(Entry)
      OBVIOUS
    <3>3. <<>> \in Seq(Entry)
      BY EmptySeq
    <3>4. QED
      BY <3>1, <3>2, <3>3
  <2>2. trail[q.id] \o q.entry \in Seq(Entry)
    BY <2>1 DEF TypeOK
  <2>3. QED
    BY <2>2 DEF Commit, TypeOK
<1>6. edits' \in Nat
  BY DEF Commit, TypeOK
<1>7. QED
  BY <1>2, <1>3, <1>4, <1>5, <1>6 DEF TypeOK

\* The other steps write no submission, and no trail, and leave every
\* requirement with its submission and its origin.
LEMMA OtherSteps ==
  ASSUME TypeOK,
         \/ UNCHANGED vars
         \/ \E w \in Workers : Rollback(w)
         \/ \E u \in Actors, r \in RowIds : UpdateRow(u, r) \/ AddEvidence(u, r)
  PROVE  /\ TypeOK'
         /\ submission' = submission /\ trail' = trail
         /\ \A r \in RowIds : rows'[r].of = rows[r].of /\ rows'[r].origin = rows[r].origin
         /\ \A w \in Workers : request'[w] = request[w] \/ request'[w] = Idle
<1>1. CASE UNCHANGED vars
  BY <1>1 DEF vars, TypeOK
<1>2. CASE \E w \in Workers : Rollback(w)
  BY <1>2, IdleType DEF Rollback, TypeOK
<1>3. ASSUME NEW u \in Actors, NEW r \in RowIds, UpdateRow(u, r) \/ AddEvidence(u, r)
      PROVE  /\ TypeOK'
             /\ submission' = submission /\ trail' = trail /\ request' = request
             /\ \A s \in RowIds : rows'[s].of = rows[s].of /\ rows'[s].origin = rows[s].origin
  <2>1. rows[r] \in Requirement
    BY DEF TypeOK
  <2>2. CASE UpdateRow(u, r)
    <3>1. PICK review \in {"pending_review", "accepted", "rejected", "needs_clarification"} :
            rows' = [rows EXCEPT ![r].review = review]
      BY <2>2 DEF UpdateRow
    <3>2. [rows[r] EXCEPT !.review = review] \in Requirement
      BY <2>1 DEF Requirement
    <3>3. rows' = [rows EXCEPT ![r] = [rows[r] EXCEPT !.review = review]]
      BY <3>1
    <3>4. \A s \in RowIds : rows'[s].of = rows[s].of /\ rows'[s].origin = rows[s].origin
      BY <2>1, <3>3 DEF TypeOK, Requirement
    <3>5. QED
      BY <2>2, <3>2, <3>3, <3>4 DEF UpdateRow, TypeOK
  <2>3. CASE AddEvidence(u, r)
    <3>1. [rows[r] EXCEPT !.evidence = TRUE] \in Requirement
      BY <2>1 DEF Requirement
    <3>2. QED
      BY <2>1, <2>3, <3>1 DEF AddEvidence, TypeOK, Requirement
  <2>4. QED
    BY <1>3, <2>2, <2>3
<1>4. QED
  BY <1>1, <1>2, <1>3

-----------------------------------------------------------------------------
(***************************************************************************)
(* Type correctness, for any number of processes.                          *)
(***************************************************************************)
OpenIds == \A w \in Workers : request[w] # Idle => request[w].id \in Ids

LEMMA InitTyped == Init => TypeOK /\ OpenIds
<1>1. SUFFICES ASSUME Init PROVE TypeOK /\ OpenIds
  OBVIOUS
<1>2. NoRequirement \in Requirement
  BY DEF NoRequirement, NewRequirement, Requirement
<1>3. <<>> \in Seq(Entry)
  BY EmptySeq
<1>4. /\ submission \in [Ids -> Submission]
      /\ request \in [Workers -> Request]
      /\ OpenIds
  BY <1>1, IdleType DEF Init, OpenIds
<1>5. rows \in [RowIds -> Requirement] /\ trail \in [Ids -> Seq(Entry)] /\ edits \in Nat
  BY <1>1, <1>2, <1>3 DEF Init
<1>6. QED
  BY <1>4, <1>5 DEF TypeOK

\* Every reachable state has the types of TypeOK: in particular no handler
\* stores a status or an actor that the columns are not meant for.
THEOREM TypeCorrect == Spec => []TypeOK
<1>1. Init => TypeOK /\ OpenIds
  BY InitTyped
<1>2. TypeOK /\ OpenIds /\ [Next]_vars => (TypeOK /\ OpenIds)'
  <2>1. SUFFICES ASSUME TypeOK, OpenIds, [Next]_vars PROVE TypeOK' /\ OpenIds'
    OBVIOUS
  <2>2. ASSUME NEW w \in Workers, NEW u \in Actors, NEW g \in Gates,
               Upsert(w, u, g) \/ Submit(w, u, g) \/ Review(w, u, g)
        PROVE  TypeOK' /\ OpenIds'
    <3>1. PICK q \in Request :
            Begin(w, q.id, q.seen, q.new, q.requirement, q.entry) /\ Sound(q)
      BY <2>1, <2>2, HandlerBegins
    <3>2. TypeOK' /\ request' = [request EXCEPT ![w] = q]
      BY <2>1, <3>1, BeginType
    <3>3. q.id \in Ids
      BY <3>1 DEF Sound
    <3>4. QED
      BY <2>1, <3>2, <3>3 DEF OpenIds, TypeOK
  <2>3. ASSUME NEW w \in Workers, Commit(w)
        PROVE  TypeOK' /\ OpenIds'
    <3>1. request[w].id \in Ids /\ request' = [request EXCEPT ![w] = Idle]
      BY <2>1, <2>3 DEF Commit, OpenIds
    <3>2. QED
      BY <2>1, <2>3, <3>1, CommitType DEF OpenIds, TypeOK
  <2>4. CASE \/ UNCHANGED vars
             \/ \E w \in Workers : Rollback(w)
             \/ \E u \in Actors, r \in RowIds : UpdateRow(u, r) \/ AddEvidence(u, r)
    BY <2>1, <2>4, OtherSteps DEF OpenIds
  <2>5. QED
    BY <2>1, <2>2, <2>3, <2>4 DEF Next
<1>3. QED
  BY <1>1, <1>2, PTL DEF Spec

-----------------------------------------------------------------------------
(***************************************************************************)
(* One process.                                                            *)
(***************************************************************************)
\* An audit row that records a step of the table extends the explanation.
LEMMA Extended ==
  ASSUME NEW t \in Seq(Entry), NEW e \in Entry,
         NEW s \in Submission, NEW new \in Submission,
         Explains(t, s),
         MayMove(e.actor, s.status, To(e)),
         new.status = To(e),
         e.action = "gate.submit" => new.submitter = e.actor,
         e.action = "gate.review" => e.from = s.status /\ new.reviewer = e.actor
  PROVE  Explains(t \o <<e>>, new)
<1>. DEFINE tt == t \o <<e>>
<1>1. /\ Len(t) \in Nat /\ tt # <<>> /\ Len(tt) = Len(t) + 1
      /\ \A n \in 1..Len(t) : tt[n] = t[n]
      /\ tt[Len(t) + 1] = e
  OBVIOUS
<1>2. e.action \in {"gate.submit", "gate.review"}
  BY DEF Entry
<1>3. \A n \in 0..Len(t) : After(tt, n) = After(t, n)
  BY <1>1 DEF After
<1>4. After(tt, Len(t) + 1) = To(e) /\ After(t, Len(t)) = s.status
  BY <1>1 DEF After, Explains
<1>. HIDE DEF tt
<1>5. ASSUME NEW n \in 1..Len(tt)
      PROVE  /\ \E x \in Transitions : /\ x.from = After(tt, n - 1)
                                      /\ x.to = To(tt[n])
                                      /\ Holds(tt[n].actor, x.by)
             /\ tt[n].action = "gate.review" => tt[n].from = After(tt, n - 1)
  <2>1. CASE n \in 1..Len(t)
    <3>1. n - 1 \in 0..Len(t)
      BY <1>1, <2>1
    <3>2. After(tt, n - 1) = After(t, n - 1) /\ tt[n] = t[n]
      BY <1>1, <1>3, <2>1, <3>1
    <3>3. QED
      BY <2>1, <3>2 DEF Explains
  <2>2. CASE n = Len(t) + 1
    <3>1. n - 1 = Len(t) /\ Len(t) \in 0..Len(t)
      BY <1>1, <2>2
    <3>2. After(tt, n - 1) = s.status /\ tt[n] = e
      BY <1>1, <1>3, <1>4, <2>2, <3>1
    <3>3. QED
      BY <3>2 DEF MayMove
  <2>3. QED
    BY <1>1, <2>1, <2>2
<1>6. IF tt[Len(tt)].action = "gate.submit"
      THEN new.submitter = tt[Len(tt)].actor
      ELSE new.reviewer = tt[Len(tt)].actor
  BY <1>1, <1>2
<1>7. Explains(tt, new)
  BY <1>1, <1>4, <1>5, <1>6 DEF Explains
<1>8. QED
  BY <1>7 DEF tt

\* A sound transaction stays sound as long as submissions and the owners of
\* requirements stay.
LEMMA StaysSound ==
  ASSUME submission' = submission,
         \A r \in RowIds : rows'[r].of = rows[r].of
  PROVE  \A q : Sound(q) => Sound(q)'
BY DEF Sound, Seen, Of, Missing

\* With one process a commit stores what the handler made of the submission.
LEMMA CommitStores ==
  ASSUME TypeOK, NEW w \in Workers, Commit(w), Sound(request[w])
  PROVE  submission' = [submission EXCEPT ![request[w].id] = request[w].new]
<1>. DEFINE q == request[w]
<1>1. q.new \in Submission /\ q.seen \in Submission
  BY DEF TypeOK, Request
<1>2. CASE submission[q.id] = Absent
  BY <1>2 DEF Commit, Written
<1>3. CASE submission[q.id] # Absent
  <2>1. submission[q.id] = q.seen
    BY <1>3 DEF Sound, Seen
  <2>2. Merged(q.seen, q.seen, q.new) = q.new
    <3>1. Merged(q.seen, q.seen, q.new) = [c \in DOMAIN q.new |-> q.new[c]]
      BY DEF Merged
    <3>2. q.new = [c \in DOMAIN q.new |-> q.new[c]]
      BY <1>1 DEF Submission
    <3>3. QED
      BY <3>1, <3>2
  <2>3. QED
    BY <1>3, <2>1, <2>2 DEF Commit, Written
<1>4. QED
  BY <1>2, <1>3

\* What the handler made of the submission is of the gate it belonged to.
LEMMA CommitGate ==
  ASSUME IInv, NEW w \in Workers, Commit(w), Sound(request[w])
  PROVE  /\ request[w].new # Absent
         /\ submission[request[w].id] # Absent =>
              /\ submission[request[w].id] = request[w].seen
              /\ submission[request[w].id].gate = request[w].new.gate
         /\ submission[request[w].id] = Absent => request[w].seen = Draft(request[w].new.gate)
BY SentinelAssumption DEF Sound, Seen, Absent, Draft

LEMMA CommitOneSubmission ==
  ASSUME IInv, NEW w \in Workers, Commit(w), Sound(request[w])
  PROVE  OneSubmission'
<1>. DEFINE q == request[w]
<1>1. submission' = [submission EXCEPT ![q.id] = q.new] /\ q.id \in Ids
  BY CommitStores DEF IInv, Sound
<1>2. ASSUME NEW j \in Ids, j # q.id, submission[j].gate = q.new.gate
      PROVE  FALSE
  <2>1. CASE submission[q.id] = Absent
    <3>1. Of(q.new.gate) = {}
      BY <2>1 DEF Sound
    <3>2. QED
      BY <1>2, <3>1 DEF Of
  <2>2. CASE submission[q.id] # Absent
    <3>1. submission[q.id].gate = submission[j].gate /\ submission[j].gate # NoGate
      BY <1>2, <2>2, CommitGate, SentinelAssumption DEF Sound
    <3>2. QED
      BY <1>1, <1>2, <3>1 DEF IInv, OneSubmission
  <2>3. QED
    BY <2>1, <2>2
<1>3. /\ submission'[q.id] = q.new
      /\ \A j \in Ids : j # q.id => submission'[j] = submission[j]
  BY <1>1 DEF IInv, TypeOK
<1>4. QED
  BY <1>1, <1>2, <1>3 DEF IInv, OneSubmission

LEMMA CommitExplained ==
  ASSUME IInv, NEW w \in Workers, Commit(w), Sound(request[w])
  PROVE  TrailExplains' /\ SeparationOfDuties'
<1>. DEFINE q == request[w]
            s == submission[q.id]
            t == trail[q.id]
<1>1. submission' = [submission EXCEPT ![q.id] = q.new] /\ q.id \in Ids
  BY CommitStores DEF IInv, Sound
<1>2. trail' = [trail EXCEPT ![q.id] = t \o q.entry]
  BY DEF Commit
<1>3. /\ s \in Submission /\ q.seen \in Submission /\ q.new \in Submission
      /\ t \in Seq(Entry) /\ q.entry \in {<<>>} \cup {<<e>> : e \in Entry}
  BY <1>1 DEF IInv, TypeOK, Request
<1>4. /\ q.seen.status = s.status
      /\ q.seen.submitter = s.submitter
      /\ q.seen.reviewer = s.reviewer
  <2>1. CASE s = Absent
    <3>1. q.seen = Draft(q.new.gate) /\ s = Draft(NoGate)
      BY <2>1, CommitGate DEF Absent
    <3>2. \A g : /\ Draft(g).status = "draft"
                 /\ Draft(g).submitter = Anonymous
                 /\ Draft(g).reviewer = Anonymous
      BY DEF Draft
    <3>3. QED
      BY <3>1, <3>2
  <2>2. CASE s # Absent
    BY <2>2, CommitGate
  <2>3. QED
    BY <2>1, <2>2
<1>5. Explains(t, q.seen)
  BY <1>1, <1>4 DEF IInv, TrailExplains, Explains
<1>6. /\ Explains(t \o q.entry, q.new)
      /\ q.new.status \in Decisions =>
           q.new.submitter = Anonymous \/ q.new.submitter # q.new.reviewer
  <2>1. CASE q.entry = <<>>
    <3>1. /\ q.new.status = q.seen.status
          /\ q.new.submitter = q.seen.submitter
          /\ q.new.reviewer = q.seen.reviewer
      BY <2>1 DEF Sound
    <3>2. t \o q.entry = t
      BY <1>3, <2>1
    <3>3. Explains(t, q.new)
      BY <1>5, <3>1 DEF Explains
    <3>4. QED
      BY <1>1, <1>4, <3>1, <3>2, <3>3 DEF IInv, SeparationOfDuties
  <2>2. ASSUME NEW e \in Entry, q.entry = <<e>>
        PROVE  /\ Explains(t \o q.entry, q.new)
               /\ q.new.status \in Decisions =>
                    q.new.submitter = Anonymous \/ q.new.submitter # q.new.reviewer
    <3>1. /\ MayMove(e.actor, q.seen.status, To(e))
          /\ q.new.status = To(e)
          /\ e.action = "gate.submit" => q.new.submitter = e.actor
          /\ e.action = "gate.review" =>
               /\ e.from = q.seen.status
               /\ q.new.reviewer = e.actor
               /\ q.new.submitter = q.seen.submitter
               /\ IsOther(e.actor, q.seen)
      BY <2>2 DEF Sound
    <3>2. Explains(t \o <<e>>, q.new)
      BY <1>3, <1>5, <3>1, Extended
    <3>3. CASE e.action = "gate.submit"
      BY <2>2, <3>1, <3>2, <3>3 DEF To, Decisions
    <3>4. CASE e.action = "gate.review"
      BY <2>2, <3>1, <3>2, <3>4 DEF IsOther
    <3>5. QED
      BY <3>3, <3>4 DEF Entry
  <2>3. QED
    BY <1>3, <2>1, <2>2
<1>7. /\ submission'[q.id] = q.new /\ trail'[q.id] = t \o q.entry
      /\ \A i \in Ids : i # q.id => submission'[i] = submission[i] /\ trail'[i] = trail[i]
  BY <1>1, <1>2 DEF IInv, TypeOK
<1>8. TrailExplains'
  <2>1. ASSUME NEW i \in Ids PROVE Explains(trail'[i], submission'[i])
    <3>1. CASE i = q.id
      BY <1>6, <1>7, <3>1
    <3>2. CASE i # q.id
      BY <1>7, <3>2 DEF IInv, TrailExplains
    <3>3. QED
      BY <3>1, <3>2
  <2>2. QED
    BY <2>1 DEF TrailExplains, Explains
<1>9. SeparationOfDuties'
  BY <1>6, <1>7 DEF IInv, SeparationOfDuties
<1>10. QED
  BY <1>8, <1>9

LEMMA CommitCatalogue ==
  ASSUME IInv, NEW w \in Workers, Commit(w), Sound(request[w])
  PROVE  RowsOfSubmissions' /\ CatalogueOnce'
<1>. DEFINE q == request[w]
<1>1. submission' = [submission EXCEPT ![q.id] = q.new] /\ q.id \in Ids
  BY CommitStores DEF IInv, Sound
<1>2. \A i \in Ids : submission[i] # Absent =>
        submission'[i] # Absent /\ submission'[i].gate = submission[i].gate
  <2>1. SUFFICES ASSUME NEW i \in Ids, submission[i] # Absent
                 PROVE  submission'[i] # Absent /\ submission'[i].gate = submission[i].gate
    OBVIOUS
  <2>2. CASE i = q.id
    BY <1>1, <2>1, <2>2, CommitGate DEF IInv, TypeOK
  <2>3. CASE i # q.id
    BY <1>1, <2>1, <2>3 DEF IInv, TypeOK
  <2>4. QED
    BY <2>2, <2>3
<1>3. submission'[q.id] = q.new /\ q.new # Absent
  BY <1>1, CommitGate DEF IInv, TypeOK
<1>4. \A r \in RowIds : rows[r].of \in Ids \cup {NoRow}
  BY DEF IInv, TypeOK, Requirement
<1>5. \A r \in RowIds : rows[r].origin = "catalogue" =>
        /\ rows[r].of \in Ids /\ submission[rows[r].of] # Absent
        /\ submission[rows[r].of].gate \in Seeded
        /\ \A s \in RowIds : rows[s].origin = "catalogue" /\ rows[s].of = rows[r].of => r = s
  BY <1>4 DEF IInv, RowsOfSubmissions, CatalogueOnce
<1>6. CASE rows' = rows
  <2>1. RowsOfSubmissions'
    BY <1>2, <1>4, <1>6 DEF IInv, RowsOfSubmissions
  <2>2. CatalogueOnce'
    BY <1>2, <1>5, <1>6 DEF CatalogueOnce
  <2>3. QED
    BY <2>1, <2>2
<1>7. CASE q.requirement # "none"
  <2>1. PICK n \in RowIds :
          /\ rows[n] = NoRequirement
          /\ rows' = [rows EXCEPT ![n] = NewRequirement(q.id, q.requirement)]
    BY <1>7 DEF Commit
  <2>2. /\ rows'[n].of = q.id /\ rows'[n].origin = q.requirement
        /\ \A r \in RowIds : r # n => rows'[r] = rows[r]
    BY <2>1 DEF IInv, TypeOK, NewRequirement
  <2>3. rows[n].of = NoRow /\ q.id # NoRow
    BY <1>1, <2>1, SentinelAssumption DEF NoRequirement, NewRequirement
  <2>4. q.requirement = "catalogue" =>
          q.new.gate \in Seeded /\ \A r \in RowIds : rows[r].of # q.id
    BY DEF Sound, Missing
  <2>5. RowsOfSubmissions'
    <3>1. ASSUME NEW r \in RowIds
          PROVE  /\ rows'[r].of # NoRow => submission'[rows'[r].of] # Absent
                 /\ rows'[r].of = NoRow => rows'[r].origin = "client"
      <4>1. CASE r = n
        BY <1>3, <2>2, <2>3, <4>1
      <4>2. CASE r # n
        BY <1>2, <1>4, <2>2, <4>2 DEF IInv, RowsOfSubmissions
      <4>3. QED
        BY <4>1, <4>2
    <3>2. QED
      BY <3>1 DEF RowsOfSubmissions
  <2>6. CatalogueOnce'
    <3>1. ASSUME NEW r \in RowIds, NEW s \in RowIds,
                 rows'[r].origin = "catalogue", rows'[s].origin = "catalogue",
                 rows'[r].of = rows'[s].of
          PROVE  r = s /\ submission'[rows'[r].of].gate \in Seeded
      <4>1. CASE r = n /\ s = n
        BY <1>3, <2>2, <2>4, <3>1, <4>1
      <4>2. CASE r = n /\ s # n
        BY <2>2, <2>4, <3>1, <4>2
      <4>3. CASE r # n /\ s = n
        BY <2>2, <2>4, <3>1, <4>3
      <4>4. CASE r # n /\ s # n
        BY <1>2, <1>5, <2>2, <3>1, <4>4
      <4>5. QED
        BY <4>1, <4>2, <4>3, <4>4
    <3>2. QED
      BY <3>1 DEF CatalogueOnce
  <2>7. QED
    BY <2>5, <2>6
<1>8. QED
  BY <1>6, <1>7 DEF Commit

\* The inductive invariant: the only open transaction is sound, and what is
\* stored is explained, attributed and not duplicated.
THEOREM Invariance ==
  ASSUME OneProcess
  PROVE  Spec => []IInv
<1>1. Init => IInv
  <2>1. SUFFICES ASSUME Init PROVE IInv
    OBVIOUS
  <2>2. TypeOK
    BY <2>1, InitTyped
  <2>3. Consistent /\ RowsOfSubmissions /\ OneSubmission /\ CatalogueOnce
    BY <2>1 DEF Init, Consistent, RowsOfSubmissions, OneSubmission, CatalogueOnce,
       NoRequirement, NewRequirement, Absent, Draft
  <2>4. SeparationOfDuties
    BY <2>1 DEF Init, SeparationOfDuties, Decisions, Absent, Draft
  <2>5. TrailExplains
    <3>1. Explains(<<>>, Absent)
      BY DEF Explains, After, Absent, Draft
    <3>2. QED
      BY <2>1, <3>1 DEF Init, TrailExplains
  <2>6. QED
    BY <2>2, <2>3, <2>4, <2>5 DEF IInv
<1>2. ASSUME OneProcess, IInv, [Next]_vars
      PROVE  IInv'
  <2>1. ASSUME NEW w \in Workers, NEW u \in Actors, NEW g \in Gates,
               Upsert(w, u, g) \/ Submit(w, u, g) \/ Review(w, u, g)
        PROVE  IInv'
    <3>1. PICK q \in Request :
            Begin(w, q.id, q.seen, q.new, q.requirement, q.entry) /\ Sound(q)
      BY <1>2, <2>1, HandlerBegins DEF IInv
    <3>2. TypeOK' /\ request' = [request EXCEPT ![w] = q]
      BY <1>2, <3>1, BeginType DEF IInv
    <3>3. submission' = submission /\ rows' = rows /\ trail' = trail
      BY <3>1 DEF Begin
    <3>4. Sound(q)'
      BY <3>1, <3>3, StaysSound
    <3>5. Consistent'
      BY <1>2, <3>2, <3>4 DEF IInv, TypeOK, Consistent, OneProcess
    <3>6. QED
      BY <1>2, <3>2, <3>3, <3>5 DEF IInv, RowsOfSubmissions, OneSubmission,
         SeparationOfDuties, TrailExplains, Explains, CatalogueOnce
  <2>2. ASSUME NEW w \in Workers, Commit(w)
        PROVE  IInv'
    <3>1. Sound(request[w])
      BY <1>2, <2>2 DEF IInv, Consistent, Commit
    <3>2. TypeOK'
      BY <1>2, <2>2, <3>1, CommitType DEF IInv, Sound
    <3>3. Consistent'
      BY <1>2, <2>2 DEF IInv, TypeOK, Commit, Consistent, OneProcess
    <3>4. QED
      BY <1>2, <2>2, <3>1, <3>2, <3>3, CommitOneSubmission, CommitExplained,
         CommitCatalogue DEF IInv
  <2>3. CASE \/ UNCHANGED vars
             \/ \E w \in Workers : Rollback(w)
             \/ \E u \in Actors, r \in RowIds : UpdateRow(u, r) \/ AddEvidence(u, r)
    <3>1. /\ TypeOK'
          /\ submission' = submission /\ trail' = trail
          /\ \A r \in RowIds : rows'[r].of = rows[r].of /\ rows'[r].origin = rows[r].origin
          /\ \A w \in Workers : request'[w] = request[w] \/ request'[w] = Idle
      BY <1>2, <2>3, OtherSteps DEF IInv
    <3>2. Consistent'
      BY <1>2, <3>1, StaysSound DEF IInv, Consistent
    <3>3. TrailExplains' /\ SeparationOfDuties' /\ OneSubmission'
      BY <1>2, <3>1 DEF IInv, TrailExplains, Explains, SeparationOfDuties, OneSubmission
    <3>4. RowsOfSubmissions' /\ CatalogueOnce'
      BY <1>2, <3>1 DEF IInv, RowsOfSubmissions, CatalogueOnce
    <3>5. QED
      BY <3>1, <3>2, <3>3, <3>4 DEF IInv
  <2>4. QED
    BY <1>2, <2>1, <2>2, <2>3 DEF Next
<1>3. QED
  BY <1>1, <1>2, PTL DEF Spec

\* With one process no gate is decided by who submitted it (review_gate).
THEOREM DutiesAreSeparated ==
  ASSUME OneProcess
  PROVE  Spec => []SeparationOfDuties
<1>1. IInv => SeparationOfDuties
  BY DEF IInv
<1>2. QED
  BY <1>1, Invariance, PTL

\* With one process the audit log alone tells the state of every gate and how
\* it was reached (submit_gate, review_gate and their audit rows).
THEOREM LogExplainsGates ==
  ASSUME OneProcess
  PROVE  Spec => []TrailExplains
<1>1. IInv => TrailExplains
  BY DEF IInv
<1>2. QED
  BY <1>1, Invariance, PTL

\* With one process a gate has at most one submission, whoever asked for it first
\* (_get_or_create_submission).
THEOREM SubmittedOnce ==
  ASSUME OneProcess
  PROVE  Spec => []OneSubmission
<1>1. IInv => OneSubmission
  BY DEF IInv
<1>2. QED
  BY <1>1, Invariance, PTL

\* With one process a submission gets the rows of the catalogue at most once,
\* however often it is updated (_seed_gate3_rows).
THEOREM CatalogueAddedOnce ==
  ASSUME OneProcess
  PROVE  Spec => []CatalogueOnce
<1>1. IInv => CatalogueOnce
  BY DEF IInv
<1>2. QED
  BY <1>1, Invariance, PTL

-----------------------------------------------------------------------------
(***************************************************************************)
(* With one process the gates implement GateLifecycle: a commit shows one  *)
(* change of one gate, made of what the gate is at that moment, and every  *)
(* other step shows nothing.                                               *)
(***************************************************************************)
LEMMA OnlySubmission ==
  ASSUME NEW table, NEW g, NEW i \in Ids, table[i].gate = g,
         \A j \in Ids : table[j].gate = g => j = i
  PROVE  SubmissionIn(table, g) = table[i]
<1>1. {j \in Ids : table[j].gate = g} = {i}
  OBVIOUS
<1>2. QED
  BY <1>1 DEF SubmissionIn

LEMMA NoSubmission ==
  ASSUME NEW table, NEW g, \A j \in Ids : table[j].gate # g
  PROVE  SubmissionIn(table, g) = Draft(g)
BY DEF SubmissionIn

\* What the transaction read is the state of its gate, and what it makes of it
\* is the state of the gate afterwards; the other gates stay.
LEMMA CommitShows ==
  ASSUME IInv, NEW w \in Workers, Commit(w), Sound(request[w])
  PROVE  /\ SubmissionIn(submission, request[w].new.gate) = request[w].seen
         /\ SubmissionIn(submission', request[w].new.gate) = request[w].new
         /\ \A h \in Gates : h # request[w].new.gate =>
              SubmissionIn(submission', h) = SubmissionIn(submission, h)
<1>. DEFINE q == request[w]
            g == q.new.gate
<1>1. /\ submission' = [submission EXCEPT ![q.id] = q.new]
      /\ q.id \in Ids /\ g \in Gates
  BY CommitStores DEF IInv, Sound
<1>2. /\ submission'[q.id] = q.new
      /\ \A j \in Ids : j # q.id => submission'[j] = submission[j]
  BY <1>1 DEF IInv, TypeOK
<1>3. g # NoGate
  BY <1>1, SentinelAssumption
<1>4. SubmissionIn(submission, g) = q.seen
  <2>1. CASE submission[q.id] = Absent
    <3>1. \A j \in Ids : submission[j].gate # g
      BY <2>1 DEF Sound, Of
    <3>2. QED
      BY <2>1, <3>1, CommitGate, NoSubmission
  <2>2. CASE submission[q.id] # Absent
    <3>1. submission[q.id] = q.seen /\ submission[q.id].gate = g
      BY <2>2, CommitGate
    <3>2. \A j \in Ids : submission[j].gate = g => j = q.id
      BY <1>1, <1>3, <3>1 DEF IInv, OneSubmission
    <3>3. QED
      BY <1>1, <3>1, <3>2, OnlySubmission
  <2>3. QED
    BY <2>1, <2>2
<1>5. SubmissionIn(submission', g) = q.new
  <2>1. OneSubmission'
    BY CommitOneSubmission
  <2>2. \A j \in Ids : submission'[j].gate = g => j = q.id
    BY <1>1, <1>2, <1>3, <2>1 DEF OneSubmission
  <2>3. {j \in Ids : submission'[j].gate = g} = {q.id}
    BY <1>1, <1>2, <2>2
  <2>4. QED
    BY <1>2, <2>3 DEF SubmissionIn
<1>6. ASSUME NEW h \in Gates, h # g
      PROVE  SubmissionIn(submission', h) = SubmissionIn(submission, h)
  <2>1. submission[q.id].gate # h
    <3>1. CASE submission[q.id] = Absent
      BY <3>1, SentinelAssumption DEF Absent, Draft
    <3>2. CASE submission[q.id] # Absent
      BY <1>6, <3>2, CommitGate
    <3>3. QED
      BY <3>1, <3>2
  <2>2. {j \in Ids : submission'[j].gate = h} = {j \in Ids : submission[j].gate = h}
    BY <1>2, <1>6, <2>1
  <2>3. \A j \in Ids : submission[j].gate = h => submission'[j] = submission[j]
    BY <1>2, <2>1
  <2>4. CASE \E j \in Ids : submission[j].gate = h
    <3>. DEFINE own == {j \in Ids : submission[j].gate = h}
    <3>1. (CHOOSE j \in own : TRUE) \in own
      BY <2>4
    <3>2. QED
      BY <2>2, <2>3, <2>4, <3>1 DEF SubmissionIn
  <2>5. CASE ~ \E j \in Ids : submission[j].gate = h
    BY <2>2, <2>5 DEF SubmissionIn
  <2>6. QED
    BY <2>4, <2>5
<1>7. QED
  BY <1>4, <1>5, <1>6

\* A commit with an audit row is the step of GateLifecycle that the row names,
\* and one without is none.
LEMMA CommitMoves ==
  ASSUME IInv, NEW w \in Workers, Commit(w), Sound(request[w])
  PROVE  [Lifecycle!Next]_(Lifecycle!gateVars)
<1>. DEFINE q == request[w]
            g == q.new.gate
            Col(c) == [h \in Gates |-> SubmissionIn(submission, h)[c]]
            ColAfter(c) == [h \in Gates |-> SubmissionIn(submission', h)[c]]
<1>1. /\ g \in Gates /\ q.seen \in Submission /\ q.new \in Submission
      /\ q.entry \in {<<>>} \cup {<<e>> : e \in Entry}
  BY DEF Sound, IInv, TypeOK, Request
<1>2. /\ SubmissionIn(submission, g) = q.seen
      /\ SubmissionIn(submission', g) = q.new
      /\ \A h \in Gates : h # g => SubmissionIn(submission', h) = SubmissionIn(submission, h)
  BY CommitShows
<1>3. \A c : ColAfter(c) = [Col(c) EXCEPT ![g] = q.new[c]] /\ Col(c)[g] = q.seen[c]
  BY <1>1, <1>2
<1>4. \A c : q.new[c] = q.seen[c] => ColAfter(c) = Col(c)
  BY <1>1, <1>2
<1>5. CASE q.entry = <<>>
  <2>1. /\ q.new.status = q.seen.status /\ q.new.submitter = q.seen.submitter
        /\ q.new.reviewer = q.seen.reviewer /\ q.new.comments = q.seen.comments
    BY <1>5 DEF Sound
  <2>2. /\ ColAfter("status") = Col("status") /\ ColAfter("submitter") = Col("submitter")
        /\ ColAfter("reviewer") = Col("reviewer") /\ ColAfter("comments") = Col("comments")
    BY <1>4, <2>1
  <2>3. QED
    BY <2>2 DEF Lifecycle!gateVars
<1>6. ASSUME NEW e \in Entry, q.entry = <<e>>
      PROVE  Lifecycle!Next
  <2>1. /\ MayMove(e.actor, q.seen.status, To(e))
        /\ q.new.status = To(e)
        /\ e.action = "gate.submit" =>
             /\ q.new.submitter = e.actor
             /\ q.new.reviewer = q.seen.reviewer
             /\ q.new.comments = q.seen.comments
        /\ e.action = "gate.review" =>
             /\ e.from = q.seen.status /\ e.to \in Decisions
             /\ q.new.reviewer = e.actor
             /\ q.new.submitter = q.seen.submitter
             /\ IsOther(e.actor, q.seen)
             /\ <<e.from, e.to>> \in CommentRequired => q.new.comments
    BY <1>6 DEF Sound
  <2>2. e.actor \in Actors /\ e.action \in {"gate.submit", "gate.review"}
    BY DEF Entry
  <2>3. <<e.actor, q.seen.status, To(e)>>
          \in {move \in Actors \X Statuses \X Statuses : MayMove(move[1], move[2], move[3])}
    <3>1. q.seen.status \in Statuses /\ To(e) \in Statuses
      BY <1>1, <2>1 DEF Submission
    <3>2. QED
      BY <2>1, <2>2, <3>1
  <2>4. Lifecycle!Moves(e.actor, g, To(e))
    BY <1>3, <2>1, <2>3 DEF Lifecycle!Moves
  <2>5. CASE e.action = "gate.submit"
    <3>1. To(e) = "pending"
      BY <2>5 DEF To
    <3>2. /\ ColAfter("submitter") = [Col("submitter") EXCEPT ![g] = e.actor]
          /\ ColAfter("reviewer") = Col("reviewer") /\ ColAfter("comments") = Col("comments")
      BY <1>3, <1>4, <2>1, <2>5
    <3>3. Lifecycle!Submit(e.actor, g)
      BY <2>4, <3>1, <3>2 DEF Lifecycle!Submit
    <3>4. QED
      BY <1>1, <2>2, <3>3 DEF Lifecycle!Next
  <2>6. CASE e.action = "gate.review"
    <3>1. To(e) = e.to /\ e.to \in Decisions
      BY <2>1, <2>6 DEF To
    <3>2. /\ ColAfter("reviewer") = [Col("reviewer") EXCEPT ![g] = e.actor]
          /\ ColAfter("comments") = [Col("comments") EXCEPT ![g] = q.new.comments]
          /\ ColAfter("submitter") = Col("submitter")
      BY <1>3, <1>4, <2>1, <2>6
    <3>3. /\ Col("submitter")[g] \notin {e.actor} \ {Anonymous}
          /\ <<Col("status")[g], e.to>> \in CommentRequired => q.new.comments
      BY <1>3, <2>1, <2>6 DEF IsOther
    <3>4. Lifecycle!Decide(e.actor, g, e.to, q.new.comments)
      BY <2>4, <3>1, <3>2, <3>3 DEF Lifecycle!Decide
    <3>5. q.new.comments \in BOOLEAN
      BY <1>1 DEF Submission
    <3>6. QED
      BY <1>1, <2>2, <3>1, <3>4, <3>5 DEF Lifecycle!Next, Decisions
  <2>7. QED
    BY <2>2, <2>5, <2>6
<1>7. QED
  BY <1>1, <1>5, <1>6

\* With one process, whatever interleaves with it, fails or stops, the gates of
\* a project behave as GateLifecycle says (submit_gate, review_gate).
THEOREM GateImplemented ==
  ASSUME OneProcess
  PROVE  Spec => ImplementsGate
<1>1. Init => Lifecycle!Init
  <2>1. SUFFICES ASSUME Init PROVE Lifecycle!Init
    OBVIOUS
  <2>2. ASSUME NEW g \in Gates PROVE SubmissionIn(submission, g) = Draft(g)
    <3>1. \A j \in Ids : submission[j].gate # g
      BY <2>1, SentinelAssumption DEF Init, Absent, Draft
    <3>2. QED
      BY <3>1, NoSubmission
  <2>3. \A g \in Gates :
          LET state == SubmissionIn(submission, g)
          IN  /\ state.status = "draft" /\ state.submitter = Anonymous
              /\ state.reviewer = Anonymous /\ state.comments = FALSE
    BY <2>2 DEF Draft
  <2>4. QED
    BY <2>3 DEF Lifecycle!Init
<1>2. ASSUME IInv, [Next]_vars
      PROVE  [Lifecycle!Next]_(Lifecycle!gateVars)
  <2>1. ASSUME NEW w \in Workers, Commit(w)
        PROVE  [Lifecycle!Next]_(Lifecycle!gateVars)
    <3>1. Sound(request[w])
      BY <1>2, <2>1 DEF IInv, Consistent, Commit
    <3>2. QED
      BY <1>2, <2>1, <3>1, CommitMoves
  <2>2. ASSUME submission' = submission
        PROVE  [Lifecycle!Next]_(Lifecycle!gateVars)
    BY <2>2 DEF Lifecycle!gateVars
  <2>3. ASSUME NEW w \in Workers, NEW u \in Actors, NEW g \in Gates,
               Upsert(w, u, g) \/ Submit(w, u, g) \/ Review(w, u, g)
        PROVE  submission' = submission
    BY <2>3 DEF Upsert, Submit, Review, Begin
  <2>4. CASE \/ UNCHANGED vars
             \/ \E w \in Workers : Rollback(w)
             \/ \E u \in Actors, r \in RowIds : UpdateRow(u, r) \/ AddEvidence(u, r)
    BY <1>2, <2>2, <2>4, OtherSteps DEF IInv
  <2>5. QED
    BY <1>2, <2>1, <2>2, <2>3, <2>4 DEF Next
<1>3. QED
  BY <1>1, <1>2, Invariance, PTL DEF Spec, ImplementsGate, Lifecycle!Spec
=============================================================================
