---------------------------- MODULE Callers_proofs ----------------------------
(***************************************************************************)
(* Proofs about what callers do, are given and are told: that a decision   *)
(* on a sub-agent run can be accounted for and the trail tells what became *)
(* of every run; that a caller of the intake who was told of a task has    *)
(* one; that no caller gets more than its budget in any stretch of time,   *)
(* and none is refused without having been served; that the skills and the *)
(* LLM settings stay as who set them was told.                             *)
(***************************************************************************)
EXTENDS SubAgentRuns, Intake, RateLimiter, Skills, LlmConfig, SequenceTheorems, TLAPS

\* The trail has the event that brought the run into review.
Reviewed(k) ==
  \E i \in 1..Len(trail) : /\ trail[i].run = k /\ trail[i].to = "in_review"
                           /\ RoleOf[trail[i].by] # "client"

\* What DecisionAccountable says of one run, and, which makes it inductive,
\* that a run under review has its event too.
Accountable(k) ==
  /\ runs[k].status \in {"in_review", "approved", "rejected"} => Reviewed(k)
  /\ runs[k].status \in {"approved", "rejected"} =>
       RoleOf[runs[k].actor] \in {"security_approver", "admin"}
  /\ runs[k].status = "rejected" => runs[k].comment

RunsInv == RunsOK /\ \A k \in RunKeys : runs[k] # NoRun => Accountable(k)

\* The types hold at the start, and no step breaks them: the code writes no
\* other status, actor or event (sub_agents.py, sub_agent_run.py).
LEMMA StartedType == ASSUME RunsOK, NEW k \in RunKeys PROVE Started(k) \in Run
<1>1. CASE runs[k] # NoRun
  BY <1>1 DEF RunsOK, Started
<1>2. CASE runs[k] = NoRun
  BY <1>2 DEF Started, Run, Status
<1> QED BY <1>1, <1>2

LEMMA StatusStep ==
  ASSUME RunsOK, NEW k \in RunKeys, NEW user \in Users, NEW status \in Status,
         NEW comment \in BOOLEAN, UpdateStatus(user, k, status, comment)
  PROVE  RunsOK'
<1>1. [Started(k) EXCEPT !.status = status, !.actor = user, !.comment = comment] \in Run
  BY StartedType DEF Run
<1>2. [run |-> k, by |-> user, action |-> "status.update", to |-> status] \in Event
  BY DEF Event
<1> QED BY <1>1, <1>2 DEF RunsOK, UpdateStatus

LEMMA OutputStep ==
  ASSUME RunsOK, NEW k \in RunKeys, NEW user \in Users, SaveOutput(user, k)
  PROVE  RunsOK'
<1> DEFINE saved == [Started(k) EXCEPT !.output = TRUE,
                                       !.status = IF @ = "empty" THEN "draft" ELSE @]
<1>1. saved \in Run
  BY StartedType DEF Run, Status
<1>2. [run |-> k, by |-> user, action |-> "output.save", to |-> "-"] \in Event
  BY DEF Event
<1>3. runs' = [runs EXCEPT ![k] = saved]
  BY DEF SaveOutput
<1> HIDE DEF saved
<1> QED BY <1>1, <1>2, <1>3 DEF RunsOK, SaveOutput

\* Creating a run, also on the way to a refusal, keeps the types.
LEMMA GetStep == ASSUME RunsOK, NEW k \in RunKeys, Get(k) PROVE RunsOK'
BY StartedType DEF RunsOK, Get

THEOREM RunTypes == RunsSpec => []RunsOK
<1>1. RunsInit => RunsOK
  BY DEF RunsInit, RunsOK
<1>2. RunsOK /\ [RunsNext]_subAgents => RunsOK'
  <2> SUFFICES ASSUME RunsOK, [RunsNext]_subAgents PROVE RunsOK'
    OBVIOUS
  <2>1. CASE UNCHANGED subAgents
    BY <2>1 DEF subAgents, RunsOK
  <2>2. ASSUME NEW k \in RunKeys, Get(k) PROVE RunsOK'
    BY <2>2, GetStep
  <2>3. ASSUME NEW k \in RunKeys, NEW user \in Users, SaveOutput(user, k) PROVE RunsOK'
    BY <2>3, OutputStep
  <2>4. ASSUME NEW k \in RunKeys, NEW user \in Users, NEW status \in Status, NEW comment \in BOOLEAN,
               UpdateStatus(user, k, status, comment)
        PROVE  RunsOK'
    BY <2>4, StatusStep
  <2>5. ASSUME NEW k \in RunKeys, NEW user \in Users, NEW status \in Status, NEW comment \in BOOLEAN,
               RefuseStatus(user, k, status, comment)
        PROVE  RunsOK'
    BY <2>5, GetStep DEF RefuseStatus
  <2> QED BY <2>1, <2>2, <2>3, <2>4, <2>5 DEF RunsNext
<1> QED BY <1>1, <1>2, PTL DEF RunsSpec

-----------------------------------------------------------------------------
\* A longer trail still has the event that brought a run into review.
LEMMA ReviewedKept ==
  ASSUME RunsOK, NEW k \in RunKeys, Reviewed(k), NEW e, trail' = Append(trail, e)
  PROVE  Reviewed(k)'
<1>1. trail \in Seq(Event)
  BY DEF RunsOK
<1>2. PICK i \in 1..Len(trail) : /\ trail[i].run = k /\ trail[i].to = "in_review"
                                 /\ RoleOf[trail[i].by] # "client"
  BY DEF Reviewed
<1>3. i \in 1..Len(trail') /\ trail'[i] = trail[i]
  BY <1>1, <1>2
<1> QED BY <1>2, <1>3 DEF Reviewed

\* A run that a step leaves alone stays accountable.
LEMMA OthersKept ==
  ASSUME RunsInv, NEW k \in RunKeys, runs'[k] = runs[k], runs'[k] # NoRun,
         \/ UNCHANGED trail
         \/ \E e : trail' = Append(trail, e)
  PROVE  Accountable(k)'
<1>1. Accountable(k) /\ RunsOK
  BY DEF RunsInv
<1>2. Reviewed(k) => Reviewed(k)'
  <2>1. CASE UNCHANGED trail
    BY <2>1 DEF Reviewed
  <2>2. CASE \E e : trail' = Append(trail, e)
    BY <2>2, <1>1, ReviewedKept
  <2> QED BY <2>1, <2>2
<1> QED BY <1>1, <1>2 DEF Accountable

\* A change of status: a run enters review by its own event, and is decided
\* only from there, by someone who may.
LEMMA StatusAccountable ==
  ASSUME RunsInv, NEW k \in RunKeys, NEW user \in Users, NEW status \in Status,
         NEW comment \in BOOLEAN, UpdateStatus(user, k, status, comment)
  PROVE  Accountable(k)'
<1> DEFINE event == [run |-> k, by |-> user, action |-> "status.update", to |-> status]
<1>1. RunsOK /\ trail \in Seq(Event) /\ Started(k) \in Run
  BY StartedType DEF RunsInv, RunsOK
<1>2. /\ runs'[k].status = status
      /\ runs'[k].actor = user
      /\ runs'[k].comment = comment
  BY <1>1 DEF UpdateStatus, RunsOK, Run
<1>3. trail' = Append(trail, event)
  BY DEF UpdateStatus
<1>4. status = "in_review" => Reviewed(k)'
  <2> SUFFICES ASSUME status = "in_review" PROVE Reviewed(k)'
    OBVIOUS
  <2>1. RoleOf[user] # "client"
    BY DEF UpdateStatus, MayEnter, RolesFor
  <2>2. Len(trail') \in 1..Len(trail') /\ trail'[Len(trail')] = event
    BY <1>1, <1>3
  <2> QED BY <2>1, <2>2 DEF Reviewed
<1>5. status \in {"approved", "rejected"} => Reviewed(k)'
  <2> SUFFICES ASSUME status \in {"approved", "rejected"} PROVE Reviewed(k)'
    OBVIOUS
  <2>1. Started(k).status = "in_review"
    BY DEF UpdateStatus, MayEnter, ValidTransitions
  <2>2. runs[k] # NoRun /\ runs[k].status = "in_review"
    BY <2>1 DEF Started
  <2>3. Reviewed(k)
    BY <2>2 DEF RunsInv, Accountable
  <2> QED BY <2>3, <1>1, <1>3, ReviewedKept
<1>6. status \in {"approved", "rejected"} => RoleOf[user] \in {"security_approver", "admin"}
  BY DEF UpdateStatus, MayEnter, RolesFor
<1>7. status = "rejected" => comment
  BY DEF UpdateStatus, MayEnter, CommentRequired
<1> QED BY <1>2, <1>4, <1>5, <1>6, <1>7 DEF Accountable

\* Saved output changes no status but that of an empty run.
LEMMA OutputAccountable ==
  ASSUME RunsInv, NEW k \in RunKeys, NEW user \in Users, SaveOutput(user, k)
  PROVE  Accountable(k)'
<1>1. RunsOK /\ Started(k) \in Run
  BY StartedType DEF RunsInv
<1>2. /\ runs'[k].status = IF Started(k).status = "empty" THEN "draft" ELSE Started(k).status
      /\ runs'[k].actor = Started(k).actor
      /\ runs'[k].comment = Started(k).comment
  BY <1>1 DEF SaveOutput, RunsOK, Run
<1>3. CASE runs[k] = NoRun
  BY <1>2, <1>3 DEF Accountable, Started
<1>4. CASE runs[k] # NoRun
  <2>1. Accountable(k) /\ Started(k) = runs[k]
    BY <1>4 DEF RunsInv, Started
  <2>2. Reviewed(k) => Reviewed(k)'
    BY <1>1, ReviewedKept DEF SaveOutput
  <2> QED BY <1>2, <2>1, <2>2 DEF Accountable
<1> QED BY <1>3, <1>4

\* Every decision on a run is accountable, for any number of runs and users
\* and any roles: RolesFor, ValidTransitions and CommentRequired of
\* sub_agent_run.py allow no other way there.
THEOREM Accountability == RunsSpec => []DecisionAccountable
<1>1. RunsInit => RunsInv
  BY DEF RunsInit, RunsInv, RunsOK
<1>2. RunsInv /\ RunsOK' /\ [RunsNext]_subAgents => RunsInv'
  <2> SUFFICES ASSUME RunsInv, RunsOK', [RunsNext]_subAgents,
                      NEW j \in RunKeys, runs'[j] # NoRun
               PROVE  Accountable(j)'
    BY DEF RunsInv
  <2>1. CASE UNCHANGED subAgents
    BY <2>1, OthersKept DEF subAgents
  <2>2. ASSUME NEW k \in RunKeys, Get(k) PROVE Accountable(j)'
    <3>1. CASE j = k
      <4>1. runs'[j].status = "empty"
        BY <2>2, <3>1 DEF Get, Started, RunsInv, RunsOK
      <4> QED BY <4>1 DEF Accountable
    <3>2. CASE j # k
      BY <2>2, <3>2, OthersKept DEF Get, RunsInv, RunsOK
    <3> QED BY <3>1, <3>2
  <2>3. ASSUME NEW k \in RunKeys, NEW user \in Users, SaveOutput(user, k) PROVE Accountable(j)'
    <3>1. j # k => runs'[j] = runs[j] /\ \E e : trail' = Append(trail, e)
      BY <2>3 DEF SaveOutput, RunsInv, RunsOK
    <3> QED BY <2>3, <3>1, OutputAccountable, OthersKept
  <2>4. ASSUME NEW k \in RunKeys, NEW user \in Users, NEW status \in Status, NEW comment \in BOOLEAN,
               UpdateStatus(user, k, status, comment)
        PROVE  Accountable(j)'
    <3>1. j # k => runs'[j] = runs[j] /\ \E e : trail' = Append(trail, e)
      BY <2>4 DEF UpdateStatus, RunsInv, RunsOK
    <3> QED BY <2>4, <3>1, StatusAccountable, OthersKept
  <2>5. ASSUME NEW k \in RunKeys, NEW user \in Users, NEW status \in Status, NEW comment \in BOOLEAN,
               RefuseStatus(user, k, status, comment)
        PROVE  Accountable(j)'
    BY <2>2, <2>5 DEF RefuseStatus
  <2> QED BY <2>1, <2>2, <2>3, <2>4, <2>5 DEF RunsNext
<1>3. RunsInv => DecisionAccountable
  BY DEF RunsInv, Accountable, Reviewed, DecisionAccountable
<1> QED BY <1>1, <1>2, <1>3, RunTypes, PTL DEF RunsSpec
-----------------------------------------------------------------------------
\* The places of the trail that are about a run, and those that move it.
About(k) == { i \in DOMAIN trail : trail[i].run = k }
Moves(k) == { i \in About(k) : trail[i].action = "status.update" }

\* What TrailTellsStatus says of one run.
Told(k) ==
  /\ \A i \in Moves(k) : (\A j \in Moves(k) : j <= i) => Started(k).status = trail[i].to
  /\ Moves(k) = {} => Started(k).status = IF About(k) = {} THEN "empty" ELSE "draft"

\* No change of status empties a run: without this a later output would make
\* it a draft again, and Told would not be inductive.
NeverEmptied == \A i \in DOMAIN trail : trail[i].action = "status.update" => trail[i].to # "empty"

TellInv == RunsOK /\ NeverEmptied /\ \A k \in RunKeys : Told(k)

\* An event at the end of the trail adds its place to those about its run.
LEMMA TrailGrows ==
  ASSUME RunsOK, NEW e \in Event, trail' = Append(trail, e), NEW k \in RunKeys
  PROVE  /\ DOMAIN trail' = DOMAIN trail \cup {Len(trail) + 1}
         /\ Len(trail) + 1 \notin DOMAIN trail
         /\ \A i \in DOMAIN trail : trail'[i] = trail[i] /\ i \in Nat /\ i <= Len(trail)
         /\ trail'[Len(trail) + 1] = e /\ Len(trail) + 1 \in Nat
         /\ About(k)' = About(k) \cup (IF e.run = k THEN {Len(trail) + 1} ELSE {})
         /\ Moves(k)' = Moves(k) \cup
              (IF e.run = k /\ e.action = "status.update" THEN {Len(trail) + 1} ELSE {})
<1>1. trail \in Seq(Event) /\ Len(trail) \in Nat /\ DOMAIN trail = 1..Len(trail)
  BY DEF RunsOK
<1>2. trail' \in Seq(Event) /\ Len(trail') = Len(trail) + 1 /\ DOMAIN trail' = 1..(Len(trail) + 1)
  BY <1>1
<1>3. /\ trail'[Len(trail) + 1] = e
      /\ \A i \in 1..Len(trail) : trail'[i] = trail[i]
  BY <1>1
<1>4. About(k)' = About(k) \cup (IF e.run = k THEN {Len(trail) + 1} ELSE {})
  BY <1>1, <1>2, <1>3 DEF About
<1>5. Moves(k)' = Moves(k) \cup
        (IF e.run = k /\ e.action = "status.update" THEN {Len(trail) + 1} ELSE {})
  BY <1>1, <1>2, <1>3, <1>4 DEF Moves, About
<1> QED BY <1>1, <1>2, <1>3, <1>4, <1>5

\* A run whose status stays is told of as before, if the trail does not grow
\* by an event about it.
LEMMA ToldKept ==
  ASSUME TellInv, NEW k \in RunKeys, (Started(k).status)' = Started(k).status,
         \/ trail' = trail
         \/ \E e \in Event : e.run # k /\ trail' = Append(trail, e)
  PROVE  Told(k)'
<1>1. RunsOK /\ Told(k)
  BY DEF TellInv
<1>2. CASE trail' = trail
  <2>1. About(k)' = About(k) /\ Moves(k)' = Moves(k)
    BY <1>2 DEF About, Moves
  <2> QED BY <1>1, <1>2, <2>1 DEF Told
<1>3. ASSUME NEW e \in Event, e.run # k, trail' = Append(trail, e)
      PROVE  Told(k)'
  <2>1. /\ About(k)' = About(k) /\ Moves(k)' = Moves(k)
        /\ \A i \in Moves(k) : trail'[i] = trail[i]
    BY <1>1, <1>3, TrailGrows DEF Moves, About
  <2> QED BY <1>1, <2>1 DEF Told
<1> QED BY <1>2, <1>3

\* A change of status is the last of its run, and says what it changed to.
LEMMA StatusTold ==
  ASSUME TellInv, NEW k \in RunKeys, NEW user \in Users, NEW status \in Status,
         NEW comment \in BOOLEAN, UpdateStatus(user, k, status, comment)
  PROVE  Told(k)' /\ NeverEmptied'
<1> DEFINE event == [run |-> k, by |-> user, action |-> "status.update", to |-> status]
<1>1. /\ RunsOK /\ event \in Event /\ trail' = Append(trail, event)
      /\ event.run = k /\ event.action = "status.update" /\ event.to = status
  BY DEF TellInv, UpdateStatus, Event
<1>2. (Started(k).status)' = status
  <2>1. Started(k) \in Run
    BY <1>1, StartedType
  <2>2. /\ runs'[k] = [Started(k) EXCEPT !.status = status, !.actor = user, !.comment = comment]
        /\ runs'[k] \in Run
    BY <1>1, <2>1 DEF UpdateStatus, RunsOK, Run
  <2>3. runs'[k].status = status
    BY <2>1, <2>2 DEF Run
  <2> QED BY <2>2, <2>3, NoRunAssumption DEF Started
<1> HIDE DEF event
<1>3. /\ Moves(k)' = Moves(k) \cup {Len(trail) + 1}
      /\ \A i \in Moves(k) : i \in Nat /\ i <= Len(trail)
      /\ trail'[Len(trail) + 1] = event /\ Len(trail) \in Nat
  <2>1. Len(trail) \in Nat
    BY <1>1 DEF RunsOK
  <2> QED BY <1>1, <2>1, TrailGrows DEF Moves, About
<1>4. Told(k)'
  <2>1. ASSUME NEW i \in Moves(k)', \A j \in Moves(k)' : j <= i
        PROVE  i = Len(trail) + 1
    BY <1>3, <2>1
  <2>2. Moves(k)' # {}
    BY <1>3
  <2> QED BY <1>1, <1>2, <1>3, <2>1, <2>2 DEF Told
<1>5. status # "empty"
  BY DEF UpdateStatus, MayEnter, ValidTransitions
<1>6. NeverEmptied'
  BY <1>1, <1>5, TrailGrows DEF TellInv, NeverEmptied
<1> QED BY <1>4, <1>6

\* Saved output leaves the last change of status what it was.
LEMMA OutputTold ==
  ASSUME TellInv, NEW k \in RunKeys, NEW user \in Users, SaveOutput(user, k)
  PROVE  Told(k)' /\ NeverEmptied'
<1> DEFINE event == [run |-> k, by |-> user, action |-> "output.save", to |-> "-"]
<1>1. /\ RunsOK /\ event \in Event /\ trail' = Append(trail, event) /\ Told(k) /\ NeverEmptied
      /\ event.run = k /\ event.action # "status.update"
  BY DEF TellInv, SaveOutput, Event
<1>2. (Started(k).status)' = IF Started(k).status = "empty" THEN "draft" ELSE Started(k).status
  <2>1. Started(k) \in Run
    BY <1>1, StartedType
  <2>2. /\ runs'[k] = [Started(k) EXCEPT !.output = TRUE,
                                         !.status = IF @ = "empty" THEN "draft" ELSE @]
    BY <1>1 DEF SaveOutput, RunsOK
  <2>3. /\ runs'[k].status = IF Started(k).status = "empty" THEN "draft" ELSE Started(k).status
        /\ runs'[k] \in Run
    BY <2>1, <2>2 DEF Run, Status
  <2> QED BY <2>3, NoRunAssumption DEF Started
<1> HIDE DEF event
<1>3. /\ Moves(k)' = Moves(k) /\ About(k)' = About(k) \cup {Len(trail) + 1}
      /\ \A i \in Moves(k) : trail'[i] = trail[i] /\ i \in DOMAIN trail
  BY <1>1, TrailGrows DEF Moves, About
<1>4. ASSUME NEW i \in Moves(k), \A j \in Moves(k) : j <= i
      PROVE  (Started(k).status)' = trail'[i].to
  <2>1. Started(k).status = trail[i].to /\ trail[i].to # "empty"
    BY <1>1, <1>4 DEF Told, NeverEmptied, Moves, About
  <2> QED BY <1>2, <1>3, <1>4, <2>1
<1>5. Moves(k) = {} => (Started(k).status)' = "draft"
  BY <1>1, <1>2 DEF Told
<1>6. Told(k)'
  BY <1>3, <1>4, <1>5 DEF Told
<1>7. NeverEmptied'
  BY <1>1, TrailGrows DEF NeverEmptied
<1> QED BY <1>6, <1>7

\* The audit trail alone tells the status of every run, for any number of
\* runs and users: no handler of sub_agents.py changes a status without its
\* row, and saving output never undoes a decision.
THEOREM TrailIsComplete == RunsSpec => []TrailTellsStatus
<1>1. RunsInit => TellInv
  BY DEF RunsInit, TellInv, RunsOK, NeverEmptied, Told, About, Moves, Started
<1>2. TellInv /\ RunsOK' /\ [RunsNext]_subAgents => TellInv'
  <2> SUFFICES ASSUME TellInv, RunsOK', [RunsNext]_subAgents PROVE TellInv'
    OBVIOUS
  <2>1. RunsOK /\ NeverEmptied
    BY DEF TellInv
  <2>2. CASE UNCHANGED subAgents
    <3>1. \A k \in RunKeys : (Started(k).status)' = Started(k).status
      BY <2>2 DEF subAgents, Started
    <3>2. trail' = trail
      BY <2>2 DEF subAgents
    <3> QED BY <2>1, <3>1, <3>2, ToldKept DEF TellInv, NeverEmptied
  <2>3. ASSUME NEW k \in RunKeys, Get(k) PROVE TellInv'
    <3>1. runs[k] = NoRun /\ runs'[k] = Started(k) /\ trail' = trail
          /\ \A j \in RunKeys \ {k} : runs'[j] = runs[j]
      BY <2>1, <2>3 DEF Get, RunsOK
    <3>2. \A j \in RunKeys : (Started(j).status)' = Started(j).status
      BY <2>1, <3>1, StartedType, NoRunAssumption DEF Started
    <3> QED BY <2>1, <3>1, <3>2, ToldKept DEF TellInv, NeverEmptied
  <2>4. ASSUME NEW k \in RunKeys, NEW user \in Users, SaveOutput(user, k) PROVE TellInv'
    <3>1. ASSUME NEW j \in RunKeys, j # k PROVE Told(j)'
      <4>1. runs'[j] = runs[j]
        BY <2>1, <2>4, <3>1 DEF SaveOutput, RunsOK
      <4>2. \E e \in Event : e.run # j /\ trail' = Append(trail, e)
        <5>1. [run |-> k, by |-> user, action |-> "output.save", to |-> "-"] \in Event
          BY DEF Event
        <5> QED BY <2>4, <3>1, <5>1 DEF SaveOutput
      <4> QED BY <4>1, <4>2, ToldKept DEF Started
    <3> QED BY <2>4, <3>1, OutputTold DEF TellInv
  <2>5. ASSUME NEW k \in RunKeys, NEW user \in Users, NEW status \in Status, NEW comment \in BOOLEAN,
               UpdateStatus(user, k, status, comment)
        PROVE  TellInv'
    <3>1. ASSUME NEW j \in RunKeys, j # k PROVE Told(j)'
      <4>1. runs'[j] = runs[j]
        BY <2>1, <2>5, <3>1 DEF UpdateStatus, RunsOK
      <4>2. \E e \in Event : e.run # j /\ trail' = Append(trail, e)
        <5>1. [run |-> k, by |-> user, action |-> "status.update", to |-> status] \in Event
          BY DEF Event
        <5> QED BY <2>5, <3>1, <5>1 DEF UpdateStatus
      <4> QED BY <4>1, <4>2, ToldKept DEF Started
    <3> QED BY <2>5, <3>1, StatusTold DEF TellInv
  <2> QED BY <2>2, <2>3, <2>4, <2>5 DEF RunsNext, RefuseStatus
<1>3. TellInv => TrailTellsStatus
  BY DEF TellInv, Told, About, Moves, TrailTellsStatus
<1> QED BY <1>1, <1>2, <1>3, RunTypes, PTL DEF RunsSpec

-----------------------------------------------------------------------------
(***************************************************************************)
(* The intake.  What holds of a call depends on how far it has come, and   *)
(* on the task of another call only by that it has ended, which stays.     *)
(***************************************************************************)
Holds(c) ==
  /\ stage[c] = "idle" => result[c] = Absent /\ tasks[c] = Absent
  /\ stage[c] = "working" => result[c] = Absent /\ tasks[c] = Absent /\ Admits(CallOf[c])
  /\ stage[c] = "waiting" => /\ CallOf[c].operation = "assess" /\ CallOf[c].channel = "mcp_wait"
                             /\ result[c] = "accepted" /\ tasks[c] # Absent
  /\ CallOf[c].operation = "assess" =>
       /\ result[c] \in {"accepted", "report"} => tasks[c] # Absent
       /\ result[c] = "report" => tasks[c] = "ended"
       /\ result[c] = "error" /\ CallOf[c].channel # "mcp_wait" => tasks[c] = Absent
  /\ tasks[c] # Absent => /\ Admits(CallOf[c])
                          /\ \A f \in Range(CallOf[c].files) : Readable(CallOf[c], f)
  /\ result[c] = "report" /\ CallOf[c].operation = "get" =>
       tasks[CallOf[c].task] = "ended" /\ TenantOf(CallOf[c].task) = TenantOf(c)

IntakeInv == IntakeOK /\ \A c \in Calls : Holds(c)

LEMMA CallFields ==
  ASSUME NEW c \in Calls
  PROVE  /\ CallOf[c].task \in Calls /\ CallOf[c].files \in Seq(Files)
         /\ CallOf[c].operation \in {"assess", "get", "query", "other"}
BY IntakeAssumption DEF Call

\* A call that goes on, or is cut off, without being given another result or
\* another task keeps what holds of it, whatever the other calls do.
LEMMA CallGoesOn ==
  ASSUME NEW d \in Calls, Holds(d),
         stage'[d] \in {stage[d], "handled", "answered", "cut"},
         result'[d] = result[d], tasks'[d] = tasks[d],
         \A t \in Calls : tasks[t] = "ended" => tasks'[t] = "ended"
  PROVE  Holds(d)'
<1>1. CallOf[d].task \in Calls
  BY CallFields
<1> QED BY <1>1 DEF Holds

\* Of the other calls a step that changes one call changes nothing else.
LEMMA OtherCalls ==
  ASSUME IntakeInv, NEW c \in Calls,
         \A d \in Calls \ {c} :
           stage'[d] = stage[d] /\ result'[d] = result[d] /\ tasks'[d] = tasks[d],
         tasks[c] = "ended" => tasks'[c] = "ended",
         Holds(c)', IntakeOK'
  PROVE  IntakeInv'
<1>1. ASSUME NEW d \in Calls \ {c} PROVE Holds(d)'
  BY <1>1, CallGoesOn DEF IntakeInv
<1> QED BY <1>1 DEF IntakeInv

LEMMA RefuseHolds == ASSUME IntakeInv, NEW c \in Calls, Refuse(c), up' = up PROVE IntakeInv'
<1>1. /\ tasks[c] = Absent /\ tasks' = tasks /\ findings' = findings
      /\ stage' = [stage EXCEPT ![c] = "answered"] /\ result' = [result EXCEPT ![c] = "error"]
  BY DEF Refuse, IntakeInv, Holds
<1>2. IntakeOK'
  BY <1>1 DEF IntakeInv, IntakeOK, Results
<1>3. stage'[c] = "answered" /\ result'[c] = "error" /\ tasks'[c] = Absent
  BY <1>1 DEF IntakeInv, IntakeOK
<1>4. Holds(c)'
  BY <1>3 DEF Holds
<1> QED BY <1>1, <1>2, <1>4, OtherCalls DEF IntakeInv, IntakeOK

LEMMA BeginHolds == ASSUME IntakeInv, NEW c \in Calls, Begin(c), up' = up PROVE IntakeInv'
<1>1. /\ tasks[c] = Absent /\ result[c] = Absent /\ Admits(CallOf[c])
      /\ tasks' = tasks /\ findings' = findings /\ result' = result
      /\ stage' = [stage EXCEPT ![c] = "working"]
  BY DEF Begin, IntakeInv, Holds
<1>2. IntakeOK'
  BY <1>1 DEF IntakeInv, IntakeOK
<1>3. stage'[c] = "working" /\ result'[c] = Absent /\ tasks'[c] = Absent
  BY <1>1 DEF IntakeInv, IntakeOK
<1>4. Holds(c)'
  BY <1>1, <1>3, IntakeAssumption DEF Holds
<1> QED BY <1>1, <1>2, <1>4, OtherCalls DEF IntakeInv, IntakeOK

\* What handling a call does to its stage and its result.
LEMMA HandledMeans ==
  ASSUME IntakeInv, NEW c \in Calls, NEW with \in Results, Handled(c, with)
  PROVE  /\ stage[c] = "working" /\ result[c] = Absent /\ tasks[c] = Absent /\ Admits(CallOf[c])
         /\ result' \in [Calls -> Results \cup {Absent}] /\ result'[c] = with
         /\ stage' \in [Calls -> {"idle", "working", "waiting", "handled", "answered", "cut"}]
         /\ stage'[c] = IF with = "accepted" /\ CallOf[c].channel = "mcp_wait"
                        THEN "waiting" ELSE "handled"
         /\ \A d \in Calls \ {c} : stage'[d] = stage[d] /\ result'[d] = result[d]
BY DEF Handled, IntakeInv, IntakeOK, Holds

\* All the files are read, or there is no task.
LEMMA AssessHolds == ASSUME IntakeInv, NEW c \in Calls, Assess(c), up' = up PROVE IntakeInv'
<1> DEFINE call == CallOf[c]
<1>1. call.operation = "assess"
  BY DEF Assess
<1>2. CASE /\ Acceptable(call) /\ Screen(c, Range(call.files))
           /\ tasks' = [tasks EXCEPT ![c] = "running"] /\ Handled(c, "accepted")
  <2>1. \A f \in Range(call.files) : f \in Files /\ Readable(call, f)
    BY <1>2, CallFields DEF Acceptable, Range
  <2>2. findings' \subseteq Calls \X Files
    BY <1>2, <2>1 DEF Screen, IntakeInv, IntakeOK
  <2>3. tasks' \in [Calls -> {"running", "ended", Absent}] /\ tasks'[c] = "running"
        /\ \A d \in Calls \ {c} : tasks'[d] = tasks[d]
    BY <1>2 DEF IntakeInv, IntakeOK
  <2>4. "accepted" \in Results
    BY DEF Results
  <2>5. IntakeOK'
    BY <1>2, <2>2, <2>3, <2>4, HandledMeans DEF IntakeInv, IntakeOK
  <2>6. Holds(c)'
    BY <1>1, <1>2, <2>1, <2>3, <2>4, HandledMeans, IntakeAssumption DEF Holds
  <2> QED BY <1>2, <2>3, <2>4, <2>5, <2>6, HandledMeans, OtherCalls, IntakeAssumption
<1>3. CASE /\ ~Acceptable(call) /\ Handled(c, "error") /\ tasks' = tasks
           /\ Screen(c, FilesRead(call)) \/ findings' = findings
  <2>1. FilesRead(call) \subseteq Files
    BY CallFields DEF FilesRead
  <2>2. findings' \subseteq Calls \X Files
    BY <1>3, <2>1 DEF Screen, IntakeInv, IntakeOK
  <2>3. "error" \in Results
    BY DEF Results
  <2>4. IntakeOK'
    BY <1>3, <2>2, <2>3, HandledMeans DEF IntakeInv, IntakeOK
  <2>5. Holds(c)'
    BY <1>1, <1>3, <2>3, HandledMeans, IntakeAssumption DEF Holds
  <2> QED BY <1>3, <2>3, <2>4, <2>5, HandledMeans, OtherCalls
<1> QED BY <1>2, <1>3 DEF Assess

\* A report is read from a task that has ended, of the caller's tenant.
LEMMA GetHolds == ASSUME IntakeInv, NEW c \in Calls, GetTask(c), up' = up PROVE IntakeInv'
<1> DEFINE about == CallOf[c].task
           with == IF Visible(c, about)
                   THEN IF tasks[about] = "ended" THEN "report" ELSE "found" ELSE "error"
<1>1. /\ CallOf[c].operation = "get" /\ Handled(c, with)
      /\ tasks' = tasks /\ findings' = findings
  BY DEF GetTask
<1>2. with \in Results /\ with # "accepted"
  BY DEF Results
<1>3. with = "report" => tasks[about] = "ended" /\ TenantOf(about) = TenantOf(c)
  BY DEF Visible
<1> HIDE DEF with
<1>4. IntakeOK'
  BY <1>1, <1>2, HandledMeans DEF IntakeInv, IntakeOK
<1>5. Holds(c)'
  BY <1>1, <1>2, <1>3, HandledMeans DEF Holds
<1> QED BY <1>1, <1>2, <1>4, <1>5, HandledMeans, OtherCalls

LEMMA OtherHolds == ASSUME IntakeInv, NEW c \in Calls, Other(c), up' = up PROVE IntakeInv'
<1>1. PICK with \in {"found", "error"} : Handled(c, with)
  BY DEF Other
<1>2. CallOf[c].operation \notin {"assess", "get"} /\ tasks' = tasks /\ findings' = findings
  BY DEF Other
<1>3. with \in Results
  BY DEF Results
<1>4. IntakeOK'
  BY <1>1, <1>2, <1>3, HandledMeans DEF IntakeInv, IntakeOK
<1>5. Holds(c)'
  BY <1>1, <1>2, <1>3, HandledMeans DEF Holds
<1> QED BY <1>1, <1>2, <1>3, <1>4, <1>5, HandledMeans, OtherCalls

\* Only a call that waits for its own task comes here.
LEMMA WaitHolds ==
  ASSUME IntakeInv, NEW c \in Calls, Poll(c) \/ Timeout(c), up' = up
  PROVE  IntakeInv'
<1>1. /\ CallOf[c].operation = "assess" /\ CallOf[c].channel = "mcp_wait" /\ tasks[c] # Absent
      /\ tasks' = tasks /\ findings' = findings
      /\ stage' = [stage EXCEPT ![c] = "handled"]
      /\ \/ result' = [result EXCEPT ![c] = "report"] /\ tasks[c] = "ended"
         \/ result' = [result EXCEPT ![c] = "error"]
  BY DEF Poll, Timeout, IntakeInv, Holds
<1>2. IntakeOK'
  BY <1>1 DEF IntakeInv, IntakeOK, Results
<1>3. /\ stage'[c] = "handled" /\ tasks'[c] = tasks[c]
      /\ \/ result'[c] = "report" /\ tasks[c] = "ended"
         \/ result'[c] = "error"
  BY <1>1 DEF IntakeInv, IntakeOK
<1>4. Holds(c)'
  BY <1>1, <1>3 DEF IntakeInv, Holds
<1> QED BY <1>1, <1>2, <1>4, OtherCalls DEF IntakeInv, IntakeOK

LEMMA AnswerHolds == ASSUME IntakeInv, NEW c \in Calls, AnswerCall(c), up' = up PROVE IntakeInv'
<1>1. IntakeOK'
  BY DEF AnswerCall, IntakeInv, IntakeOK
<1>2. stage'[c] = "answered"
  BY DEF AnswerCall, IntakeInv, IntakeOK
<1>3. Holds(c)'
  BY <1>2, CallGoesOn DEF AnswerCall, IntakeInv
<1> QED BY <1>1, <1>3, OtherCalls DEF AnswerCall, IntakeInv, IntakeOK

LEMMA EndHolds == ASSUME IntakeInv, NEW c \in Calls, Ends(c), up' = up PROVE IntakeInv'
<1>1. /\ tasks[c] = "running" /\ tasks' = [tasks EXCEPT ![c] = "ended"]
      /\ stage' = stage /\ result' = result /\ findings' = findings
  BY DEF Ends
<1>2. IntakeOK' /\ tasks'[c] = "ended" /\ tasks[c] # Absent /\ tasks'[c] # Absent
  BY <1>1, IntakeAssumption DEF IntakeInv, IntakeOK
<1>3. CallOf[c].operation = "assess" => ~(result[c] = "error" /\ CallOf[c].channel # "mcp_wait")
  BY <1>2 DEF IntakeInv, Holds
<1>4. \A t \in Calls : tasks[t] = "ended" => tasks'[t] = "ended"
  BY <1>1 DEF IntakeInv, IntakeOK
<1>5. Holds(c)'
  BY <1>1, <1>2, <1>3, <1>4, CallFields DEF IntakeInv, Holds
<1> QED BY <1>1, <1>2, <1>5, OtherCalls DEF IntakeInv, IntakeOK

\* A stop cuts off what is under way; tasks and results stay.
LEMMA StopHolds == ASSUME IntakeInv, Stop PROVE IntakeInv'
<1>1. IntakeOK'
  BY DEF Stop, IntakeInv, IntakeOK
<1>2. ASSUME NEW d \in Calls PROVE Holds(d)'
  <2>1. stage'[d] \in {stage[d], "cut"}
    BY DEF Stop
  <2> QED BY <2>1, CallGoesOn DEF Stop, IntakeInv
<1> QED BY <1>1, <1>2 DEF IntakeInv

LEMMA IntakeInitially == IntakeInit => IntakeInv
<1> SUFFICES ASSUME IntakeInit PROVE IntakeInv
  OBVIOUS
<1>1. IntakeOK
  BY DEF IntakeInit, IntakeOK
<1>2. ASSUME NEW c \in Calls PROVE Holds(c)
  BY IntakeAssumption DEF IntakeInit, Holds
<1> QED BY <1>1, <1>2 DEF IntakeInv

LEMMA IntakeSteps == IntakeInv /\ [IntakeNext]_intake => IntakeInv'
<1> SUFFICES ASSUME IntakeInv, [IntakeNext]_intake PROVE IntakeInv'
  OBVIOUS
<1>1. CASE Stop
  BY <1>1, StopHolds
<1>2. CASE Start \/ UNCHANGED intake
  <2>1. IntakeOK'
    BY <1>2 DEF Start, intake, IntakeInv, IntakeOK
  <2>2. ASSUME NEW d \in Calls PROVE Holds(d)'
    BY <1>2, CallGoesOn DEF Start, intake, IntakeInv
  <2> QED BY <2>1, <2>2 DEF IntakeInv
<1>3. ASSUME up' = up, NEW c \in Calls,
             \/ Refuse(c) \/ Begin(c) \/ Assess(c) \/ GetTask(c) \/ Other(c)
             \/ Poll(c) \/ Timeout(c) \/ AnswerCall(c) \/ Ends(c)
      PROVE  IntakeInv'
  BY <1>3, RefuseHolds, BeginHolds, AssessHolds, GetHolds, OtherHolds, WaitHolds,
     AnswerHolds, EndHolds
<1> QED BY <1>1, <1>2, <1>3 DEF IntakeNext

\* The inductive invariant of the intake, for any calls, files, accounts and
\* settings (assessments.py, mcp_server.py, agent_gateway).
THEOREM IntakeInvariance == IntakeSpec => []IntakeInv
BY IntakeInitially, IntakeSteps, PTL DEF IntakeSpec

\* A caller who was told of a task or a report has one, of its own tenant and
\* of files that were all read; one who was told of an error has made none
\* (submit_assessment, submit_document, get_assessment_result).
THEOREM CallersHaveWhatTheyWereTold == IntakeSpec => []AnswersHold
<1>1. IntakeInv => AnswersHold
  BY DEF IntakeInv, Holds, AnswersHold
<1> QED BY <1>1, IntakeInvariance, PTL

-----------------------------------------------------------------------------
(***************************************************************************)
(* Token buckets.  Arithmetic first.                                       *)
(***************************************************************************)
LEMMA Positive ==
  /\ Full \in Nat /\ Full >= Minute /\ Ttl \in Nat
  /\ PerMinute \in Nat /\ PerMinute > 0 /\ Minute \in Nat /\ Minute > 0
<1>1. Full \in Nat /\ Full >= Minute
  BY LimiterAssumption DEF Full
<1>2. (2 * Full) \div PerMinute \in Nat
  <2>1. ASSUME NEW x \in Nat, NEW y \in Nat \ {0} PROVE x \div y \in Nat
    OBVIOUS
  <2> QED BY <1>1, <2>1, LimiterAssumption
<1>3. Ttl \in Nat
  BY <1>2, LimiterAssumption DEF Ttl
<1> QED BY <1>1, <1>3, LimiterAssumption

\* A longer time gains at least as much.
LEMMA GainMonotone ==
  ASSUME NEW x \in Int, NEW y \in Int, x <= y
  PROVE  PerMinute * x <= PerMinute * y /\ PerMinute * x \in Int /\ PerMinute * y \in Int
<1>1. PerMinute \in Nat
  BY Positive
<1>2. ASSUME NEW p \in Nat, NEW d \in Nat PROVE p * d \in Nat
  OBVIOUS
<1>3. y - x \in Nat /\ PerMinute * (y - x) = PerMinute * y - PerMinute * x
  BY <1>1
<1>4. PerMinute * (y - x) \in Nat
  BY <1>1, <1>2, <1>3
<1> QED BY <1>1, <1>3, <1>4

LEMMA SinceType == ASSUME NEW t \in Int, NEW now \in Int PROVE Since(t, now) \in Nat
BY DEF Since

-----------------------------------------------------------------------------
(***************************************************************************)
(* The invariant: what a bucket holds and what was taken from it never     *)
(* exceed what it held at first and gained since, also across the time     *)
(* when Redis has forgotten it; and it holds what it gained since it last  *)
(* gave a token.                                                           *)
(***************************************************************************)
Earned(b) ==
  /\ account[b] # Gone
  /\ bucket[b].at <= account[b].written /\ account[b].written <= clock
  /\ account[b].taken * Minute + bucket[b].tokens
       <= Full + PerMinute * (bucket[b].at - account[b].born + account[b].back)
  /\ PerMinute * (bucket[b].at - account[b].last) <= bucket[b].tokens

Forgotten(b) ==
  account[b] # Gone =>
    account[b].taken * Minute
      <= PerMinute * (clock - MaxLag - account[b].born + account[b].back)

Within(b) ==
  /\ bucket[b] # Gone => Earned(b)
  /\ bucket[b] = Gone => Forgotten(b)
  /\ account[b] # Gone /\ b[1] # Redis => account[b].back = 0

LimiterInv == BucketsOK /\ (\A b \in Buckets : Within(b)) /\ RefusedOnlyAfterUse

\* What is in force when a reading of the clock reaches a bucket.
Reads(b, now) ==
  /\ b \in Buckets /\ now \in Int
  /\ clock - MaxLag <= now /\ now <= clock
  /\ b[1] # Redis => now = clock

LEMMA HeldType ==
  ASSUME BucketsOK, NEW b, NEW now, Reads(b, now)
  PROVE  Refilled(b, now) \in 0..Full
<1>1. CASE bucket[b] = Gone
  BY <1>1, Positive DEF Refilled
<1>2. CASE bucket[b] # Gone
  <2>1. bucket[b].tokens \in 0..Full /\ bucket[b].at \in Int
    BY <1>2 DEF BucketsOK, Bucket, Reads
  <2>2. Since(bucket[b].at, now) * PerMinute \in Nat
    <3>1. ASSUME NEW x \in Nat, NEW y \in Nat PROVE x * y \in Nat
      OBVIOUS
    <3> QED BY <2>1, <3>1, SinceType, Positive DEF Reads
  <2> QED BY <1>2, <2>1, <2>2, Positive DEF Refilled, AtMost
<1> QED BY <1>1, <1>2

LEMMA OpenedType ==
  ASSUME BucketsOK, NEW b, NEW now, NEW anew \in BOOLEAN, Reads(b, now)
  PROVE  Opened(b, now, anew) \in Account
<1>1. clock \in Nat /\ now \in Int
  BY DEF BucketsOK, Reads
<1>2. CASE account[b] = Gone
  BY <1>1, <1>2 DEF Opened, Account
<1>3. CASE account[b] # Gone /\ anew
  <2>1. account[b] \in Account
    BY <1>3 DEF BucketsOK, Reads
  <2> QED BY <1>1, <1>3, <2>1 DEF Opened, Account
<1>4. CASE account[b] # Gone /\ ~anew
  <2>1. account[b] \in Account
    BY <1>4 DEF BucketsOK, Reads
  <2>2. (IF bucket[b] = Gone THEN 0 ELSE Since(now, bucket[b].at)) \in Nat
    BY <1>1, SinceType DEF BucketsOK, Bucket, Reads
  <2> QED BY <1>4, <2>1, <2>2 DEF Opened, Account
<1> QED BY <1>2, <1>3, <1>4

\* The heart of the proof: before a token is taken, the account is balanced at
\* the reading of the clock.  What a reading behind the bucket's would give
\* twice is what "back" counts; what Redis forgot had been filled again.
LEMMA Balanced ==
  ASSUME BucketsOK, NEW b, NEW now, NEW anew \in BOOLEAN, Reads(b, now), Within(b),
         NEW opened, opened = Opened(b, now, anew), NEW held, held = Refilled(b, now)
  PROVE  /\ opened.taken * Minute + held <= Full + PerMinute * (now - opened.born + opened.back)
         /\ held < Minute => PerMinute * (now - opened.last) <= held
         /\ b[1] # Redis => opened.back = 0
<1>1. held \in 0..Full /\ opened \in Account /\ clock \in Nat /\ now \in Int /\ MaxLag \in Nat
  BY HeldType, OpenedType, LimiterAssumption DEF BucketsOK, Reads
<1>2. CASE account[b] = Gone
  <2>1. opened = [taken |-> 0, born |-> now, back |-> 0, last |-> now, written |-> clock]
    BY <1>2 DEF Opened
  <2>2. bucket[b] = Gone
    BY <1>2 DEF Within, Earned
  <2>3. held = Full
    BY <2>2 DEF Refilled
  <2> QED BY <1>1, <2>1, <2>3, Positive
<1>3. CASE account[b] # Gone
  <2>1. account[b] \in Account
    BY <1>3 DEF BucketsOK, Reads
  <2> DEFINE a == account[b]
  <2>2. a.taken \in Nat /\ a.born \in Int /\ a.back \in Nat /\ a.last \in Int /\ a.written \in Nat
    BY <2>1 DEF Account
  <2>3. /\ anew => opened.taken = 0 /\ opened.born = now /\ opened.back = 0
        /\ ~anew => /\ opened.taken = a.taken /\ opened.born = a.born
                    /\ opened.back = a.back + (IF bucket[b] = Gone THEN 0
                                               ELSE Since(now, bucket[b].at))
        /\ opened.last = a.last
    BY <1>3, <2>1 DEF Opened, Account
  <2>4. anew => opened.taken * Minute + held <= Full + PerMinute * (now - opened.born + opened.back)
    <3> SUFFICES ASSUME anew
                 PROVE  opened.taken * Minute + held
                          <= Full + PerMinute * (now - opened.born + opened.back)
      OBVIOUS
    <3>1. opened.taken = 0 /\ opened.born = now /\ opened.back = 0
      BY <2>3
    <3>2. PerMinute * (now - now + 0) = 0 /\ 0 * Minute = 0
      BY <1>1, Positive
    <3>3. opened.taken * Minute = 0 /\ PerMinute * (now - opened.born + opened.back) = 0
      BY <3>1, <3>2, Zenon
    <3>4. 0 + held <= Full + 0
      BY <1>1, Positive
    <3> QED BY <3>3, <3>4, Zenon
  <2>5. CASE bucket[b] = Gone
    <3>1. held = Full
      BY <2>5 DEF Refilled
    <3>2. a.taken * Minute <= PerMinute * (clock - MaxLag - a.born + a.back)
      BY <1>3, <2>5 DEF Within, Forgotten
    <3>3. PerMinute * (clock - MaxLag - a.born + a.back) <= PerMinute * (now - a.born + a.back)
      BY <1>1, <2>2, GainMonotone DEF Reads
    <3>4. anew => opened.taken * Minute + held <= Full + PerMinute * (now - opened.born + opened.back)
      BY <2>4
    <3>5. ~anew => opened.taken * Minute + held <= Full + PerMinute * (now - opened.born + opened.back)
      <4>1. ~anew => opened.back = a.back
        BY <2>2, <2>3, <2>5
      <4> QED BY <1>1, <2>2, <2>3, <3>1, <3>2, <3>3, <4>1, Positive
    <3>6. b[1] # Redis => opened.back = 0
      BY <1>3, <2>2, <2>3, <2>5 DEF Within
    <3> QED BY <1>1, <3>1, <3>4, <3>5, <3>6, Positive
  <2>6. CASE bucket[b] # Gone
    <3> DEFINE tokens == bucket[b].tokens
               at == bucket[b].at
               gained == PerMinute * Since(at, now)
    <3>1. tokens \in 0..Full /\ at \in Int
      BY <2>6 DEF BucketsOK, Bucket, Reads
    <3>2. /\ at <= a.written /\ a.written <= clock
          /\ a.taken * Minute + tokens <= Full + PerMinute * (at - a.born + a.back)
          /\ PerMinute * (at - a.last) <= tokens
      BY <2>6 DEF Within, Earned
    <3>3. Since(at, now) \in Nat /\ Since(now, at) \in Nat
          /\ now - at = Since(at, now) - Since(now, at)
      BY <1>1, <3>1 DEF Since
    <3>4. gained \in Int
      BY <3>3, Positive
    <3>5. held <= tokens + gained /\ (held < Minute => held = tokens + gained)
      BY <1>1, <2>6, <3>1, <3>3, Positive DEF Refilled, AtMost
    <3>6. anew => opened.taken * Minute + held <= Full + PerMinute * (now - opened.born + opened.back)
      BY <2>4
    <3>7. ~anew => opened.taken * Minute + held <= Full + PerMinute * (now - opened.born + opened.back)
      <4> SUFFICES ASSUME ~anew
                   PROVE  opened.taken * Minute + held
                            <= Full + PerMinute * (now - opened.born + opened.back)
        OBVIOUS
      <4>1. opened.taken = a.taken /\ opened.born = a.born /\ opened.back = a.back + Since(now, at)
        BY <2>3, <2>6
      <4>2. now - opened.born + opened.back = (at - a.born + a.back) + Since(at, now)
        BY <1>1, <2>2, <3>1, <3>3, <4>1
      <4>3. PerMinute * (now - opened.born + opened.back) = PerMinute * (at - a.born + a.back) + gained
        <5>1. ASSUME NEW x \in Int, NEW y \in Int
              PROVE  PerMinute * (x + y) = PerMinute * x + PerMinute * y
          BY Positive
        <5>2. (at - a.born + a.back) \in Int
          BY <2>2, <3>1
        <5> QED BY <4>2, <5>1, <5>2, <3>3
      <4>4. a.taken * Minute \in Int /\ PerMinute * (at - a.born + a.back) \in Int
        BY <2>2, <3>1, Positive
      <4> QED BY <1>1, <3>1, <3>2, <3>4, <3>5, <4>1, <4>3, <4>4, Positive
    <3>8. held < Minute => PerMinute * (now - opened.last) <= held
      <4> SUFFICES ASSUME held < Minute PROVE PerMinute * (now - opened.last) <= held
        OBVIOUS
      <4>1. PerMinute * (now - a.last) <= PerMinute * ((at - a.last) + Since(at, now))
        BY <1>1, <2>2, <3>1, <3>3, GainMonotone
      <4>2. PerMinute * ((at - a.last) + Since(at, now)) = PerMinute * (at - a.last) + gained
        BY <2>2, <3>1, <3>3, Positive
      <4>3. PerMinute * (at - a.last) \in Int /\ PerMinute * (now - a.last) \in Int
        BY <1>1, <2>2, <3>1, Positive
      <4> QED BY <1>1, <2>3, <3>1, <3>2, <3>4, <3>5, <4>1, <4>2, <4>3
    <3>9. b[1] # Redis => opened.back = 0
      <4>1. b[1] # Redis => now = clock /\ a.back = 0
        BY <1>3 DEF Reads, Within
      <4>2. b[1] # Redis => Since(now, at) = 0
        BY <1>1, <2>2, <3>1, <3>2, <4>1 DEF Since
      <4> QED BY <2>3, <2>6, <4>1, <4>2
    <3> QED BY <3>6, <3>7, <3>8, <3>9
  <2> QED BY <2>5, <2>6
<1> QED BY <1>2, <1>3

-----------------------------------------------------------------------------
(***************************************************************************)
(* A decision keeps the invariant of its own bucket.                       *)
(***************************************************************************)
LEMMA DecidesWithin ==
  ASSUME BucketsOK, NEW b, NEW now, Reads(b, now), Within(b), UNCHANGED clock, Decide(b, now)
  PROVE  /\ bucket' \in [Buckets -> Bucket \cup {Gone}]
         /\ account' \in [Buckets -> Account \cup {Gone}]
         /\ answer' \in Answer /\ calls' \in Nat
         /\ \A c \in Buckets : c # b => bucket'[c] = bucket[c] /\ account'[c] = account[c]
         /\ Within(b)' /\ RefusedOnlyAfterUse'
<1> DEFINE held == Refilled(b, now)
           allowed == held >= Minute
<1>1. PICK anew \in BOOLEAN :
        account' = [account EXCEPT ![b] =
          IF allowed
          THEN [Opened(b, now, anew) EXCEPT !.taken = @ + 1, !.last = now, !.written = clock]
          ELSE [Opened(b, now, anew) EXCEPT !.written = clock]]
  BY DEF Decide
<1> DEFINE opened == Opened(b, now, anew)
           made == [tokens |-> IF allowed THEN held - Minute ELSE held, at |-> now]
           kept == IF allowed
                   THEN [opened EXCEPT !.taken = @ + 1, !.last = now, !.written = clock]
                   ELSE [opened EXCEPT !.written = clock]
<1>2. /\ bucket' = [bucket EXCEPT ![b] = made] /\ account' = [account EXCEPT ![b] = kept]
      /\ answer' = [bucket |-> b, now |-> now, allowed |-> allowed] /\ calls' = calls + 1
  BY <1>1 DEF Decide, Remaining
<1>3. held \in 0..Full /\ opened \in Account /\ clock \in Nat /\ now \in Int /\ b \in Buckets
  BY HeldType, OpenedType DEF BucketsOK, Reads
<1>4. /\ opened.taken * Minute + held <= Full + PerMinute * (now - opened.born + opened.back)
      /\ held < Minute => PerMinute * (now - opened.last) <= held
      /\ b[1] # Redis => opened.back = 0
  BY <1>3, Balanced
<1> HIDE DEF held, opened
<1>5. opened.taken \in Nat /\ opened.born \in Int /\ opened.back \in Nat /\ opened.last \in Int
  BY <1>3 DEF Account
<1>6. made \in Bucket /\ made.at = now
      /\ made.tokens = IF allowed THEN held - Minute ELSE held
  BY <1>3, Positive DEF Bucket
<1>7. /\ kept \in Account
      /\ kept.taken = IF allowed THEN opened.taken + 1 ELSE opened.taken
      /\ kept.last = IF allowed THEN now ELSE opened.last
      /\ kept.born = opened.born /\ kept.back = opened.back /\ kept.written = clock
  <2>1. CASE allowed
    <3>1. kept = [opened EXCEPT !.taken = opened.taken + 1, !.last = now, !.written = clock]
      BY <2>1
    <3>2. opened.taken + 1 \in Nat
      BY <1>5
    <3> HIDE DEF kept
    <3> QED BY <1>3, <1>5, <2>1, <3>1, <3>2 DEF Account
  <2>2. CASE ~allowed
    BY <1>3, <1>5, <2>2 DEF Account
  <2> QED BY <2>1, <2>2
<1> HIDE DEF made, kept
<1>8. bucket'[b] = made /\ account'[b] = kept
  BY <1>2, <1>3 DEF BucketsOK
<1>9. made # Gone /\ kept # Gone
  BY <1>6, <1>7, LimiterAssumption
<1>10. kept.taken * Minute + made.tokens = opened.taken * Minute + held
  <2>1. CASE allowed
    <3>1. (opened.taken + 1) * Minute = opened.taken * Minute + Minute
      BY <1>5, Positive
    <3>2. opened.taken * Minute \in Int
      BY <1>5, Positive
    <3>3. kept.taken * Minute = opened.taken * Minute + Minute
      BY <1>7, <2>1, <3>1
    <3> QED BY <1>3, <1>6, <2>1, <3>2, <3>3, Positive
  <2>2. CASE ~allowed
    BY <1>6, <1>7, <2>2
  <2> QED BY <2>1, <2>2
<1>11. PerMinute * (made.at - kept.last) <= made.tokens
  <2>1. CASE allowed
    <3>1. made.at - kept.last = 0
      BY <1>3, <1>6, <1>7, <2>1
    <3>2. PerMinute * 0 = 0
      BY Positive
    <3>3. 0 <= made.tokens
      BY <1>3, <1>6, <2>1, Positive
    <3> QED BY <3>1, <3>2, <3>3, Zenon
  <2>2. CASE ~allowed
    <3>1. held < Minute
      BY <1>3, <2>2, Positive
    <3> QED BY <1>4, <1>6, <1>7, <2>2, <3>1
  <2> QED BY <2>1, <2>2
<1>12. Within(b)'
  <2>1. kept.taken * Minute + made.tokens <= Full + PerMinute * (made.at - kept.born + kept.back)
    BY <1>4, <1>6, <1>7, <1>10
  <2>2. made.at <= kept.written /\ kept.written <= clock
    BY <1>3, <1>6, <1>7 DEF Reads
  <2>3. Earned(b)'
    BY <1>8, <1>9, <1>11, <2>1, <2>2 DEF Earned
  <2> QED BY <1>4, <1>7, <1>8, <1>9, <2>3 DEF Within
<1>13. RefusedOnlyAfterUse'
  <2> SUFFICES ASSUME ~allowed PROVE (now - kept.last) * PerMinute < Minute
    BY <1>2, <1>8 DEF RefusedOnlyAfterUse
  <2>1. held < Minute
    BY <1>3, Positive
  <2>2. PerMinute * (now - kept.last) <= held
    BY <1>4, <1>7, <2>1
  <2>3. (now - kept.last) * PerMinute = PerMinute * (now - kept.last) /\ PerMinute * (now - kept.last) \in Int
    BY <1>3, <1>5, <1>7, Positive
  <2> QED BY <1>3, <2>1, <2>2, <2>3, Positive
<1>14. answer' \in Answer /\ calls' \in Nat
  BY <1>2, <1>3, Positive DEF Answer, BucketsOK
<1>15. /\ bucket' \in [Buckets -> Bucket \cup {Gone}]
       /\ account' \in [Buckets -> Account \cup {Gone}]
       /\ \A c \in Buckets : c # b => bucket'[c] = bucket[c] /\ account'[c] = account[c]
  BY <1>2, <1>3, <1>6, <1>7 DEF BucketsOK
<1> QED BY <1>12, <1>13, <1>14, <1>15

\* A bucket that a step leaves alone is balanced later too.
LEMMA Waits ==
  ASSUME BucketsOK, NEW b \in Buckets, Within(b), bucket'[b] = bucket[b], account'[b] = account[b],
         clock' \in Nat, clock <= clock'
  PROVE  Within(b)'
<1>1. clock \in Nat /\ MaxLag \in Nat
  BY LimiterAssumption DEF BucketsOK
<1>2. CASE account[b] = Gone
  BY <1>2 DEF Within, Earned, Forgotten
<1>3. CASE account[b] # Gone
  <2>1. account[b] \in Account
    BY <1>3 DEF BucketsOK
  <2>2. /\ account[b].taken \in Nat /\ account[b].born \in Int /\ account[b].back \in Nat
        /\ account[b].written \in Nat
    BY <2>1 DEF Account
  <2>3. bucket[b] # Gone => Earned(b)'
    BY <1>1, <2>2 DEF Within, Earned
  <2>4. bucket[b] = Gone => Forgotten(b)'
    <3> SUFFICES ASSUME bucket[b] = Gone PROVE Forgotten(b)'
      OBVIOUS
    <3> DEFINE then == PerMinute * (clock - MaxLag - account[b].born + account[b].back)
               later == PerMinute * (clock' - MaxLag - account[b].born + account[b].back)
    <3>1. account[b].taken * Minute <= then
      BY <1>3 DEF Within, Forgotten
    <3>2. then <= later /\ then \in Int /\ later \in Int
      BY <1>1, <2>2, GainMonotone
    <3>3. account[b].taken * Minute \in Int
      BY <2>2, Positive
    <3>4. account[b].taken * Minute <= later
      <4> HIDE DEF then, later
      <4> QED BY <3>1, <3>2, <3>3
    <3> QED BY <3>4 DEF Forgotten
  <2> QED BY <2>3, <2>4 DEF Within
<1> QED BY <1>2, <1>3

-----------------------------------------------------------------------------
(***************************************************************************)
(* The steps.                                                              *)
(***************************************************************************)
LEMMA DecideKeeps ==
  ASSUME LimiterInv, NEW b, NEW now, Reads(b, now), UNCHANGED clock, Decide(b, now),
         failed' \in [Processes -> SUBSET BucketKeys]
  PROVE  LimiterInv'
<1>1. BucketsOK /\ Within(b)
  BY DEF LimiterInv, Reads
<1>2. BucketsOK' /\ RefusedOnlyAfterUse' /\ Within(b)'
  BY <1>1, DecidesWithin DEF BucketsOK
<1>3. ASSUME NEW c \in Buckets, c # b PROVE Within(c)'
  <2>1. bucket'[c] = bucket[c] /\ account'[c] = account[c]
    BY <1>1, <1>3, DecidesWithin
  <2>2. clock' \in Nat /\ clock <= clock'
    BY <1>1 DEF BucketsOK
  <2> QED BY <1>1, <2>1, <2>2, Waits DEF LimiterInv
<1> QED BY <1>2, <1>3 DEF LimiterInv

LEMMA CallersHaveKeys == \A caller \in Callers : KeyOf(caller) \in BucketKeys
BY DEF BucketKeys

\* A call of Redis with a reading of the clock, and one of a process's own.
LEMMA SharedReads ==
  ASSUME BucketsOK, NEW key \in BucketKeys, NEW lag \in 0..MaxLag
  PROVE  Reads(<<Redis, key>>, clock - lag)
BY LimiterAssumption DEF Reads, Buckets, Stores, BucketsOK

LEMMA LocalReads ==
  ASSUME BucketsOK, NEW p \in Processes, NEW key \in BucketKeys
  PROVE  Reads(<<p, key>>, clock)
BY LimiterAssumption DEF Reads, Buckets, Stores, BucketsOK

LEMMA SharedKeeps ==
  ASSUME LimiterInv, NEW key \in BucketKeys, NEW lag \in 0..MaxLag,
         \/ AllowShared(key, lag)
         \/ \E p \in Processes : ReplyLost(p, key, lag)
  PROVE  LimiterInv'
<1>1. Reads(<<Redis, key>>, clock - lag)
  BY SharedReads DEF LimiterInv
<1>2. UNCHANGED clock /\ Decide(<<Redis, key>>, clock - lag)
  BY DEF AllowShared, ReplyLost
<1>3. failed' \in [Processes -> SUBSET BucketKeys]
  BY DEF AllowShared, ReplyLost, LimiterInv, BucketsOK
<1> QED BY <1>1, <1>2, <1>3, DecideKeeps

LEMMA LocalKeeps ==
  ASSUME LimiterInv, NEW p \in Processes, NEW key \in BucketKeys, AllowLocal(p, key)
  PROVE  LimiterInv'
<1>1. Reads(<<p, key>>, clock)
  BY LocalReads DEF LimiterInv
<1>2. UNCHANGED clock /\ Decide(<<p, key>>, clock)
  BY DEF AllowLocal
<1>3. failed' \in [Processes -> SUBSET BucketKeys]
  BY DEF AllowLocal, LimiterInv, BucketsOK
<1> QED BY <1>1, <1>2, <1>3, DecideKeeps

\* What Redis forgets had been filled again by any later reading of a clock.
LEMMA ExpireKeeps ==
  ASSUME LimiterInv, NEW key \in BucketKeys, Expire(key)
  PROVE  LimiterInv'
<1> DEFINE b == <<Redis, key>>
<1>1. b \in Buckets /\ BucketsOK /\ Within(b)
  BY DEF LimiterInv, Buckets, Stores
<1>2. /\ bucket' = [bucket EXCEPT ![b] = Gone] /\ bucket[b] # Gone
      /\ clock - account[b].written >= Ttl
      /\ UNCHANGED <<clock, account, failed, answer, calls>>
  BY DEF Expire
<1>3. BucketsOK' /\ RefusedOnlyAfterUse'
  BY <1>1, <1>2 DEF LimiterInv, BucketsOK, RefusedOnlyAfterUse
<1>4. Within(b)'
  <2>1. Earned(b) /\ account[b] # Gone
    BY <1>1, <1>2 DEF Within, Earned
  <2> DEFINE a == account[b]
             at == bucket[b].at
  <2>2. /\ a.taken \in Nat /\ a.born \in Int /\ a.back \in Nat /\ a.written \in Nat
        /\ at \in Int /\ bucket[b].tokens \in 0..Full /\ clock \in Nat
    BY <1>1, <1>2, <2>1 DEF BucketsOK, Account, Bucket
  <2>3. MaxLag \in Nat /\ Full <= PerMinute * (Ttl - MaxLag) /\ Ttl \in Nat /\ Full \in Nat
    BY LimiterAssumption, Positive
  <2>4. a.taken * Minute <= Full + PerMinute * (at - a.born + a.back)
    <3>1. a.taken * Minute \in Int /\ PerMinute * (at - a.born + a.back) \in Int
      BY <2>2, Positive
    <3>2. a.taken * Minute + bucket[b].tokens <= Full + PerMinute * (at - a.born + a.back)
      BY <2>1 DEF Earned
    <3> QED BY <2>2, <2>3, <3>1, <3>2
  <2>5. at - a.born + a.back <= clock - Ttl - a.born + a.back
    BY <1>2, <2>1, <2>2, <2>3 DEF Earned
  <2>6. PerMinute * (at - a.born + a.back) <= PerMinute * (clock - Ttl - a.born + a.back)
    BY <2>2, <2>3, <2>5, GainMonotone
  <2>7. PerMinute * (clock - Ttl - a.born + a.back) + PerMinute * (Ttl - MaxLag)
          = PerMinute * (clock - MaxLag - a.born + a.back)
    <3>1. ASSUME NEW x \in Int, NEW y \in Int PROVE PerMinute * x + PerMinute * y = PerMinute * (x + y)
      BY Positive
    <3>2. /\ clock - Ttl - a.born + a.back \in Int /\ Ttl - MaxLag \in Int
          /\ (clock - Ttl - a.born + a.back) + (Ttl - MaxLag) = clock - MaxLag - a.born + a.back
      BY <2>2, <2>3
    <3> QED BY <3>1, <3>2
  <2>8. /\ a.taken * Minute \in Int /\ PerMinute * (at - a.born + a.back) \in Int
        /\ PerMinute * (clock - Ttl - a.born + a.back) \in Int
        /\ PerMinute * (Ttl - MaxLag) \in Int
        /\ PerMinute * (clock - MaxLag - a.born + a.back) \in Int
    BY <2>2, <2>3, Positive
  <2>9. a.taken * Minute <= PerMinute * (clock - MaxLag - a.born + a.back)
    BY <2>3, <2>4, <2>6, <2>7, <2>8
  <2>10. bucket'[b] = Gone /\ account'[b] = account[b]
    BY <1>1, <1>2 DEF BucketsOK
  <2> QED BY <1>2, <2>1, <2>9, <2>10 DEF Within, Forgotten
<1>5. ASSUME NEW c \in Buckets, c # b PROVE Within(c)'
  <2>1. bucket'[c] = bucket[c] /\ account'[c] = account[c] /\ clock' = clock
    BY <1>1, <1>2, <1>5 DEF BucketsOK
  <2>2. clock' \in Nat /\ clock <= clock' /\ Within(c)
    BY <1>1, <2>1 DEF BucketsOK, LimiterInv
  <2> QED BY <1>1, <2>1, <2>2, Waits
<1> QED BY <1>3, <1>4, <1>5 DEF LimiterInv

LEMMA RestartKeeps ==
  ASSUME LimiterInv, NEW s \in Stores, Restart(s)
  PROVE  LimiterInv'
<1>1. BucketsOK
  BY DEF LimiterInv
<1>2. BucketsOK' /\ RefusedOnlyAfterUse'
  BY <1>1 DEF Restart, BucketsOK, RefusedOnlyAfterUse
<1>3. ASSUME NEW c \in Buckets PROVE Within(c)'
  <2>1. CASE c[1] = s
    <3>1. bucket'[c] = Gone /\ account'[c] = Gone
      BY <2>1 DEF Restart
    <3> QED BY <3>1 DEF Within, Forgotten
  <2>2. CASE c[1] # s
    <3>1. bucket'[c] = bucket[c] /\ account'[c] = account[c] /\ clock' = clock
      BY <2>2 DEF Restart
    <3>2. clock' \in Nat /\ clock <= clock' /\ Within(c)
      BY <1>1, <3>1 DEF BucketsOK, LimiterInv
    <3> QED BY <1>1, <3>1, <3>2, Waits
  <2> QED BY <2>1, <2>2
<1> QED BY <1>2, <1>3 DEF LimiterInv

\* Time passes, or a call fails, or nothing happens.
LEMMA LaterKeeps ==
  ASSUME LimiterInv, UNCHANGED <<bucket, account, answer, calls>>, clock' \in Nat, clock <= clock',
         failed' \in [Processes -> SUBSET BucketKeys]
  PROVE  LimiterInv'
<1>1. BucketsOK' /\ RefusedOnlyAfterUse'
  BY DEF LimiterInv, BucketsOK, RefusedOnlyAfterUse
<1>2. ASSUME NEW c \in Buckets PROVE Within(c)'
  BY <1>2, Waits DEF LimiterInv
<1> QED BY <1>1, <1>2 DEF LimiterInv

LEMMA LimiterInvariance == LimiterSpec => []LimiterInv
<1>1. LimiterInit => LimiterInv
  <2> SUFFICES ASSUME LimiterInit PROVE LimiterInv
    OBVIOUS
  <2>1. BucketsOK /\ RefusedOnlyAfterUse
    BY DEF LimiterInit, BucketsOK, RefusedOnlyAfterUse
  <2>2. \A b \in Buckets : Within(b)
    BY DEF LimiterInit, Within, Forgotten
  <2> QED BY <2>1, <2>2 DEF LimiterInv
<1>2. LimiterInv /\ [LimiterNext]_limiter => LimiterInv'
  <2> SUFFICES ASSUME LimiterInv, [LimiterNext]_limiter PROVE LimiterInv'
    OBVIOUS
  <2>1. clock \in Nat /\ failed \in [Processes -> SUBSET BucketKeys]
    BY DEF LimiterInv, BucketsOK
  <2>2. CASE UNCHANGED limiter
    BY <2>1, <2>2, LaterKeeps DEF limiter
  <2>3. ASSUME NEW caller \in Callers, NEW lag \in 0..MaxLag,
               \/ AllowShared(KeyOf(caller), lag)
               \/ \E p \in Processes : ReplyLost(p, KeyOf(caller), lag)
        PROVE  LimiterInv'
    BY <2>3, CallersHaveKeys, SharedKeeps
  <2>4. ASSUME NEW caller \in Callers, NEW p \in Processes, NotReached(p, KeyOf(caller))
        PROVE  LimiterInv'
    <3>1. failed' \in [Processes -> SUBSET BucketKeys]
      BY <2>1, <2>4, CallersHaveKeys DEF NotReached
    <3> QED BY <2>1, <2>4, <3>1, LaterKeeps DEF NotReached
  <2>5. ASSUME NEW caller \in Callers, NEW p \in Processes, AllowLocal(p, KeyOf(caller))
        PROVE  LimiterInv'
    BY <2>5, CallersHaveKeys, LocalKeeps
  <2>6. ASSUME NEW key \in BucketKeys, Expire(key) PROVE LimiterInv'
    BY <2>6, ExpireKeeps
  <2>7. ASSUME NEW s \in Stores, Restart(s) PROVE LimiterInv'
    BY <2>7, RestartKeeps
  <2>8. CASE Tick
    BY <2>1, <2>8, LaterKeeps DEF Tick
  <2> QED BY <2>2, <2>3, <2>4, <2>5, <2>6, <2>7, <2>8 DEF LimiterNext
<1> QED BY <1>1, <1>2, PTL DEF LimiterSpec

\* The variables of the limiter keep their types: a bucket never holds less
\* than nothing or more than its capacity.
THEOREM LimiterTypes == LimiterSpec => []BucketsOK
<1>1. LimiterInv => BucketsOK
  BY DEF LimiterInv
<1> QED BY <1>1, LimiterInvariance, PTL

\* Nobody gets more than the burst and the rate allow in any stretch of time,
\* for any capacity, rate and number of callers and processes, even though
\* Redis forgets buckets and clocks may be read late.
THEOREM BudgetKept == LimiterSpec => []Budget
<1>1. LimiterInv => Budget
  <2> SUFFICES ASSUME LimiterInv, NEW b \in Buckets, account[b] # Gone
               PROVE  /\ account[b].taken * Minute <=
                           Full + PerMinute * (clock - account[b].born + account[b].back)
                      /\ b[1] # Redis => account[b].back = 0
    BY DEF Budget
  <2> DEFINE a == account[b]
             now == PerMinute * (clock - a.born + a.back)
  <2>1. /\ a.taken \in Nat /\ a.born \in Int /\ a.back \in Nat /\ a.written \in Nat
        /\ clock \in Nat /\ MaxLag \in Nat /\ Full \in Nat /\ a.taken * Minute \in Int
    <3>1. a \in Account /\ clock \in Nat
      BY DEF LimiterInv, BucketsOK
    <3>2. a.taken \in Nat
      BY <3>1 DEF Account
    <3> QED BY <3>1, <3>2, LimiterAssumption, Positive DEF Account
  <2>2. b[1] # Redis => a.back = 0
    BY DEF LimiterInv, Within
  <2>3. CASE bucket[b] = Gone
    <3> DEFINE then == PerMinute * (clock - MaxLag - a.born + a.back)
    <3>1. a.taken * Minute <= then
      BY <2>3 DEF LimiterInv, Within, Forgotten
    <3>2. then <= now /\ then \in Int /\ now \in Int
      BY <2>1, GainMonotone
    <3> HIDE DEF then, now
    <3>3. a.taken * Minute <= Full + now
      BY <2>1, <3>1, <3>2
    <3> QED BY <2>2, <3>3 DEF now
  <2>4. CASE bucket[b] # Gone
    <3> DEFINE then == PerMinute * (bucket[b].at - a.born + a.back)
    <3>1. bucket[b].at \in Int /\ bucket[b].tokens \in 0..Full
      BY <2>4 DEF LimiterInv, BucketsOK, Bucket
    <3>2. a.taken * Minute + bucket[b].tokens <= Full + then /\ bucket[b].at <= clock
      BY <2>1, <2>4, <3>1 DEF LimiterInv, Within, Earned
    <3>3. then <= now /\ then \in Int /\ now \in Int
      BY <2>1, <3>1, <3>2, GainMonotone
    <3> HIDE DEF then, now
    <3>4. a.taken * Minute <= Full + now
      BY <2>1, <3>1, <3>2, <3>3
    <3> QED BY <2>2, <3>4 DEF now
  <2> QED BY <2>3, <2>4
<1> QED BY <1>1, LimiterInvariance, PTL

\* A refusal comes within the time of one token of what the caller was last
\* given: the limiter starves nobody.
THEOREM RefusalsDeserved == LimiterSpec => []RefusedOnlyAfterUse
<1>1. LimiterInv => RefusedOnlyAfterUse
  BY DEF LimiterInv
<1> QED BY <1>1, LimiterInvariance, PTL

-----------------------------------------------------------------------------
(***************************************************************************)
(* Custom skills, in memory and in a file.                                 *)
(***************************************************************************)
\* A built-in skill is never overridden, even by an id that is in doubt or
\* after a load that dropped items: a file has only what the memory had.
NeverHidden ==
  \A id \in SkillIds : id \in BuiltinSkills =>
    /\ skills # Unloaded => skills[id] = NoSkill
    /\ skillsFile # Torn => skillsFile[id] = NoSkill

SkillsInv == SkillsOK /\ NeverHidden /\ KeptAsConfirmed

\* Nothing is stored, and nothing was told.
LEMMA SkillsInitially == SkillsInit => SkillsInv
<1> SUFFICES ASSUME SkillsInit PROVE SkillsInv
  OBVIOUS
<1>1. NoSkills \in Custom /\ confirmed \in [SkillIds -> Prompts \cup {Nulled, NoSkill}]
  BY DEF SkillsInit, NoSkills, Custom
<1>2. SkillsOK
  BY <1>1, SkillsAssumption DEF SkillsInit, SkillsOK
<1> QED BY <1>2 DEF SkillsInit, SkillsInv, NeverHidden, KeptAsConfirmed, PromptOf, NoSkills

\* What is stored for an id says what was asked for.
LEMMA ItemSays ==
  ASSUME SkillsOK, skills # Unloaded, NEW id \in SkillIds,
         NEW to \in Prompts \cup {Nulled, NoSkill}
  PROVE  ItemOf(id, to) \in Item \cup {NoSkill} /\ PromptOf(ItemOf(id, to)) = to
<1>1. CASE to = NoSkill
  BY <1>1 DEF ItemOf, PromptOf
<1>2. CASE to # NoSkill
  <2> DEFINE rank == IF skills[id] = NoSkill THEN saves + 1 ELSE skills[id].rank
  <2>1. skills[id] \in Item \cup {NoSkill} /\ saves \in Nat
    BY SkillsAssumption DEF SkillsOK, Custom
  <2>2. rank \in Nat
    BY <2>1 DEF Item
  <2>3. ItemOf(id, to) = [prompt |-> to, rank |-> rank]
    BY <1>2 DEF ItemOf
  <2> HIDE DEF rank
  <2>4. ItemOf(id, to) \in Item /\ ItemOf(id, to).prompt = to
    BY <1>2, <2>2, <2>3 DEF Item
  <2> QED BY <2>4, SkillsAssumption DEF PromptOf
<1> QED BY <1>1, <1>2

\* A save, whether it ends well or not, changes its own id only.
LEMMA SkillSaved ==
  ASSUME SkillsInv, NEW id \in SkillIds, NEW to \in Prompts \cup {Nulled, NoSkill},
         skills # Unloaded, id \notin BuiltinSkills, SaveSkills(id, to)
  PROVE  SkillsInv'
<1> DEFINE item == ItemOf(id, to)
           Well == /\ skillsFile' = skills' /\ confirmed' = [confirmed EXCEPT ![id] = to]
                   /\ unanswered' = unanswered \ {id} /\ lost' = lost \ {id}
           Badly == /\ skillsFile' \in {skillsFile, Torn} /\ unanswered' = unanswered \cup {id}
                    /\ confirmed' = confirmed /\ lost' = lost
<1>1. item \in Item \cup {NoSkill} /\ PromptOf(item) = to
  BY ItemSays DEF SkillsInv
<1>2. /\ skills' = [skills EXCEPT ![id] = item] /\ saves' \in 0..MaxSkillChanges
      /\ Well \/ Badly
  BY SkillsAssumption DEF SaveSkills, SkillsInv, SkillsOK
<1>3. /\ skills \in Custom /\ skillsFile \in Custom \cup {Torn}
      /\ confirmed \in [SkillIds -> Prompts \cup {Nulled, NoSkill}]
      /\ unanswered \subseteq SkillIds /\ lost \subseteq SkillIds
  BY DEF SkillsInv, SkillsOK
<1> HIDE DEF item
<1>4. /\ skills' \in Custom /\ skills'[id] = item
      /\ \A i \in SkillIds : i # id => skills'[i] = skills[i]
  BY <1>1, <1>2, <1>3 DEF Custom
<1>5. CASE Well
  <2>1. /\ confirmed' \in [SkillIds -> Prompts \cup {Nulled, NoSkill}] /\ confirmed'[id] = to
        /\ \A i \in SkillIds : i # id => confirmed'[i] = confirmed[i]
    BY <1>3, <1>5
  <2>2. SkillsOK'
    BY <1>2, <1>3, <1>4, <1>5, <2>1 DEF SkillsOK
  <2>3. NeverHidden'
    BY <1>4, <1>5 DEF SkillsInv, NeverHidden
  <2>4. ASSUME NEW i \in SkillIds, i \notin unanswered' \cup lost'
        PROVE  PromptOf(skills'[i]) = confirmed'[i]
    <3>1. CASE i = id
      BY <1>1, <1>4, <2>1, <3>1
    <3>2. CASE i # id
      BY <1>4, <1>5, <2>1, <2>4, <3>2 DEF SkillsInv, KeptAsConfirmed
    <3> QED BY <3>1, <3>2
  <2>5. \A i \in SkillIds \cap BuiltinSkills : confirmed'[i] = NoSkill
    BY <2>1 DEF SkillsInv, KeptAsConfirmed
  <2>6. KeptAsConfirmed'
    BY <1>5, <2>4, <2>5 DEF KeptAsConfirmed, PromptOf
  <2> QED BY <2>2, <2>3, <2>6 DEF SkillsInv
<1>6. CASE Badly
  <2>1. SkillsOK'
    BY <1>2, <1>3, <1>4, <1>6 DEF SkillsOK
  <2>2. NeverHidden'
    BY <1>4, <1>6 DEF SkillsInv, NeverHidden
  <2>3. ASSUME NEW i \in SkillIds, i \notin unanswered' \cup lost'
        PROVE  /\ PromptOf(skills'[i]) = confirmed'[i]
               /\ skillsFile' # Torn => PromptOf(skillsFile'[i]) = confirmed'[i]
    <3>1. i # id /\ i \notin unanswered \cup lost
      BY <1>6, <2>3
    <3> QED BY <1>4, <1>6, <3>1 DEF SkillsInv, KeptAsConfirmed
  <2>4. \A i \in SkillIds \cap BuiltinSkills : confirmed'[i] = NoSkill
    BY <1>6 DEF SkillsInv, KeptAsConfirmed
  <2>5. KeptAsConfirmed'
    BY <2>3, <2>4 DEF KeptAsConfirmed, PromptOf
  <2> QED BY <2>1, <2>2, <2>5 DEF SkillsInv
<1> QED BY <1>2, <1>5, <1>6

\* What a load keeps is what was told, and what it drops is marked as lost.
LEMMA LoadedSkills == SkillsInv /\ LoadSkills => SkillsInv'
<1> SUFFICES ASSUME SkillsInv, LoadSkills PROVE SkillsInv'
  OBVIOUS
<1>1. /\ skillsFile' = skillsFile /\ confirmed' = confirmed /\ unanswered' = unanswered
      /\ lost' = lost \cup Dropped /\ saves' = saves
      /\ skills' = [i \in SkillIds |-> IF i \in Dropped THEN NoSkill ELSE skillsFile[i]]
  BY DEF LoadSkills
<1>2. /\ Dropped \subseteq SkillIds
      /\ \A i \in SkillIds \ Dropped : skillsFile # Torn
  BY DEF Dropped
<1>3. \A i \in SkillIds : skills'[i] = IF i \in Dropped THEN NoSkill ELSE skillsFile[i]
  BY <1>1
<1>4. skills' \in Custom
  BY <1>1, <1>2 DEF SkillsInv, SkillsOK, Custom
<1>5. SkillsOK'
  BY <1>1, <1>2, <1>4 DEF SkillsInv, SkillsOK
<1>6. NeverHidden'
  BY <1>1, <1>2, <1>3 DEF SkillsInv, NeverHidden
<1>7. ASSUME NEW i \in SkillIds, i \notin unanswered' \cup lost'
      PROVE  /\ PromptOf(skills'[i]) = confirmed'[i]
             /\ skillsFile' # Torn => PromptOf(skillsFile'[i]) = confirmed'[i]
  <2>1. i \notin Dropped /\ i \notin unanswered \cup lost
    BY <1>1, <1>7
  <2>2. skillsFile # Torn /\ skills'[i] = skillsFile[i]
    BY <1>2, <1>3, <2>1
  <2> QED BY <1>1, <2>1, <2>2 DEF SkillsInv, KeptAsConfirmed
<1>8. KeptAsConfirmed'
  BY <1>1, <1>7 DEF SkillsInv, KeptAsConfirmed, PromptOf
<1> QED BY <1>5, <1>6, <1>8 DEF SkillsInv

LEMMA SkillsSteps == SkillsInv /\ [SkillsNext]_personas => SkillsInv'
<1> SUFFICES ASSUME SkillsInv, [SkillsNext]_personas PROVE SkillsInv'
  OBVIOUS
<1>1. CASE LoadSkills
  BY <1>1, LoadedSkills
<1>2. CASE RestartSkills
  BY <1>2 DEF RestartSkills, SkillsInv, SkillsOK, NeverHidden, KeptAsConfirmed, PromptOf, Custom, Item
<1>3. ASSUME NEW id \in SkillIds, DeleteSkill(id) PROVE SkillsInv'
  <2>1. id \notin BuiltinSkills
    BY <1>3 DEF DeleteSkill, SkillsInv, NeverHidden
  <2> QED BY <1>3, <2>1, SkillSaved DEF DeleteSkill
<1>4. ASSUME NEW id \in SkillIds, NEW prompt \in Prompts, CreateSkill(id, prompt) PROVE SkillsInv'
  <2>1. id \notin BuiltinSkills
    BY <1>4 DEF CreateSkill, Exists
  <2> QED BY <1>4, <2>1, SkillSaved DEF CreateSkill
<1>5. ASSUME NEW id \in SkillIds, NEW prompt \in Prompts \cup {Nulled}, UpdateSkill(id, prompt)
      PROVE  SkillsInv'
  <2>1. id \notin BuiltinSkills
    BY <1>5 DEF UpdateSkill, SkillsInv, NeverHidden
  <2> QED BY <1>5, <2>1, SkillSaved DEF UpdateSkill
<1>6. ASSUME NEW id \in SkillIds, NEW to \in Prompts \cup {Nulled, NoSkill}, Crash(id, to)
      PROVE  SkillsInv'
  <2>1. /\ skillsFile' = Torn /\ skills' = Unloaded /\ unanswered' = unanswered \cup {id}
        /\ confirmed' = confirmed /\ lost' = lost /\ saves' \in 0..MaxSkillChanges
    BY <1>6, SkillsAssumption DEF Crash, SkillsInv, SkillsOK
  <2>2. SkillsOK'
    BY <2>1 DEF SkillsInv, SkillsOK
  <2>3. NeverHidden' /\ KeptAsConfirmed'
    BY <2>1 DEF SkillsInv, NeverHidden, KeptAsConfirmed
  <2> QED BY <2>2, <2>3 DEF SkillsInv
<1>7. CASE UNCHANGED personas
  BY <1>7 DEF personas, SkillsInv, SkillsOK, NeverHidden, KeptAsConfirmed, PromptOf
<1> QED BY <1>1, <1>2, <1>3, <1>4, <1>5, <1>6, <1>7 DEF SkillsNext

\* The inductive invariant of skills_service.py, for any ids and prompts.
THEOREM SkillsInvariance == SkillsSpec => []SkillsInv
BY SkillsInitially, SkillsSteps, PTL DEF SkillsSpec

\* Every reachable state has the types of SkillsOK: what fails, what is cut
\* off and what a load drops are of the ids (skills_service.py).
THEOREM SkillTypes == SkillsSpec => []SkillsOK
<1>1. SkillsInv => SkillsOK
  BY DEF SkillsInv
<1> QED BY <1>1, SkillsInvariance, PTL

\* A custom skill stays as its last caller was told (skills_service.py), in
\* memory and in a file that can be read, until a load drops it: with a torn
\* file, with a null of its own, or behind an item that has one.
THEOREM SkillsAreKept == SkillsSpec => []KeptAsConfirmed
<1>1. SkillsInv => KeptAsConfirmed
  BY DEF SkillsInv
<1> QED BY <1>1, SkillsInvariance, PTL

\* No sequence of requests, failed saves and restarts lets a custom skill hide
\* a built-in one (get_skill looks among the custom ones first).
THEOREM BuiltinsStay == SkillsSpec => []NeverHidden
<1>1. SkillsInv => NeverHidden
  BY DEF SkillsInv
<1> QED BY <1>1, SkillsInvariance, PTL

-----------------------------------------------------------------------------
(***************************************************************************)
(* The LLM settings.  Memory and file are changed by the same overlay, one *)
(* of what is in use, the other of what is stored: the proof is that an    *)
(* overlay of an overlay is one.                                           *)
(***************************************************************************)
Typed(f) == f \in Contents /\ \A s \in Settings : f[s] \in ValuesOf(s) \cup {NotSet}
Whole(f) == f \in Contents /\ \A s \in Settings : f[s] \in ValuesOf(s)

LlmInv ==
  /\ LlmOK
  /\ Whole(settings)
  /\ configFile = Unreadable \/ Typed(configFile)
  /\ SettingsInForce

\* What is given on top of what was given before is given on top of the rest.
LEMMA OverOver ==
  ASSUME NEW base, NEW stored, NEW given
  PROVE  Over(Over(base, stored), given) = Over(base, Over(stored, given))
BY DEF Over

\* An overlay has a value wherever one of its two has one, of the setting's kind.
LEMMA OverTyped ==
  ASSUME NEW base, NEW given, Typed(given), Typed(base)
  PROVE  /\ Typed(Over(base, given))
         /\ Whole(base) => Whole(Over(base, given))
BY DEF Over, Typed, Whole, Contents

LEMMA ValuesKnown ==
  \A s \in Settings :
    ValuesOf(s) # {} /\ ValuesOf(s) \subseteq Providers \cup {"", Compat} \cup Urls \cup FieldValues
BY LlmAssumption DEF ValuesOf

LEMMA DefaultWhole == Whole(Default) /\ Typed(Default) /\ Typed(Empty)
<1>1. \A s \in Settings : (CHOOSE v \in ValuesOf(s) : TRUE) \in ValuesOf(s)
  BY ValuesKnown
<1>2. "" \in ValuesOf(Mode) /\ "" \in ValuesOf(Token)
  BY DEF ValuesOf, Mode, Token, Provider
<1>3. \A s \in Settings : Default[s] \in ValuesOf(s)
  BY <1>1, <1>2 DEF Default
<1> QED BY <1>3, ValuesKnown DEF Default, Empty, Whole, Typed, Contents

LEMMA StoredTyped == ASSUME LlmInv PROVE Typed(Stored)
BY DefaultWhole DEF LlmInv, Stored

\* An update gives a value of its kind, or none, for every setting.
LEMMA GivenTyped ==
  ASSUME NEW p \in Providers, NEW given \in Given(p)
  PROVE  Typed(given)
<1>1. PICK v \in [mode : {"", Compat, NotSet}, token : {"", NotSet} \cup FieldValues,
                  url : Urls \cup {NotSet}, model : FieldValues \cup {NotSet},
                  key : FieldValues \cup {NotSet}] :
        given = [Empty EXCEPT ![Provider] = p, ![Mode] = v.mode, ![Token] = v.token,
                              ![<<p, "model">>] = v.model, ![<<p, "url">>] = v.url,
                              ![<<p, "key">>] = v.key]
  BY DEF Given
<1> DEFINE g1 == [Empty EXCEPT ![Provider] = p]
           g2 == [g1 EXCEPT ![Mode] = v.mode]
           g3 == [g2 EXCEPT ![Token] = v.token]
           g4 == [g3 EXCEPT ![<<p, "model">>] = v.model]
           g5 == [g4 EXCEPT ![<<p, "url">>] = v.url]
           g6 == [g5 EXCEPT ![<<p, "key">>] = v.key]
<1>2. /\ Provider \in Settings /\ ValuesOf(Provider) = Providers
      /\ Mode \in Settings /\ ValuesOf(Mode) = {"", Compat}
      /\ Token \in Settings /\ ValuesOf(Token) = {""} \cup FieldValues
  BY DEF Settings, ValuesOf, Provider, Mode, Token
<1>3. ASSUME NEW f \in Fields
      PROVE  /\ <<p, f>> \in Settings
             /\ ValuesOf(<<p, f>>) = IF f = "url" THEN Urls ELSE FieldValues
  BY <1>3 DEF Settings, ValuesOf, Provider, Mode, Token, Fields
<1>4. ASSUME NEW f, NEW s \in Settings, NEW x \in ValuesOf(s) \cup {NotSet}, Typed(f)
      PROVE  Typed([f EXCEPT ![s] = x])
  BY <1>4, ValuesKnown DEF Typed, Contents
<1>5. Typed(g1)
  BY <1>2, <1>4, DefaultWhole
<1>6. Typed(g2)
  BY <1>2, <1>4, <1>5
<1>7. Typed(g3)
  BY <1>2, <1>4, <1>6
<1>8. Typed(g4)
  BY <1>3, <1>4, <1>7 DEF Fields
<1>9. Typed(g5)
  BY <1>3, <1>4, <1>8 DEF Fields
<1>10. Typed(g6)
  BY <1>3, <1>4, <1>9 DEF Fields
<1> QED BY <1>1, <1>10

LEMMA LlmInitially == LlmInit => LlmInv
<1> SUFFICES ASSUME LlmInit PROVE LlmInv
  OBVIOUS
<1>1. /\ settings = Default /\ configFile = Empty /\ client = NoClient
      /\ unsafe = {} /\ updates = 0
      /\ running \in BOOLEAN /\ erred \in BOOLEAN /\ unsaved \in BOOLEAN
  BY DEF LlmInit
<1>2. Over(Default, Empty) = Default
  BY DEF Over, Empty, Default
<1>3. Stored = Empty
  BY <1>1 DEF Stored
<1>4. Whole(settings) /\ Typed(configFile)
  BY <1>1, DefaultWhole
<1>5. LlmOK
  BY <1>1, <1>4, LlmAssumption DEF LlmOK, Whole, Typed
<1>6. SettingsInForce
  BY <1>1, <1>2, <1>3 DEF SettingsInForce
<1> QED BY <1>4, <1>5, <1>6 DEF LlmInv

\* What ended with an error is in force in part or whole, and counts as such;
\* what was accepted is given to memory and file alike.
LEMMA LlmUpdated ==
  ASSUME LlmInv, NEW p \in Providers, UpdateConfig(p)
  PROVE  LlmInv'
<1>1. PICK given \in Given(p) : UpdateRefused(p, given) \/ DirectoryFails(p, given) \/ Update(p, given)
  BY DEF UpdateConfig
<1> DEFINE first == [given EXCEPT ![<<p, "url">>] = NotSet, ![<<p, "key">>] = NotSet]
<1>2. Typed(given) /\ Typed(first)
  BY GivenTyped DEF Typed, Contents
<1>3. /\ unsafe' = unsafe /\ running' = running /\ running /\ updates' \in 0..MaxUpdates
  BY LlmAssumption DEF UpdateConfig, LlmInv, LlmOK
<1>4. CASE /\ settings' \in {Over(settings, first), Over(settings, given)}
           /\ erred' = TRUE /\ unsaved' = TRUE /\ configFile' = configFile /\ client' = client
  <2>1. Whole(settings')
    <3>1. Whole(settings) /\ Typed(settings)
      BY DEF LlmInv, Whole, Typed
    <3> QED BY <1>2, <1>4, <3>1, OverTyped
  <2>2. LlmOK'
    BY <1>3, <1>4, <2>1 DEF LlmInv, LlmOK, Whole
  <2>3. SettingsInForce'
    BY <1>4 DEF SettingsInForce
  <2> QED BY <1>4, <2>1, <2>2, <2>3 DEF LlmInv, Typed
<1>5. CASE Update(p, given)
  <2>1. /\ settings' = Over(settings, given) /\ client' = NoClient /\ erred' = FALSE
        /\ \/ configFile' = Saved(given) /\ unsaved' = unsaved
           \/ configFile' \in {configFile, Unreadable} /\ unsaved' = TRUE
    BY <1>5 DEF Update
  <2>2. Whole(settings')
    BY <1>2, <2>1, OverTyped DEF LlmInv, Whole, Typed
  <2>3. Typed(Saved(given))
    BY <1>2, StoredTyped, OverTyped DEF Saved
  <2>4. configFile' = Unreadable \/ Typed(configFile')
    BY <2>1, <2>3 DEF LlmInv
  <2>5. unsaved' \in BOOLEAN /\ erred' \in BOOLEAN
    BY <2>1 DEF LlmInv, LlmOK
  <2>6. LlmOK'
    BY <1>3, <2>2, <2>4, <2>5 DEF LlmInv, LlmOK, Whole, Typed
  <2>7. ASSUME ~unsaved' PROVE settings' = Over(Default, Stored')
    <3>1. configFile' = Saved(given) /\ ~unsaved
      BY <2>1, <2>7
    <3>2. Stored' = Over(Stored, given)
      BY <2>3, <3>1, LlmAssumption DEF Stored, Saved, Typed
    <3>3. settings = Over(Default, Stored)
      BY <1>3, <3>1 DEF LlmInv, SettingsInForce
    <3> QED BY <2>1, <3>2, <3>3, OverOver
  <2>8. SettingsInForce'
    BY <2>1, <2>7 DEF SettingsInForce
  <2> QED BY <2>2, <2>4, <2>6, <2>8 DEF LlmInv, Typed
<1> QED BY <1>1, <1>4, <1>5 DEF UpdateRefused, DirectoryFails

\* The start reads what was stored, so it has what was in force if every
\* update was.
LEMMA LlmStarted == LlmInv /\ StartProcess => LlmInv'
<1> SUFFICES ASSUME LlmInv, StartProcess PROVE LlmInv'
  OBVIOUS
<1>1. /\ settings' = Over(Default, Stored) /\ client' = NoClient
      /\ configFile' = configFile /\ unsafe' = unsafe /\ updates' = updates
      /\ running' \in BOOLEAN /\ erred' \in BOOLEAN /\ unsaved' \in BOOLEAN
  BY DEF StartProcess
<1>2. Whole(settings')
  BY <1>1, StoredTyped, DefaultWhole, OverTyped
<1>3. LlmOK'
  BY <1>1, <1>2 DEF LlmInv, LlmOK, Whole
<1>4. SettingsInForce'
  BY <1>1 DEF SettingsInForce, Stored
<1> QED BY <1>1, <1>2, <1>3, <1>4 DEF LlmInv

LEMMA LlmSteps == LlmInv /\ [LlmNext]_llm => LlmInv'
<1> SUFFICES ASSUME LlmInv, [LlmNext]_llm PROVE LlmInv'
  OBVIOUS
<1>1. CASE StartProcess
  BY <1>1, LlmStarted
<1>2. CASE StopProcess
  BY <1>2 DEF StopProcess, LlmInv, LlmOK, SettingsInForce, Whole, Typed
<1>3. CASE GetLlm
  <2>1. Chosen' = Chosen /\ Stored' = Stored
    BY <1>3 DEF GetLlm, Chosen, Used, SecretOf, Stored
  <2> QED BY <1>3, <2>1 DEF GetLlm, LlmInv, LlmOK, SettingsInForce
<1>4. CASE Resolve
  <2>1. Chosen' = Chosen /\ Stored' = Stored
    BY <1>4 DEF Resolve, Chosen, Used, SecretOf, Stored
  <2> QED BY <1>4, <2>1 DEF Resolve, LlmInv, LlmOK, SettingsInForce
<1>5. ASSUME NEW p \in Providers, UpdateConfig(p) PROVE LlmInv'
  BY <1>5, LlmUpdated
<1>6. CASE UNCHANGED llm
  BY <1>6 DEF llm, LlmInv, LlmOK, SettingsInForce, Chosen, Used, SecretOf, Stored
<1> QED BY <1>1, <1>2, <1>3, <1>4, <1>5, <1>6 DEF LlmNext

\* The settings, the file and the environment keep the types of LlmOK.
THEOREM LlmInvariance == LlmSpec => []LlmInv
BY LlmInitially, LlmSteps, PTL DEF LlmSpec

\* An assessment talks to the model that the settings name, and a restart
\* brings the same settings back (llm_config_store.py, llm/base.py), for any
\* providers, values and addresses, unless an update ended with an error or, as to
\* the restart, was not written to the file.
THEOREM SettingsStayInForce == LlmSpec => []SettingsInForce
<1>1. LlmInv => SettingsInForce
  BY DEF LlmInv
<1> QED BY <1>1, LlmInvariance, PTL
=============================================================================
