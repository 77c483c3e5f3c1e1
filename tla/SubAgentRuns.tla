---------------------------- MODULE SubAgentRuns ----------------------------
(***************************************************************************)
(* The runs of a project's sub-agents, one per gate and agent:             *)
(* app/api/governance/sub_agents.py and models/governance/                 *)
(* sub_agent_run.py.  A handler has no await between loading a run and its *)
(* commit, so with one process it is one step.                             *)
(***************************************************************************)
EXTENDS Naturals, Sequences

CONSTANTS
  RunKeys,       \* gate and sub-agent key of a run
  Users,         \* of the project's tenant
  RoleOf,        \* of a user; a superuser has every right that "admin" has
  NoRun, NoUser,
  MaxEvents      \* bound: rows of the audit trail

VARIABLES
  runs,          \* rows of sub_agent_runs: of a key, a run or NoRun
  trail          \* the audit rows about runs, oldest first

subAgents == <<runs, trail>>

Status == {"empty", "draft", "in_review", "changes_requested", "approved", "rejected", "archived"}
\* Variant: a draft may be approved at once
TransitionsAtOnce ==
  { <<"empty", "draft">>, <<"draft", "in_review">>, <<"draft", "approved">>,
    <<"in_review", "changes_requested">>, <<"in_review", "approved">> }

ValidTransitions ==
  { <<"empty", "draft">>, <<"draft", "draft">>, <<"draft", "in_review">>,
    <<"in_review", "changes_requested">>, <<"in_review", "approved">>, <<"in_review", "rejected">>,
    <<"changes_requested", "draft">>, <<"approved", "archived">>, <<"rejected", "archived">>,
    <<"draft", "archived">>, <<"empty", "archived">> }
CommentRequired == {"changes_requested", "rejected"}

\* No role is asked of a change to a status whose set is empty.
RolesFor(status) ==
  CASE status \in {"in_review", "changes_requested"} ->
         {"security_reviewer", "security_approver", "admin"}
    [] status \in {"approved", "rejected"} -> {"security_approver", "admin"}
    [] status = "draft" -> {"client", "admin"}
    [] status = "archived" -> {"admin"}
    [] OTHER -> {}

Run == [status : Status, actor : Users \cup {NoUser}, comment : BOOLEAN, output : BOOLEAN]
Event == [run : RunKeys, by : Users, action : {"status.update", "output.save"}, to : Status \cup {"-"}]

ASSUME NoRunAssumption == NoRun \notin Run

RunsOK ==
  /\ runs \in [RunKeys -> Run \cup {NoRun}]
  /\ trail \in Seq(Event)

RunsInit ==
  /\ runs = [k \in RunKeys |-> NoRun]
  /\ trail = <<>>

-----------------------------------------------------------------------------
\* The run is created, and committed, by whatever asks for it first.
Started(k) ==
  IF runs[k] # NoRun THEN runs[k]
  ELSE [status |-> "empty", actor |-> NoUser, comment |-> FALSE, output |-> FALSE]

Get(k) ==
  /\ runs[k] = NoRun
  /\ runs' = [runs EXCEPT ![k] = Started(k)]
  /\ UNCHANGED trail

MayEnter(user, k, status, comment) ==
  /\ <<Started(k).status, status>> \in ValidTransitions
  /\ status \in CommentRequired => comment
  /\ RolesFor(status) # {} => RoleOf[user] \in RolesFor(status)

UpdateStatus(user, k, status, comment) ==
  /\ MayEnter(user, k, status, comment)
  /\ Len(trail) < MaxEvents
  /\ runs' = [runs EXCEPT ![k] =
       [Started(k) EXCEPT !.status = status, !.actor = user, !.comment = comment]]
  /\ trail' = Append(trail, [run |-> k, by |-> user, action |-> "status.update", to |-> status])

\* A refused change has created the run all the same.
RefuseStatus(user, k, status, comment) ==
  /\ ~MayEnter(user, k, status, comment)
  /\ Get(k)

\* Variant: every output makes a draft
SaveAlwaysDraft(user, k) ==
  /\ RoleOf[user] \in {"security_reviewer", "admin"}
  /\ Len(trail) < MaxEvents
  /\ runs' = [runs EXCEPT ![k] = [Started(k) EXCEPT !.output = TRUE, !.status = "draft"]]
  /\ trail' = Append(trail, [run |-> k, by |-> user, action |-> "output.save", to |-> "-"])

\* Output may be saved whatever the status; the first output makes a draft.
SaveOutput(user, k) ==
  LET run == Started(k)
  IN /\ RoleOf[user] \in {"security_reviewer", "admin"}
     /\ Len(trail) < MaxEvents
     /\ runs' = [runs EXCEPT ![k] =
          [run EXCEPT !.output = TRUE, !.status = IF @ = "empty" THEN "draft" ELSE @]]
     /\ trail' = Append(trail, [run |-> k, by |-> user, action |-> "output.save", to |-> "-"])

RunsNext ==
  \E k \in RunKeys :
    \/ Get(k)
    \/ \E user \in Users :
         \/ SaveOutput(user, k)
         \/ \E status \in Status, comment \in BOOLEAN :
              UpdateStatus(user, k, status, comment) \/ RefuseStatus(user, k, status, comment)

RunsSpec == RunsInit /\ [][RunsNext]_subAgents

-----------------------------------------------------------------------------
\* The audit trail alone tells the status of every run: it is what the last
\* change of status in the trail says, or draft if there is none but an output
\* was saved.
TrailTellsStatus ==
  \A k \in RunKeys :
    LET about  == { i \in DOMAIN trail : trail[i].run = k }
        moves  == { i \in about : trail[i].action = "status.update" }
        status == Started(k).status
    IN /\ \A i \in moves : (\A j \in moves : j <= i) => status = trail[i].to
       /\ moves = {} => status = IF about = {} THEN "empty" ELSE "draft"

\* A run that is approved or rejected was decided by an approver or an admin,
\* after somebody who is no client put it in review; a rejection says why.
DecisionAccountable ==
  \A k \in RunKeys : runs[k] # NoRun /\ runs[k].status \in {"approved", "rejected"} =>
    /\ RoleOf[runs[k].actor] \in {"security_approver", "admin"}
    /\ runs[k].status = "rejected" => runs[k].comment
    /\ \E i \in 1..Len(trail) : /\ trail[i].run = k /\ trail[i].to = "in_review"
                                /\ RoleOf[trail[i].by] # "client"
=============================================================================
