--------------------------- MODULE TaskLifecycle ---------------------------
(***************************************************************************)
(* What an assessment task promises to the people who use it, without      *)
(* tables, coroutines, restarts or retries.                                *)
(*                                                                         *)
(* stage[t] is where the task stands: nowhere yet, open (accepted, and     *)
(* nobody has an outcome), draft (a report that waits for a decision) or   *)
(* at one of its ends.  inputs[t] and report[t] say what is kept of it.    *)
(***************************************************************************)
CONSTANTS Tasks

VARIABLES
  stage, inputs, report,
  mishap   \* whether the store ever failed to save a task it can save

taskVars == <<stage, inputs, report>>
lifecycleVars == <<stage, inputs, report, mishap>>

Stages == {"none", "open", "draft", "approved", "rejected", "completed", "failed", "cancelled"}

Init ==
  /\ stage = [t \in Tasks |-> "none"]
  /\ inputs = [t \in Tasks |-> FALSE]
  /\ report = [t \in Tasks |-> FALSE]
  /\ mishap = FALSE

Moves(t, from, to) ==
  /\ stage[t] = from
  /\ stage' = [stage EXCEPT ![t] = to]

\* The task and the inputs to execute it are accepted together
Accept(t) ==
  /\ Moves(t, "none", "open")
  /\ inputs' = [inputs EXCEPT ![t] = TRUE]
  /\ UNCHANGED report

\* The report replaces the inputs, in one step
ReportReplacesInputs(t) ==
  /\ inputs' = [inputs EXCEPT ![t] = FALSE]
  /\ report' = [report EXCEPT ![t] = TRUE]

Deliver(t) ==
  /\ Moves(t, "open", "draft") \/ Moves(t, "open", "completed")
  /\ ReportReplacesInputs(t)

\* The execution ends without a report, or the task is withdrawn
GiveUp(t) ==
  /\ Moves(t, "open", "failed") \/ Moves(t, "open", "cancelled")
  /\ UNCHANGED <<inputs, report>>

\* Only a draft is decided upon, once
Decide(t) ==
  /\ Moves(t, "draft", "approved") \/ Moves(t, "draft", "rejected")
  /\ UNCHANGED <<inputs, report>>

\* After a mishap a task that nobody decided about may fail with its report
Break(t) ==
  /\ mishap'
  /\ \E from \in {"open", "draft", "completed"} : Moves(t, from, "failed")
  /\ ReportReplacesInputs(t)

Next ==
  /\ \/ \E t \in Tasks : Accept(t) \/ Deliver(t) \/ GiveUp(t) \/ Decide(t) \/ Break(t)
     \/ UNCHANGED taskVars
  /\ mishap => mishap'

Spec == Init /\ [][Next]_lifecycleVars
=============================================================================
