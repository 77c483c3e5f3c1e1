-------------------------- MODULE AssessmentTasks --------------------------
(***************************************************************************)
(* The durable assessment tasks of app/services/assessment_service.py and  *)
(* the store behind them, app/services/assessment_store.py.                *)
(*                                                                         *)
(* One process serves requests.  Every task has                            *)
(*   - a row in the store, db[t];                                          *)
(*   - at most one entry of the process's table self._tasks, mem[t];       *)
(*   - at most one coroutine, AssessmentService._run, coro[t].             *)
(* The coroutine holds a reference to a dict.  It is usually the dict of   *)
(* the table, but an idempotent resubmission replaces the table's entry by *)
(* a copy read from the store: mine[t] is then the dict the coroutine      *)
(* still writes to, and NoTask as long as both are the same object.        *)
(*                                                                         *)
(* A handler has no await between its first read and its last write, so it *)
(* is one step.  Handlers interleave with the coroutine at its only await, *)
(* the call of the runner, and with the process stopping and starting.     *)
(***************************************************************************)
EXTENDS Naturals, FiniteSets

CONSTANTS
  Tasks,        \* task identifiers (uuid4, never reused)
  Tenants,      \* tenant identifiers, NoTenant not among them
  NoTenant,     \* the task was never submitted
  Keys,         \* idempotency keys, NoKey not among them
  NoKey,        \* the request carries no idempotency key
  Users,        \* user identifiers, NoUser not among them
  NoUser,       \* submission without a user (agent gateway)
  Comments,     \* comments users write
  RetryLimit,   \* task_contract.retry_limit
  NativeUuid,   \* TRUE: the backend binds a uuid given as text (PostgreSQL);
                \* FALSE: it does not, and a save of a reloaded task raises (SQLite)
  CancelExposed,\* whether some client calls cancel (no route of app/api does)
  MaxStops,     \* bound: stops of the process in a behaviour
  MaxFaults     \* bound: saves that raise for a reason of the database's own

ASSUME BoundsAssumption == RetryLimit \in Nat /\ MaxStops \in Nat /\ MaxFaults \in Nat
ASSUME SwitchAssumption == NativeUuid \in BOOLEAN /\ CancelExposed \in BOOLEAN
ASSUME SentinelAssumption == NoKey \notin Keys /\ NoUser \notin Users /\ NoTenant \notin Tenants

VARIABLES
  db,           \* rows of assessment_tasks
  mem,          \* AssessmentService._tasks
  mine,         \* the dict of the coroutine, when it is not the table's
  coro,         \* state of the asyncio.Task in AssessmentService._active
  cancelling,   \* Task.cancel() was called and not yet delivered
  phase,        \* of the process: "up", "draining" (loop teardown), "down"
  sub,          \* the immutable fields of a submission
  acked,        \* history: comments whose request was answered with success
  calls,        \* history: invocations of the runner
  stops,        \* history: stops of the process
  faults        \* history: saves that raised for a reason of the database's own

vars == <<db, mem, mine, coro, cancelling, phase, sub, acked, calls, stops, faults>>

Incomplete == {"pending", "running", "interrupted"}
Decided == {"approved", "rejected", "failed", "cancelled"}
Reviewable == {"review_pending", "escalated"}
Terminal == Reviewable \cup Decided \cup {"completed", "interrupted"}
Statuses == {"absent"} \cup Incomplete \cup Terminal

\* typed is FALSE in a dict built from the JSON payload of a row: its task_id
\* and created_at are then text.
TaskRecord ==
  [status: Statuses, comments: SUBSET Comments, report: BOOLEAN, docs: BOOLEAN,
   attempt: Nat, tracking: BOOLEAN, typed: BOOLEAN]

NoTask ==
  [status |-> "absent", comments |-> {}, report |-> FALSE, docs |-> FALSE,
   attempt |-> 0, tracking |-> FALSE, typed |-> FALSE]

NewTask == [NoTask EXCEPT !.status = "pending", !.docs = TRUE, !.typed = TRUE]

Submission ==
  [tenant: Tenants \cup {NoTenant}, key: Keys \cup {NoKey}, by: Users \cup {NoUser},
   collaborative: BOOLEAN, resumable: BOOLEAN]

NoSubmission ==
  [tenant |-> NoTenant, key |-> NoKey, by |-> NoUser,
   collaborative |-> FALSE, resumable |-> FALSE]

TypeOK ==
  /\ db \in [Tasks -> TaskRecord]
  /\ mem \in [Tasks -> TaskRecord]
  /\ mine \in [Tasks -> TaskRecord]
  /\ coro \in [Tasks -> {"none", "scheduled", "awaiting", "exiting"}]
  /\ cancelling \in [Tasks -> BOOLEAN]
  /\ phase \in {"up", "draining", "down"}
  /\ sub \in [Tasks -> Submission]
  /\ acked \in [Tasks -> SUBSET Comments]
  /\ calls \in [Tasks -> Nat]
  /\ stops \in Nat
  /\ faults \in Nat

Init ==
  /\ db = [t \in Tasks |-> NoTask]
  /\ mem = [t \in Tasks |-> NoTask]
  /\ mine = [t \in Tasks |-> NoTask]
  /\ coro = [t \in Tasks |-> "none"]
  /\ cancelling = [t \in Tasks |-> FALSE]
  /\ phase = "up"
  /\ sub = [t \in Tasks |-> NoSubmission]
  /\ acked = [t \in Tasks |-> {}]
  /\ calls = [t \in Tasks |-> 0]
  /\ stops = 0
  /\ faults = 0

(***************************************************************************)
(* Saving.  AssessmentService._save first enters the dict into the table,  *)
(* then writes the row; jsonable_encoder turns the uuid and the times into *)
(* text.  When the store raises, the change stays in the table only.       *)
(***************************************************************************)
Json(r) == [r EXCEPT !.typed = FALSE]

Storable(r) == r.typed \/ NativeUuid

\* What a save that raises costs of the fault budget: nothing if the backend
\* refuses the dict anyway.
FaultCost(r) == IF Storable(r) THEN 1 ELSE 0

Spend(n) == faults + n <= MaxFaults /\ faults' = faults + n

Enter(t, r) == mem' = [mem EXCEPT ![t] = r]

\* Variant: a save that leaves the table's entry as it is
SaveRowOnly(t, r) ==
  /\ Storable(r)
  /\ mem' = IF mine[t] = NoTask THEN [mem EXCEPT ![t] = r] ELSE mem
  /\ db' = [db EXCEPT ![t] = Json(r)]
  /\ UNCHANGED faults

SaveSucceeds(t, r) ==
  /\ Storable(r)
  /\ Enter(t, r)
  /\ db' = [db EXCEPT ![t] = Json(r)]
  /\ UNCHANGED faults

SaveRaises(t, r) ==
  /\ Enter(t, r)
  /\ Spend(FaultCost(r))
  /\ UNCHANGED db

-----------------------------------------------------------------------------
(***************************************************************************)
(* Requests.  A client addresses a task by an identifier it was given, so  *)
(* only tasks with a row are addressed: submit answers after the save.     *)
(***************************************************************************)
Serving == phase = "up"

Known(t) == db[t] # NoTask

\* _record: the table's dict, or a copy of the row
Record(t) == IF mem[t] = NoTask THEN db[t] ELSE mem[t]

\* Variant: looks for the key in the process's table
SameRequestInTable(s) ==
  {t \in Tasks : mem[t] # NoTask /\ sub[t].tenant = s.tenant /\ sub[t].key = s.key}

\* find_idempotent: the rows with this tenant and key
SameRequest(s) ==
  {t \in Tasks : Known(t) /\ sub[t].tenant = s.tenant /\ sub[t].key = s.key}

\* submit, no row with the idempotency key; the coroutine is created only
\* if the save returns
Submit(t, s) ==
  /\ Serving
  /\ sub[t] = NoSubmission
  /\ s.key # NoKey => SameRequest(s) = {}
  /\ sub' = [sub EXCEPT ![t] = s]
  /\ \/ SaveSucceeds(t, NewTask) /\ coro' = [coro EXCEPT ![t] = "scheduled"]
     \/ SaveRaises(t, NewTask) /\ UNCHANGED coro
  /\ UNCHANGED <<mine, cancelling, phase, acked, calls, stops>>

\* submit, a row with the idempotency key exists: its copy becomes the
\* table's entry, whatever dict the coroutine holds
SubmitAgain(t) ==
  /\ Serving
  /\ Known(t) /\ sub[t].key # NoKey
  /\ Enter(t, db[t])
  /\ mine' = IF coro[t] = "awaiting" /\ mine[t] = NoTask
             THEN [mine EXCEPT ![t] = mem[t]] ELSE mine
  /\ UNCHANGED <<db, coro, cancelling, phase, sub, acked, calls, stops, faults>>

\* get, list, activity and the polls of wait_for_terminal
Read(t) ==
  /\ Serving
  /\ Known(t) /\ mem[t] = NoTask
  /\ Enter(t, db[t])
  /\ UNCHANGED <<db, mine, coro, cancelling, phase, sub, acked, calls, stops, faults>>

\* A handler that mutates the dict of _record, saves it and answers; said is
\* what the answer acknowledges
Write(t, r, said) ==
  /\ \/ SaveSucceeds(t, r) /\ acked' = [acked EXCEPT ![t] = @ \cup said]
     \/ SaveRaises(t, r) /\ UNCHANGED acked
  /\ UNCHANGED <<mine, coro, cancelling, phase, sub, calls, stops>>

AddComment(t, c) ==
  /\ Serving /\ Known(t)
  /\ Write(t, [Record(t) EXCEPT !.comments = @ \cup {c}], {c})

\* status_by_action
StatusOf == [approve |-> "approved", reject |-> "rejected", escalate |-> "escalated"]

\* Variant: the status of the task is not asked
ReviewAnyTime(t, action, actor, said) ==
  LET r == Record(t) IN
  /\ Serving /\ Known(t)
  /\ action \in {"approve", "reject"} => actor # sub[t].by
  /\ Write(t, [r EXCEPT !.status = IF action = "comment" THEN @ ELSE StatusOf[action],
                        !.comments = @ \cup said], said)

\* review: said is {} or one comment
Review(t, action, actor, said) ==
  LET r == Record(t) IN
  /\ Serving /\ Known(t)
  /\ r.status \in Reviewable
  /\ action \in {"approve", "reject"} => actor # sub[t].by
  /\ Write(t, [r EXCEPT !.status = IF action = "comment" THEN @ ELSE StatusOf[action],
                        !.comments = @ \cup said], said)

UpdateRemediation(t) ==
  /\ Serving /\ Known(t)
  /\ Record(t).report
  /\ Write(t, [Record(t) EXCEPT !.tracking = TRUE], {})

\* cancel, no entry in _active
CancelIdle(t) ==
  /\ CancelExposed /\ Serving /\ Known(t)
  /\ Record(t).status \notin Terminal
  /\ coro[t] = "none"
  /\ Write(t, [Record(t) EXCEPT !.status = "cancelled"], {})

\* cancel, an entry in _active: only Task.cancel() is called, which does
\* nothing to a task that is done
CancelActive(t) ==
  /\ CancelExposed /\ Serving /\ Known(t)
  /\ Record(t).status \notin Terminal
  /\ coro[t] \in {"scheduled", "awaiting"}
  /\ cancelling' = [cancelling EXCEPT ![t] = TRUE]
  /\ mem' = [mem EXCEPT ![t] = Record(t)]
  /\ UNCHANGED <<db, mine, coro, phase, sub, acked, calls, stops, faults>>

-----------------------------------------------------------------------------
(***************************************************************************)
(* The coroutine, AssessmentService._run.                                  *)
(***************************************************************************)
Alive == phase \in {"up", "draining"}

\* the dict the coroutine writes to
Held(t) == IF mine[t] = NoTask THEN mem[t] ELSE mine[t]

\* _save enters that dict into the table, so it is the table's again
Rejoin(t) == mine' = [mine EXCEPT ![t] = NoTask]

\* Whatever the runner's await yields, a pending cancellation is consumed:
\* wait_for drops it when the runner has already finished.
Deliver(t) == cancelling' = [cancelling EXCEPT ![t] = FALSE]

\* Variant: every process life starts counting attempts anew
StartAfresh(t) ==
  LET r == [mem[t] EXCEPT !.status = "running", !.attempt = 0] IN
  /\ Alive /\ coro[t] = "scheduled" /\ ~cancelling[t]
  /\ SaveSucceeds(t, r)
  /\ coro' = [coro EXCEPT ![t] = "awaiting"]
  /\ calls' = [calls EXCEPT ![t] = @ + 1]
  /\ UNCHANGED <<mine, cancelling, phase, sub, acked, stops>>

\* Variant: the inputs are dropped as soon as the runner has them
StartDropsInputs(t) ==
  LET r == [mem[t] EXCEPT !.status = "running", !.docs = FALSE] IN
  /\ Alive /\ coro[t] = "scheduled" /\ ~cancelling[t]
  /\ SaveSucceeds(t, r)
  /\ coro' = [coro EXCEPT ![t] = "awaiting"]
  /\ calls' = [calls EXCEPT ![t] = @ + 1]
  /\ UNCHANGED <<mine, cancelling, phase, sub, acked, stops>>

\* The first step: the status becomes running, and the runner is called.
\* The save stands before the try, so an exception ends the coroutine.
Start(t) ==
  LET r == [mem[t] EXCEPT !.status = "running"] IN
  /\ Alive /\ coro[t] = "scheduled" /\ ~cancelling[t]
  /\ \/ /\ SaveSucceeds(t, r)
        /\ coro' = [coro EXCEPT ![t] = "awaiting"]
        /\ calls' = [calls EXCEPT ![t] = @ + 1]
     \/ /\ SaveRaises(t, r)
        /\ coro' = [coro EXCEPT ![t] = "exiting"]
        /\ UNCHANGED calls
  /\ UNCHANGED <<mine, cancelling, phase, sub, acked, stops>>

\* asyncio never runs the body of a task cancelled before its first step
CancelledBeforeStart(t) ==
  /\ Alive /\ coro[t] = "scheduled" /\ cancelling[t]
  /\ coro' = [coro EXCEPT ![t] = "exiting"]
  /\ Deliver(t)
  /\ UNCHANGED <<db, mem, mine, phase, sub, acked, calls, stops, faults>>

Exit(t) == coro' = [coro EXCEPT ![t] = "exiting"]

\* The handler of Exception, entered with the dict r after the rows became
\* rows and spent faults: it saves the status failed, and that may raise too.
FailWith(t, r, rows, spent) ==
  LET f == [r EXCEPT !.status = "failed"] IN
  /\ Enter(t, f)
  /\ \/ Storable(f) /\ db' = [rows EXCEPT ![t] = Json(f)] /\ Spend(spent)
     \/ db' = rows /\ Spend(spent + FaultCost(f))

\* The runner returns a report.  Saving it may raise; then indexing it in the
\* knowledge base may raise, and the save that notes this may raise as well.
RunnerReturns(t) ==
  LET r == [Held(t) EXCEPT
              !.status = IF sub[t].collaborative THEN "review_pending" ELSE "completed",
              !.report = TRUE, !.tracking = FALSE, !.docs = FALSE]
  IN /\ Alive /\ coro[t] = "awaiting"
     /\ \/ SaveSucceeds(t, r)
        \/ FailWith(t, r, db, FaultCost(r))
        \/ Storable(r) /\ FailWith(t, r, [db EXCEPT ![t] = Json(r)], 1)
     /\ Rejoin(t) /\ Exit(t) /\ Deliver(t)
     /\ UNCHANGED <<phase, sub, acked, calls, stops>>

\* TimeoutError or ConnectionError: the attempt is saved, and the runner is
\* called again unless the retry limit is passed.
RunnerTransient(t) ==
  LET r == [Held(t) EXCEPT !.attempt = @ + 1]
      retried == r.attempt <= RetryLimit
  IN /\ Alive /\ coro[t] = "awaiting"
     /\ \/ /\ retried
           /\ SaveSucceeds(t, r)
           /\ calls' = [calls EXCEPT ![t] = @ + 1]
           /\ UNCHANGED coro
        \/ /\ \/ FailWith(t, r, db, FaultCost(r))
              \/ /\ ~retried /\ Storable(r)
                 /\ FailWith(t, r, [db EXCEPT ![t] = Json(r)], 0)
           /\ Exit(t)
           /\ UNCHANGED calls
     /\ Rejoin(t) /\ Deliver(t)
     /\ UNCHANGED <<phase, sub, acked, stops>>

\* Any other exception of the runner
RunnerRaises(t) ==
  /\ Alive /\ coro[t] = "awaiting"
  /\ FailWith(t, Held(t), db, 0)
  /\ Rejoin(t) /\ Exit(t) /\ Deliver(t)
  /\ UNCHANGED <<phase, sub, acked, calls, stops>>

\* CancelledError at the await
RunnerCancelled(t) ==
  LET r == [Held(t) EXCEPT !.status = "cancelled"] IN
  /\ Alive /\ coro[t] = "awaiting" /\ cancelling[t]
  /\ SaveSucceeds(t, r) \/ SaveRaises(t, r)
  /\ Rejoin(t) /\ Exit(t) /\ Deliver(t)
  /\ UNCHANGED <<phase, sub, acked, calls, stops>>

\* The done callback takes the task out of _active
Reaped(t) ==
  /\ Alive /\ coro[t] = "exiting"
  /\ coro' = [coro EXCEPT ![t] = "none"]
  /\ UNCHANGED <<db, mem, mine, cancelling, phase, sub, acked, calls, stops, faults>>

-----------------------------------------------------------------------------
(***************************************************************************)
(* The process.                                                            *)
(***************************************************************************)
\* Everything the process held is gone
Gone ==
  /\ phase' = "down"
  /\ mem' = [t \in Tasks |-> NoTask]
  /\ mine' = [t \in Tasks |-> NoTask]
  /\ coro' = [t \in Tasks |-> "none"]
  /\ cancelling' = [t \in Tasks |-> FALSE]

Crash ==
  /\ Alive /\ stops < MaxStops
  /\ stops' = stops + 1
  /\ Gone
  /\ UNCHANGED <<db, sub, acked, calls, faults>>

\* A crash between the two saves of a transient failure past the retry limit
CrashBetweenSaves(t) ==
  LET r == [Held(t) EXCEPT !.attempt = @ + 1] IN
  /\ Alive /\ stops < MaxStops
  /\ coro[t] = "awaiting" /\ r.attempt > RetryLimit /\ Storable(r)
  /\ db' = [db EXCEPT ![t] = Json(r)]
  /\ stops' = stops + 1
  /\ Gone
  /\ UNCHANGED <<sub, acked, calls, faults>>

\* The server stops: no more requests, and asyncio.run cancels what is left
Shutdown ==
  /\ Serving /\ stops < MaxStops
  /\ stops' = stops + 1
  /\ phase' = "draining"
  /\ cancelling' = [t \in Tasks |-> coro[t] \in {"scheduled", "awaiting"}]
  /\ UNCHANGED <<db, mem, mine, coro, sub, acked, calls, faults>>

Drained ==
  /\ phase = "draining"
  /\ \A t \in Tasks : coro[t] \in {"none", "exiting"}
  /\ Gone
  /\ UNCHANGED <<db, sub, acked, calls, stops, faults>>

\* Variant: whatever still has its inputs is resumed
ResumedByInputs == {t \in Tasks : sub[t].resumable /\ db[t].docs}

\* Variant: a task that was running is not resumed
ResumedIfPending ==
  {t \in Tasks : db[t].status = "pending" /\ sub[t].resumable /\ db[t].docs}

Resumed == {t \in Tasks : db[t].status \in Incomplete /\ sub[t].resumable /\ db[t].docs}

Parked == {t \in Tasks : db[t].status \in Incomplete} \ Resumed

\* lifespan: resume_incomplete runs before the first request is served.  A
\* save that raises makes the start fail, with no effect that the next
\* start would not have.
Startup ==
  LET parked(t) == [db[t] EXCEPT !.status = "interrupted"] IN
  /\ phase = "down"
  /\ \A t \in Parked : Storable(parked(t))
  /\ phase' = "up"
  /\ db' = [t \in Tasks |-> IF t \in Parked THEN parked(t) ELSE db[t]]
  /\ mem' = [t \in Tasks |->
               IF t \in Parked THEN parked(t)
               ELSE IF t \in Resumed THEN db[t] ELSE NoTask]
  /\ coro' = [t \in Tasks |-> IF t \in Resumed THEN "scheduled" ELSE "none"]
  /\ UNCHANGED <<mine, cancelling, sub, acked, calls, stops, faults>>

-----------------------------------------------------------------------------
Request(t) ==
  \/ \E s \in Submission : s.tenant # NoTenant /\ Submit(t, s)
  \/ SubmitAgain(t)
  \/ Read(t)
  \/ \E c \in Comments : AddComment(t, c)
  \/ \E action \in {"approve", "reject", "comment", "escalate"}, actor \in Users :
       \E said \in {{}} \cup {{c} : c \in Comments} : Review(t, action, actor, said)
  \/ UpdateRemediation(t)
  \/ CancelIdle(t)
  \/ CancelActive(t)

\* The outcomes of the runner's await
Outcome(t) ==
  RunnerReturns(t) \/ RunnerTransient(t) \/ RunnerRaises(t) \/ RunnerCancelled(t)

Coroutine(t) == Start(t) \/ CancelledBeforeStart(t) \/ Outcome(t) \/ Reaped(t)

Process == Crash \/ Shutdown \/ Drained \/ Startup

Next ==
  \/ \E t \in Tasks : Request(t) \/ Coroutine(t) \/ CrashBetweenSaves(t)
  \/ Process

Spec == Init /\ [][Next]_vars

\* The event loop runs every ready callback; wait_for ends the await after
\* ASSESSMENT_TASK_TIMEOUT_SECONDS; the operator starts a stopped process.
Fairness ==
  /\ \A t \in Tasks : WF_vars(Coroutine(t))
  /\ WF_vars(Startup)
  /\ WF_vars(Drained)

FairSpec == Spec /\ Fairness

-----------------------------------------------------------------------------
(***************************************************************************)
(* Properties.                                                             *)
(***************************************************************************)
\* What the API shows of a task is what it would show after a restart: the
\* table's dict and the row agree, although handlers, the coroutine and
\* idempotent resubmissions mutate different dicts.  (_save, submit, _run;
\* for a backend that stores every dict, and no failing save.)
Coherent ==
  NativeUuid /\ faults = 0 =>
    \A t \in Tasks : mem[t] # NoTask => Json(mem[t]) = db[t]

\* A tenant's idempotency key names at most one durable task, across
\* restarts and failed submissions (submit, find_idempotent; the column has
\* no unique constraint).
IdempotentOnce ==
  \A t, u \in Tasks :
    /\ Known(t) /\ Known(u)
    /\ sub[t].key # NoKey
    /\ sub[t].key = sub[u].key /\ sub[t].tenant = sub[u].tenant
    => t = u

\* Wherever the process stops, a row holds either the inputs to run the task
\* again or its outcome: the inputs are cleared only in the save that
\* records the report (_run, resume_incomplete).
Sound(r) ==
  /\ r.status \in Incomplete => r.docs
  /\ r.status \in Reviewable \cup {"approved", "rejected", "completed"} => r.report

Recoverable == \A t \in Tasks : Sound(db[t])

\* The runner is called at most retry_limit + 1 times, and once more for each
\* stop of the process: attempts are counted across restarts (_run).
RetryBudget ==
  \A t \in Tasks : calls[t] <= RetryLimit + 1 + stops

\* A recorded decision stands: no interleaving of requests, coroutine,
\* cancellation, restart and failing saves turns a row that says approved,
\* rejected, failed or cancelled into anything else; and one that says
\* completed changes only if a save failed before (review, cancel, _run,
\* resume_incomplete).
DecisionStands ==
  [][\A t \in Tasks :
       \/ db[t].status \in Decided
       \/ db[t].status = "completed" /\ faults' = 0
       => db'[t].status = db[t].status]_vars

\* The rows implement the lifecycle the users see: accepted with its inputs,
\* a report or an end, a decision.  Retries, restarts, resubmissions and
\* escalations are steps nobody sees, and a save that fails, wherever it does,
\* costs a task at most a failure beside its report, before it is decided upon.
\* (All of the service.)
StageOf(status) ==
  CASE status = "absent" -> "none"
    [] status \in Incomplete -> "open"
    [] status \in Reviewable -> "draft"
    [] OTHER -> status

Lifecycle ==
  INSTANCE TaskLifecycle WITH
    stage <- [t \in Tasks |-> StageOf(db[t].status)],
    inputs <- [t \in Tasks |-> db[t].docs],
    report <- [t \in Tasks |-> db[t].report],
    mishap <- faults > 0

ImplementsLifecycle == Lifecycle!Spec

(***************************************************************************)
(* The inductive invariant behind these.                                   *)
(***************************************************************************)
Live(t) == coro[t] \in {"scheduled", "awaiting"}

\* Every copy of a task is sound; only a coroutine at its await can hold a
\* copy of its own; a coroutine lives only while the task is incomplete in
\* every copy; and the table never contradicts a decided row.
CopiesInv(t) ==
  /\ \A r \in {db[t], mem[t], mine[t]} : Sound(r) /\ (r.status = "absent" => r = NoTask)
  /\ ~db[t].typed
  /\ coro[t] # "awaiting" => mine[t] = NoTask
  /\ Live(t) => /\ db[t].status \in Incomplete
                /\ mem[t].status \in Incomplete
                /\ Held(t).status \in Incomplete
  /\ ~Alive => mem[t] = NoTask /\ coro[t] = "none"
  /\ sub[t] = NoSubmission => db[t] = NoTask /\ mem[t] = NoTask /\ coro[t] = "none"
  /\ \/ db[t].status \in Decided
     \/ db[t].status = "completed" /\ faults = 0
     => mem[t] = NoTask \/ mem[t].status = db[t].status

\* Without faults, a copy that can be stored is what is stored; the dict of
\* a coroutine cut off from the table may lack comments only.
StoredInv(t) ==
  faults = 0 =>
    /\ mem[t] # NoTask /\ Storable(mem[t]) => Json(mem[t]) = db[t]
    /\ mine[t] # NoTask /\ Storable(mine[t]) =>
         /\ mine[t].docs = db[t].docs
         /\ mine[t].report = db[t].report

\* Attempts in the row that count against the retry limit
Used(t) == IF db[t].attempt <= RetryLimit THEN db[t].attempt ELSE RetryLimit

\* Each call of the runner is paid for by an attempt in the row, by a stop of
\* the process, or is the last one of this life of the process.
BudgetInv(t) ==
  /\ calls[t] <= Used(t) + stops + (IF phase = "up" /\ coro[t] # "scheduled" THEN 1 ELSE 0)
  /\ sub[t] = NoSubmission => calls[t] = 0
  /\ phase = "draining" /\ coro[t] = "scheduled" => cancelling[t]
  /\ mem[t] # NoTask => mem[t].attempt >= db[t].attempt
  /\ Live(t) => mem[t].attempt = db[t].attempt /\ Held(t).attempt = db[t].attempt

Durable ==
  /\ TypeOK
  /\ IdempotentOnce
  /\ \A t \in Tasks : CopiesInv(t) /\ StoredInv(t) /\ BudgetInv(t)

\* How the lifecycle leads from one copy of a task to another: not at all, ...
SameStage(old, new) ==
  /\ StageOf(new.status) = StageOf(old.status)
  /\ new.docs = old.docs /\ new.report = old.report

Accepted(old, new) ==
  /\ old.status = "absent" /\ new.status \in Incomplete
  /\ new.docs /\ new.report = old.report

Delivered(old, new) ==
  /\ old.status \in Incomplete /\ new.status \in {"review_pending", "completed"}
  /\ ~new.docs /\ new.report

Closed(old, new) ==
  /\ \/ old.status \in Incomplete /\ new.status \in {"failed", "cancelled"}
     \/ old.status \in Reviewable /\ new.status \in {"approved", "rejected"}
  /\ new.docs = old.docs /\ new.report = old.report

Broken(old, new) ==
  /\ old.status \in Incomplete \cup Reviewable \cup {"completed"}
  /\ new.status = "failed" /\ ~new.docs /\ new.report

\* A copy r in the table is at most one step ahead of the row, never by a report
\* that is not stored; it is a failure beside a report only after a save failed,
\* or if it can never be stored.
Ahead(row, r, failures) ==
  \/ SameStage(row, r) \/ Accepted(row, r) \/ Closed(row, r)
  \/ Broken(row, r) /\ (failures > 0 \/ (row.status \in Incomplete /\ ~Storable(r)))

\* Each copy keeps either its inputs or its report.
AheadInv(t) ==
  /\ \A r \in {db[t], mem[t], mine[t]} : r.status = "absent" \/ r.docs # r.report
  /\ mem[t] # NoTask => Ahead(db[t], mem[t], faults)

IInv == Durable /\ \A t \in Tasks : AheadInv(t)

\* A resumable task gets an outcome although the process stops at any point
\* (doc 08, durable assessment lifecycle: "At application startup, resumable
\* pending, running, or interrupted tasks are scheduled again").
Settles ==
  \A t \in Tasks :
    (db[t].status \in Incomplete /\ sub[t].resumable) ~> (db[t].status \notin Incomplete)

\* A comment whose request succeeded is in the row ("The payload preserves
\* [...] review history", doc 08).
CommentsKept == \A t \in Tasks : acked[t] \subseteq db[t].comments
=============================================================================
