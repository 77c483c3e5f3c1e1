----------------------- MODULE AssessmentTasks_proofs -----------------------
(***************************************************************************)
(* Proofs about AssessmentTasks, for every value of its constants.         *)
(***************************************************************************)
EXTENDS AssessmentTasks, TLAPS

\* What the fields of a record of a task can be changed to.
LEMMA RecordUpdates ==
  ASSUME NEW r \in TaskRecord
  PROVE  /\ \A s \in Statuses : [r EXCEPT !.status = s] \in TaskRecord
         /\ \A said \in SUBSET Comments :
              [r EXCEPT !.comments = r.comments \cup said] \in TaskRecord
         /\ Json(r) \in TaskRecord
         /\ [r EXCEPT !.tracking = TRUE] \in TaskRecord
         /\ [r EXCEPT !.attempt = @ + 1] \in TaskRecord
<1>1. \A s \in Statuses : [r EXCEPT !.status = s] \in TaskRecord
  BY DEF TaskRecord
<1>2. \A said \in SUBSET Comments :
              [r EXCEPT !.comments = r.comments \cup said] \in TaskRecord
  <2>1. SUFFICES ASSUME NEW said \in SUBSET Comments
                 PROVE  [r EXCEPT !.comments = r.comments \cup said] \in TaskRecord
    OBVIOUS
  <2>2. r.comments \cup said \in SUBSET Comments
    BY DEF TaskRecord
  <2>3. QED
    BY <2>2 DEF TaskRecord
<1>3. Json(r) \in TaskRecord
  BY DEF TaskRecord, Json
<1>4. [r EXCEPT !.tracking = TRUE] \in TaskRecord
  BY DEF TaskRecord
<1>5. [r EXCEPT !.attempt = @ + 1] \in TaskRecord
  BY DEF TaskRecord
<1>6. QED
  BY <1>1, <1>2, <1>3, <1>4, <1>5

\* The records of no task and of a new one.
LEMMA InitialRecords == NoTask \in TaskRecord /\ NewTask \in TaskRecord
BY DEF NoTask, NewTask, TaskRecord, Statuses, Incomplete

\* The effects of a save keep the types.
LEMMA SaveTypes ==
  ASSUME TypeOK, NEW t \in Tasks, NEW r \in TaskRecord,
         SaveSucceeds(t, r) \/ SaveRaises(t, r)
  PROVE  /\ db' \in [Tasks -> TaskRecord]
         /\ mem' \in [Tasks -> TaskRecord]
         /\ faults' \in Nat
<1>1. Json(r) \in TaskRecord
  BY RecordUpdates
<1>2. QED
  BY <1>1, BoundsAssumption
  DEF TypeOK, SaveSucceeds, SaveRaises, Enter, Spend, FaultCost

LEMMA FailTypes ==
  ASSUME TypeOK, NEW t \in Tasks, NEW r \in TaskRecord,
         NEW rows \in [Tasks -> TaskRecord], NEW spent \in Nat,
         FailWith(t, r, rows, spent)
  PROVE  /\ db' \in [Tasks -> TaskRecord]
         /\ mem' \in [Tasks -> TaskRecord]
         /\ faults' \in Nat
<1> DEFINE f == [r EXCEPT !.status = "failed"]
<1>1. f \in TaskRecord
  BY RecordUpdates DEF Statuses, Terminal, Decided
<1>2. Json(f) \in TaskRecord
  BY <1>1, RecordUpdates
<1>3. FaultCost(f) \in Nat
  BY DEF FaultCost
<1>4. mem' = [mem EXCEPT ![t] = f]
  BY DEF FailWith, Enter
<1>5. db' = rows \/ db' = [rows EXCEPT ![t] = Json(f)]
  BY DEF FailWith
<1>6. faults' = faults + spent \/ faults' = faults + (spent + FaultCost(f))
  BY DEF FailWith, Spend
<1> HIDE DEF f
<1>7. QED
  BY <1>1, <1>2, <1>3, <1>4, <1>5, <1>6 DEF TypeOK

\* Requests that read or write a record keep the types.
LEMMA WriteTypes ==
  ASSUME TypeOK, NEW t \in Tasks, NEW r \in TaskRecord, NEW said \in SUBSET Comments,
         Write(t, r, said)
  PROVE  TypeOK'
<1>1. SaveSucceeds(t, r) \/ SaveRaises(t, r)
  BY DEF Write
<1>2. acked' \in [Tasks -> SUBSET Comments]
  BY DEF Write, TypeOK
<1>3. QED
  BY <1>1, <1>2, SaveTypes DEF Write, TypeOK

LEMMA RecordType == TypeOK => \A t \in Tasks : Record(t) \in TaskRecord /\ Held(t) \in TaskRecord
BY DEF TypeOK, Record, Held

LEMMA RequestTypes ==
  ASSUME TypeOK, NEW t \in Tasks, Request(t)
  PROVE  TypeOK'
<1>1. Record(t) \in TaskRecord
  BY RecordType
<1>2. ASSUME NEW s \in Submission, Submit(t, s)
      PROVE  TypeOK'
  <2>1. SaveSucceeds(t, NewTask) \/ SaveRaises(t, NewTask)
    BY <1>2 DEF Submit
  <2>2. sub' \in [Tasks -> Submission] /\ coro' \in [Tasks -> {"none", "scheduled", "awaiting", "exiting"}]
    BY <1>2 DEF Submit, TypeOK
  <2>3. QED
    BY <1>2, <2>1, <2>2, SaveTypes, InitialRecords DEF Submit, TypeOK
<1>3. CASE SubmitAgain(t)
  BY <1>3 DEF SubmitAgain, TypeOK, Enter
<1>4. CASE Read(t)
  BY <1>4 DEF Read, TypeOK, Enter
<1>5. ASSUME NEW c \in Comments, AddComment(t, c)
      PROVE  TypeOK'
  <2>1. [Record(t) EXCEPT !.comments = @ \cup {c}] \in TaskRecord
    BY <1>1, RecordUpdates
  <2>2. Write(t, [Record(t) EXCEPT !.comments = @ \cup {c}], {c})
    BY <1>5 DEF AddComment
  <2>3. QED
    BY <2>1, <2>2, WriteTypes
<1>6. ASSUME NEW action \in {"approve", "reject", "comment", "escalate"}, NEW actor \in Users,
             NEW said \in {{}} \cup {{c} : c \in Comments},
             Review(t, action, actor, said)
      PROVE  TypeOK'
  <2> DEFINE new == IF action = "comment" THEN Record(t).status ELSE StatusOf[action]
             r == [Record(t) EXCEPT !.status = new, !.comments = @ \cup said]
  <2>1. new \in Statuses
    BY <1>1 DEF StatusOf, TaskRecord, Statuses, Terminal, Decided, Reviewable
  <2>2. said \in SUBSET Comments
    OBVIOUS
  <2>3. r \in TaskRecord
    <3> HIDE DEF new
    <3>1. Record(t).comments \cup said \in SUBSET Comments
      BY <1>1, <2>2 DEF TaskRecord
    <3>2. QED
      BY <1>1, <2>1, <3>1 DEF TaskRecord
  <2>4. Write(t, r, said)
    BY <1>6 DEF Review
  <2> HIDE DEF r
  <2>5. QED
    BY <2>2, <2>3, <2>4, WriteTypes
<1>7. CASE UpdateRemediation(t)
  <2>1. [Record(t) EXCEPT !.tracking = TRUE] \in TaskRecord
    BY <1>1, RecordUpdates
  <2>2. QED
    BY <1>7, <2>1, WriteTypes DEF UpdateRemediation
<1>8. CASE CancelIdle(t)
  <2>1. [Record(t) EXCEPT !.status = "cancelled"] \in TaskRecord
    BY <1>1, RecordUpdates DEF Statuses, Terminal, Decided
  <2>2. QED
    BY <1>8, <2>1, WriteTypes DEF CancelIdle
<1>9. CASE CancelActive(t)
  BY <1>1, <1>9 DEF CancelActive, TypeOK
<1>10. QED
  BY <1>2, <1>3, <1>4, <1>5, <1>6, <1>7, <1>8, <1>9 DEF Request

LEMMA CoroutineTypes ==
  ASSUME TypeOK, NEW t \in Tasks, Coroutine(t)
  PROVE  TypeOK'
<1>1. Held(t) \in TaskRecord
  BY RecordType
<1>2. NoTask \in TaskRecord
  BY InitialRecords
<1>3. CASE Start(t)
  <2> DEFINE r == [mem[t] EXCEPT !.status = "running"]
  <2>1. r \in TaskRecord
    BY RecordUpdates DEF TypeOK, Statuses, Incomplete
  <2>2. SaveSucceeds(t, r) \/ SaveRaises(t, r)
    BY <1>3 DEF Start
  <2> HIDE DEF r
  <2>3. QED
    BY <1>3, <2>1, <2>2, SaveTypes DEF Start, TypeOK
<1>4. CASE CancelledBeforeStart(t)
  BY <1>4 DEF CancelledBeforeStart, Deliver, TypeOK
<1>5. CASE RunnerReturns(t)
  <2> DEFINE r == [Held(t) EXCEPT
                !.status = IF sub[t].collaborative THEN "review_pending" ELSE "completed",
                !.report = TRUE, !.tracking = FALSE, !.docs = FALSE]
  <2>1. r \in TaskRecord
    BY <1>1 DEF TaskRecord, Statuses, Terminal, Reviewable
  <2>2. /\ db \in [Tasks -> TaskRecord]
        /\ [db EXCEPT ![t] = Json(r)] \in [Tasks -> TaskRecord]
    BY <2>1, RecordUpdates DEF TypeOK
  <2>3. FaultCost(r) \in Nat
    BY DEF FaultCost
  <2>4. \/ SaveSucceeds(t, r)
        \/ FailWith(t, r, db, FaultCost(r))
        \/ Storable(r) /\ FailWith(t, r, [db EXCEPT ![t] = Json(r)], 1)
    BY <1>5 DEF RunnerReturns
  <2> HIDE DEF r
  <2>5. db' \in [Tasks -> TaskRecord] /\ mem' \in [Tasks -> TaskRecord] /\ faults' \in Nat
    BY <2>1, <2>2, <2>3, <2>4, SaveTypes, FailTypes
  <2>6. QED
    BY <1>2, <1>5, <2>5 DEF RunnerReturns, Rejoin, Exit, Deliver, TypeOK
<1>6. CASE RunnerTransient(t)
  <2> DEFINE r == [Held(t) EXCEPT !.attempt = @ + 1]
             retried == r.attempt <= RetryLimit
  <2>1. r \in TaskRecord
    BY <1>1, RecordUpdates
  <2>2. /\ db \in [Tasks -> TaskRecord]
        /\ [db EXCEPT ![t] = Json(r)] \in [Tasks -> TaskRecord]
    BY <2>1, RecordUpdates DEF TypeOK
  <2>3. FaultCost(r) \in Nat
    BY DEF FaultCost
  <2>4. \/ SaveSucceeds(t, r)
        \/ FailWith(t, r, db, FaultCost(r))
        \/ FailWith(t, r, [db EXCEPT ![t] = Json(r)], 0)
    BY <1>6 DEF RunnerTransient
  <2> HIDE DEF r
  <2>5. db' \in [Tasks -> TaskRecord] /\ mem' \in [Tasks -> TaskRecord] /\ faults' \in Nat
    BY <2>1, <2>2, <2>3, <2>4, SaveTypes, FailTypes
  <2>6. /\ coro' \in [Tasks -> {"none", "scheduled", "awaiting", "exiting"}]
        /\ calls' \in [Tasks -> Nat]
    BY <1>6 DEF RunnerTransient, Exit, TypeOK
  <2>7. QED
    BY <1>2, <1>6, <2>5, <2>6 DEF RunnerTransient, Rejoin, Deliver, TypeOK
<1>7. CASE RunnerRaises(t)
  <2>1. db \in [Tasks -> TaskRecord]
    BY DEF TypeOK
  <2>2. db' \in [Tasks -> TaskRecord] /\ mem' \in [Tasks -> TaskRecord] /\ faults' \in Nat
    BY <1>1, <1>7, <2>1, FailTypes DEF RunnerRaises
  <2>3. QED
    BY <1>2, <1>7, <2>2 DEF RunnerRaises, Rejoin, Exit, Deliver, TypeOK
<1>8. CASE RunnerCancelled(t)
  <2> DEFINE r == [Held(t) EXCEPT !.status = "cancelled"]
  <2>1. r \in TaskRecord
    BY <1>1, RecordUpdates DEF Statuses, Terminal, Decided
  <2>2. SaveSucceeds(t, r) \/ SaveRaises(t, r)
    BY <1>8 DEF RunnerCancelled
  <2> HIDE DEF r
  <2>3. QED
    BY <1>2, <1>8, <2>1, <2>2, SaveTypes DEF RunnerCancelled, Rejoin, Exit, Deliver, TypeOK
<1>9. CASE Reaped(t)
  BY <1>9 DEF Reaped, TypeOK
<1>10. QED
  BY <1>3, <1>4, <1>5, <1>6, <1>7, <1>8, <1>9 DEF Coroutine, Outcome

LEMMA ProcessTypes ==
  ASSUME TypeOK, Process \/ \E t \in Tasks : CrashBetweenSaves(t)
  PROVE  TypeOK'
<1>1. NoTask \in TaskRecord
  BY InitialRecords
<1>2. CASE Crash
  BY <1>1, <1>2 DEF Crash, Gone, TypeOK
<1>3. CASE Shutdown
  BY <1>3 DEF Shutdown, TypeOK
<1>4. CASE Drained
  BY <1>1, <1>4 DEF Drained, Gone, TypeOK
<1>5. CASE Startup
  <2>1. \A t \in Tasks : [db[t] EXCEPT !.status = "interrupted"] \in TaskRecord
    BY RecordUpdates DEF TypeOK, Statuses, Incomplete
  <2>2. QED
    BY <1>1, <1>5, <2>1 DEF Startup, TypeOK
<1>6. ASSUME NEW t \in Tasks, CrashBetweenSaves(t)
      PROVE  TypeOK'
  <2>1. Json([Held(t) EXCEPT !.attempt = @ + 1]) \in TaskRecord
    BY RecordType, RecordUpdates
  <2>2. db' \in [Tasks -> TaskRecord]
    BY <1>6, <2>1 DEF CrashBetweenSaves, TypeOK
  <2>3. QED
    BY <1>1, <1>6, <2>2 DEF CrashBetweenSaves, Gone, TypeOK
<1>7. QED
  BY <1>2, <1>3, <1>4, <1>5, <1>6 DEF Process

\* Every variable keeps its type: rows, table and coroutine dicts are always
\* whole records with a status the service knows.
THEOREM TypeCorrect == Spec => []TypeOK
<1>1. Init => TypeOK
  BY InitialRecords DEF Init, TypeOK, Submission, NoSubmission
<1>2. TypeOK /\ [Next]_vars => TypeOK'
  <2>1. CASE UNCHANGED vars
    BY <2>1 DEF vars, TypeOK
  <2>2. CASE Next
    BY <2>2, RequestTypes, CoroutineTypes, ProcessTypes DEF Next
  <2>3. QED
    BY <2>1, <2>2
<1>3. QED
  BY <1>1, <1>2, PTL DEF Spec

-----------------------------------------------------------------------------
\* The inductive invariant.  TaskInv(t) is its part about one task.
TaskInv(t) == CopiesInv(t) /\ StoredInv(t) /\ BudgetInv(t)

\* A step keeps the invariant of a task it does not touch.
LEMMA Untouched ==
  ASSUME TypeOK, TypeOK', NEW u \in Tasks, TaskInv(u),
         db'[u] = db[u], mem'[u] = mem[u], mine'[u] = mine[u], coro'[u] = coro[u],
         cancelling'[u] = cancelling[u], sub'[u] = sub[u], calls'[u] = calls[u],
         phase' = phase, stops' = stops, faults' >= faults
  PROVE  TaskInv(u)'
<1>1. faults' = 0 => faults = 0
  BY DEF TypeOK
<1>2. CopiesInv(u)'
  BY <1>1 DEF TaskInv, CopiesInv, Sound, Live, Held, Alive
<1>3. StoredInv(u)'
  BY <1>1 DEF TaskInv, StoredInv, Storable, Json
<1>4. BudgetInv(u)'
  BY DEF TaskInv, BudgetInv, Used, Live, Held
<1>5. QED
  BY <1>2, <1>3, <1>4 DEF TaskInv

\* What a save leaves of the dict it is given.
LEMMA SaveEffect ==
  ASSUME TypeOK, NEW t \in Tasks, NEW r \in TaskRecord,
         SaveSucceeds(t, r) \/ SaveRaises(t, r)
  PROVE  /\ mem'[t] = r
         /\ \A u \in Tasks \ {t} : mem'[u] = mem[u] /\ db'[u] = db[u]
         /\ faults' >= faults
         /\ \/ Storable(r) /\ db'[t] = Json(r) /\ faults' = faults
            \/ db'[t] = db[t] /\ (faults' = 0 => ~Storable(r))
BY BoundsAssumption
DEF TypeOK, SaveSucceeds, SaveRaises, Enter, Spend, FaultCost

\* A request that rewrites the dict of _record keeps the invariant, if it
\* keeps the status or moves it from where the handlers allow it.
LEMMA WriteKeeps ==
  ASSUME TypeOK, NEW t \in Tasks, TaskInv(t), Known(t), Alive,
         NEW r \in TaskRecord, NEW said \in SUBSET Comments,
         Write(t, r, said),
         r.typed = Record(t).typed, r.attempt = Record(t).attempt,
         r.docs = Record(t).docs, r.report = Record(t).report,
         r.status # "absent", Sound(r),
         \/ r.status = Record(t).status
         \/ Record(t).status \in Reviewable
         \/ Record(t).status \notin Terminal /\ coro[t] = "none"
  PROVE  TaskInv(t)'
<1>1. /\ mem'[t] = r
      /\ \/ Storable(r) /\ db'[t] = Json(r) /\ faults' = faults
         \/ db'[t] = db[t] /\ (faults' = 0 => ~Storable(r))
      /\ faults' >= faults
  BY SaveEffect DEF Write
<1>2. /\ mine' = mine /\ coro' = coro /\ cancelling' = cancelling /\ phase' = phase
      /\ sub' = sub /\ calls' = calls /\ stops' = stops
  BY DEF Write
<1>3. r # NoTask /\ Json(r) # NoTask
  BY DEF NoTask, Json, TaskRecord
<1>4. /\ db[t] \in TaskRecord /\ mem[t] \in TaskRecord /\ mine[t] \in TaskRecord
      /\ Record(t) \in TaskRecord
      /\ faults \in Nat /\ calls[t] \in Nat /\ stops \in Nat
  BY RecordType DEF TypeOK
<1>5. /\ Json(r).status = r.status /\ Json(r).docs = r.docs /\ Json(r).report = r.report
      /\ Json(r).attempt = r.attempt /\ Json(r).typed = FALSE
  BY DEF Json, TaskRecord
<1>6. faults' = 0 => faults = 0
  BY <1>1, <1>4
<1>7. Live(t) => r.status = Record(t).status /\ mem[t] # NoTask /\ Record(t) = mem[t]
  BY DEF TaskInv, CopiesInv, Live, Record, NoTask, Incomplete, Reviewable, Known
<1>8. CopiesInv(t)'
  <2>1. (\A x \in {db[t], mem[t], mine[t]} : Sound(x) /\ (x.status = "absent" => x = NoTask))'
    BY <1>1, <1>2, <1>5 DEF TaskInv, CopiesInv, Sound
  <2>2. (~db[t].typed)'
    BY <1>1, <1>5 DEF TaskInv, CopiesInv
  <2>3. (Live(t) => /\ db[t].status \in Incomplete
                    /\ mem[t].status \in Incomplete
                    /\ Held(t).status \in Incomplete)'
    BY <1>1, <1>2, <1>5, <1>7 DEF TaskInv, CopiesInv, Live, Held
  <2>4. (sub[t] = NoSubmission => db[t] = NoTask /\ mem[t] = NoTask /\ coro[t] = "none")'
    BY <1>2 DEF TaskInv, CopiesInv, Known
  <2>5. (\/ db[t].status \in Decided
         \/ db[t].status = "completed" /\ faults = 0
         => mem[t] = NoTask \/ mem[t].status = db[t].status)'
    BY <1>1, <1>5, <1>6
    DEF TaskInv, CopiesInv, Record, Decided, Reviewable, Terminal
  <2>6. QED
    BY <1>2, <2>1, <2>2, <2>3, <2>4, <2>5 DEF TaskInv, CopiesInv, Alive
<1>9. StoredInv(t)'
  <2>1. SUFFICES ASSUME faults' = 0 PROVE StoredInv(t)'
    BY DEF StoredInv
  <2>2. CASE Storable(r) /\ db'[t] = Json(r)
    <3>1. Storable(Record(t))
      BY <2>2 DEF Storable
    <3>2. Record(t).docs = db[t].docs /\ Record(t).report = db[t].report
      BY <1>4, <1>6, <2>1, <3>1 DEF TaskInv, StoredInv, Record, Json, TaskRecord
    <3>3. QED
      BY <1>1, <1>2, <1>5, <1>6, <2>1, <2>2, <3>2 DEF TaskInv, StoredInv, Storable
  <2>3. CASE db'[t] = db[t] /\ ~Storable(r)
    BY <1>1, <1>2, <1>6, <2>1, <2>3 DEF TaskInv, StoredInv, Storable
  <2>4. QED
    BY <1>1, <2>1, <2>2, <2>3
<1>10. BudgetInv(t)'
  <2>1. Record(t).attempt >= db[t].attempt
    BY <1>4 DEF TaskInv, BudgetInv, Record, TaskRecord
  <2>2. /\ db'[t].attempt >= db[t].attempt
        /\ mem'[t].attempt >= db'[t].attempt
        /\ db'[t].attempt = db[t].attempt \/ db'[t].attempt = r.attempt
        /\ db'[t].attempt \in Nat
    BY <1>1, <1>4, <1>5, <2>1 DEF TaskRecord
  <2>3. Used(t)' >= Used(t) /\ Used(t) \in Nat /\ Used(t)' \in Nat
    BY <1>4, <2>2, BoundsAssumption DEF Used, TaskRecord
  <2>4. (calls[t] <= Used(t) + stops + (IF phase = "up" /\ coro[t] # "scheduled" THEN 1 ELSE 0))'
    BY <1>2, <1>4, <2>3 DEF TaskInv, BudgetInv
  <2>5. (Live(t) => mem[t].attempt = db[t].attempt /\ Held(t).attempt = db[t].attempt)'
    BY <1>1, <1>2, <1>5, <1>7, <2>2 DEF TaskInv, BudgetInv, Live, Held
  <2>6. QED
    BY <1>2, <2>2, <2>4, <2>5 DEF TaskInv, BudgetInv
<1>11. QED
  BY <1>8, <1>9, <1>10 DEF TaskInv

\* What the handler of Exception leaves of the dict it is given.
LEMMA FailEffect ==
  ASSUME TypeOK, NEW t \in Tasks, NEW r \in TaskRecord,
         NEW rows \in [Tasks -> TaskRecord], \A u \in Tasks \ {t} : rows[u] = db[u],
         NEW spent \in Nat,
         FailWith(t, r, rows, spent)
  PROVE  /\ mem'[t] = [r EXCEPT !.status = "failed"]
         /\ \A u \in Tasks \ {t} : mem'[u] = mem[u] /\ db'[u] = db[u]
         /\ faults' >= faults + spent
         /\ \/ Storable(r) /\ db'[t] = Json([r EXCEPT !.status = "failed"])
            \/ db'[t] = rows[t] /\ (faults' = 0 => ~Storable(r))
<1> DEFINE f == [r EXCEPT !.status = "failed"]
<1>1. Storable(f) <=> Storable(r)
  BY DEF Storable, TaskRecord
<1>2. FaultCost(f) \in Nat /\ (FaultCost(f) = 0 => ~Storable(f))
  BY DEF FaultCost
<1>3. /\ mem' = [mem EXCEPT ![t] = f]
      /\ \/ Storable(f) /\ db' = [rows EXCEPT ![t] = Json(f)] /\ faults' = faults + spent
         \/ db' = rows /\ faults' = faults + (spent + FaultCost(f))
  BY DEF FailWith, Enter, Spend
<1> HIDE DEF f
<1>4. QED
  BY <1>1, <1>2, <1>3 DEF TypeOK, f

\* The state a coroutine that wrote its dict for the last time leaves behind
\* satisfies the invariant.
LEMMA Ended ==
  ASSUME TypeOK, TypeOK', NEW t \in Tasks, TaskInv(t), Alive,
         coro[t] \in {"scheduled", "awaiting"},
         coro'[t] = "exiting", mine'[t] = NoTask, phase' = phase, sub' = sub, stops' = stops,
         calls' = calls,
         Sound(mem'[t]), Sound(db'[t]), ~db'[t].typed,
         mem'[t].status # "absent", db'[t].status # "absent",
         db'[t].status \in Decided \/ (db'[t].status = "completed" /\ faults' = 0)
           => mem'[t].status = db'[t].status,
         faults' = 0 /\ Storable(mem'[t]) => Json(mem'[t]) = db'[t],
         mem'[t].attempt >= db'[t].attempt,
         db'[t].attempt >= db[t].attempt \/ db'[t].attempt > RetryLimit
  PROVE  TaskInv(t)'
<1>1. sub[t] # NoSubmission
  BY DEF TaskInv, CopiesInv
<1>2. Sound(NoTask)
  BY DEF Sound, NoTask, Incomplete, Reviewable
<1>3. CopiesInv(t)'
  BY <1>1, <1>2 DEF CopiesInv, Live, Alive, Sound
<1>4. StoredInv(t)'
  BY DEF StoredInv, Storable, Json
<1>5. /\ db[t].attempt \in Nat /\ db'[t].attempt \in Nat
      /\ calls[t] \in Nat /\ stops \in Nat
  BY DEF TypeOK, TaskRecord
<1>6. Used(t)' >= Used(t) /\ Used(t) \in Nat /\ Used(t)' \in Nat
  BY <1>5, BoundsAssumption DEF Used
<1>7. calls[t] <= Used(t) + stops + (IF phase = "up" THEN 1 ELSE 0)
  BY <1>5, <1>6 DEF TaskInv, BudgetInv
<1>8. BudgetInv(t)'
  BY <1>1, <1>5, <1>6, <1>7 DEF BudgetInv, Live
<1>9. QED
  BY <1>3, <1>4, <1>8 DEF TaskInv

\* What the coroutine at its await, or about to start, holds.
LEMMA HeldFacts ==
  ASSUME TypeOK, NEW t \in Tasks, TaskInv(t), Live(t)
  PROVE  /\ Held(t) \in TaskRecord
         /\ Held(t).status \in Incomplete /\ Held(t).docs
         /\ db[t].status \in Incomplete /\ db[t].docs
         /\ Held(t).attempt = db[t].attempt
         /\ ~db[t].typed
         /\ coro[t] = "scheduled" => Held(t) = mem[t]
         /\ sub[t] # NoSubmission
         /\ faults = 0 /\ Storable(Held(t)) =>
              Held(t).docs = db[t].docs /\ Held(t).report = db[t].report
<1>1. Held(t) \in TaskRecord
  BY RecordType
<1>2. /\ Held(t).status \in Incomplete
      /\ db[t].status \in Incomplete
      /\ Sound(Held(t)) /\ Sound(db[t])
      /\ coro[t] = "scheduled" => Held(t) = mem[t]
      /\ mem[t] # NoTask /\ ~db[t].typed
      /\ sub[t] # NoSubmission
  BY DEF TaskInv, CopiesInv, Live, Held, NoTask, Incomplete
<1>3. Held(t).attempt = db[t].attempt
  BY DEF TaskInv, BudgetInv
<1>4. faults = 0 /\ Storable(Held(t)) =>
              Held(t).docs = db[t].docs /\ Held(t).report = db[t].report
  <2>1. CASE mine[t] = NoTask
    BY <1>1, <1>2, <2>1 DEF TaskInv, StoredInv, Held, Json, TaskRecord
  <2>2. CASE mine[t] # NoTask
    BY <2>2 DEF TaskInv, StoredInv, Held
  <2>3. QED
    BY <2>1, <2>2
<1>5. QED
  BY <1>1, <1>2, <1>3, <1>4 DEF Sound

-----------------------------------------------------------------------------
\* The steps of the coroutine keep the invariant of its own task.
LEMMA StartKeeps ==
  ASSUME TypeOK, TypeOK', NEW t \in Tasks, TaskInv(t), Start(t)
  PROVE  TaskInv(t)'
<1> DEFINE r == [mem[t] EXCEPT !.status = "running"]
<1>1. /\ Alive /\ coro[t] = "scheduled" /\ Live(t)
      /\ mine' = mine /\ phase' = phase /\ sub' = sub /\ stops' = stops
      /\ cancelling' = cancelling
  BY DEF Start, Live
<1>2. /\ mem[t] \in TaskRecord /\ r \in TaskRecord
      /\ r.status = "running" /\ r.docs = mem[t].docs /\ r.attempt = mem[t].attempt
      /\ r.typed = mem[t].typed /\ r.report = mem[t].report
  <2>1. mem[t] \in TaskRecord /\ "running" \in Statuses
    BY DEF TypeOK, Statuses, Incomplete
  <2>2. r \in TaskRecord
    BY <2>1, RecordUpdates
  <2>3. QED
    BY <2>1, <2>2 DEF TaskRecord
<1>3. SaveSucceeds(t, r) \/ SaveRaises(t, r)
  BY DEF Start
<1>4. /\ mem'[t] = r
      /\ faults' >= faults
      /\ \/ Storable(r) /\ db'[t] = Json(r) /\ faults' = faults
         \/ db'[t] = db[t] /\ (faults' = 0 => ~Storable(r))
  <2> HIDE DEF r
  <2>1. QED
    BY <1>2, <1>3, SaveEffect
<1>5. /\ mem[t].docs /\ db[t].docs /\ db[t].status \in Incomplete /\ ~db[t].typed
      /\ mem[t].attempt = db[t].attempt /\ mine[t] = NoTask /\ Held(t) = mem[t]
  BY <1>1, HeldFacts DEF TaskInv, CopiesInv
<1>6. /\ Json(r).status = r.status /\ Json(r).docs = r.docs /\ Json(r).report = r.report
      /\ Json(r).attempt = r.attempt /\ Json(r).typed = FALSE
  BY <1>2 DEF Json, TaskRecord
<1> HIDE DEF r
<1>7. Sound(r) /\ Sound(Json(r)) /\ Sound(db[t])
  BY <1>2, <1>5, <1>6 DEF Sound, Incomplete, Reviewable
<1>8. ASSUME SaveSucceeds(t, r), coro' = [coro EXCEPT ![t] = "awaiting"],
             calls' = [calls EXCEPT ![t] = @ + 1]
      PROVE  TaskInv(t)'
  <2>1. /\ coro'[t] = "awaiting" /\ calls'[t] = calls[t] + 1
        /\ db'[t] = Json(r) /\ faults' = faults
    BY <1>8 DEF TypeOK, SaveSucceeds
  <2>2. CopiesInv(t)'
    BY <1>1, <1>2, <1>4, <1>5, <1>6, <1>7, <2>1
    DEF TaskInv, CopiesInv, Live, Held, Alive, Incomplete, Decided, NoTask
  <2>3. StoredInv(t)'
    BY <1>1, <1>4, <1>5, <2>1 DEF StoredInv
  <2>4. BudgetInv(t)'
    <3>1. Used(t)' = Used(t) /\ Used(t) \in Nat /\ calls[t] \in Nat /\ stops \in Nat
      BY <1>2, <1>5, <1>6, <2>1, BoundsAssumption DEF Used, TypeOK, TaskRecord
    <3>2. phase = "up" \/ phase = "draining"
      BY <1>1 DEF Alive
    <3>3. phase = "up"
      BY <1>1, <3>2 DEF Start, TaskInv, BudgetInv
    <3>4. db[t].attempt \in Nat
      BY DEF TypeOK, TaskRecord
    <3>5. QED
      BY <1>1, <1>2, <1>4, <1>5, <1>6, <2>1, <3>1, <3>3, <3>4
      DEF TaskInv, BudgetInv, CopiesInv, Live, Held
  <2>5. QED
    BY <2>2, <2>3, <2>4 DEF TaskInv
<1>9. ASSUME SaveRaises(t, r), coro' = [coro EXCEPT ![t] = "exiting"], UNCHANGED calls
      PROVE  TaskInv(t)'
  <2>1. /\ db'[t] = db[t] /\ (faults' = 0 => ~Storable(r))
    BY <1>2, <1>9 DEF SaveRaises, Spend, FaultCost, TypeOK
  <2>2. coro'[t] = "exiting" /\ calls' = calls
    BY <1>9 DEF TypeOK
  <2>3. mem'[t].attempt >= db'[t].attempt /\ db'[t].attempt >= db[t].attempt
    BY <1>2, <1>4, <1>5, <2>1 DEF TypeOK, TaskRecord
  <2>4. QED
    BY <1>1, <1>2, <1>4, <1>5, <1>7, <2>1, <2>2, <2>3, Ended DEF Incomplete, Decided
<1>10. QED
  BY <1>8, <1>9 DEF Start, r

LEMMA RunnerReturnsKeeps ==
  ASSUME TypeOK, TypeOK', NEW t \in Tasks, TaskInv(t), RunnerReturns(t)
  PROVE  TaskInv(t)'
<1> DEFINE r == [Held(t) EXCEPT
              !.status = IF sub[t].collaborative THEN "review_pending" ELSE "completed",
              !.report = TRUE, !.tracking = FALSE, !.docs = FALSE]
           f == [r EXCEPT !.status = "failed"]
<1>1. /\ Alive /\ coro[t] = "awaiting" /\ Live(t)
      /\ coro'[t] = "exiting" /\ mine'[t] = NoTask /\ phase' = phase /\ sub' = sub
      /\ stops' = stops /\ calls' = calls
  BY DEF RunnerReturns, Live, Exit, Rejoin, TypeOK
<1>2. /\ Held(t) \in TaskRecord /\ Held(t).attempt = db[t].attempt
      /\ Sound(db[t]) /\ ~db[t].typed /\ db[t].status \in Incomplete
  BY <1>1, HeldFacts DEF TaskInv, CopiesInv
<1>3. /\ r \in TaskRecord /\ r.report /\ r.attempt = db[t].attempt
      /\ r.status \in {"review_pending", "completed"}
  BY <1>2 DEF TaskRecord, Statuses, Terminal, Reviewable
<1> HIDE DEF r
<1>4. /\ f \in TaskRecord /\ f.status = "failed" /\ f.report /\ f.attempt = db[t].attempt
  BY <1>3, RecordUpdates DEF TaskRecord, Statuses, Terminal, Decided
<1> HIDE DEF f
<1>5. /\ Json(r).status = r.status /\ Json(r).report = r.report
      /\ Json(r).attempt = r.attempt /\ Json(r).typed = FALSE
      /\ Json(f).status = f.status /\ Json(f).report = f.report
      /\ Json(f).attempt = f.attempt /\ Json(f).typed = FALSE
      /\ Json(r) \in TaskRecord
      /\ Storable(f) <=> Storable(r)
  BY <1>3, <1>4, RecordUpdates DEF Json, TaskRecord, Storable, f
<1>6. Sound(r) /\ Sound(Json(r)) /\ Sound(f) /\ Sound(Json(f))
  BY <1>3, <1>4, <1>5 DEF Sound, Incomplete, Reviewable
<1>7. db[t].attempt \in Nat /\ faults \in Nat
  BY DEF TypeOK, TaskRecord
<1>8. CASE SaveSucceeds(t, r)
  <2>1. mem'[t] = r /\ db'[t] = Json(r)
    BY <1>3, <1>8 DEF SaveSucceeds, Enter, TypeOK
  <2>2. QED
    BY <1>1, <1>3, <1>5, <1>6, <1>7, <2>1, Ended
<1>9. CASE FailWith(t, r, db, FaultCost(r))
  <2>1. FaultCost(r) \in Nat /\ db \in [Tasks -> TaskRecord]
    BY DEF FaultCost, TypeOK
  <2>2. /\ mem'[t] = f
        /\ \/ Storable(r) /\ db'[t] = Json(f)
           \/ db'[t] = db[t] /\ (faults' = 0 => ~Storable(r))
    BY <1>3, <1>9, <2>1, FailEffect DEF f
  <2>3. QED
    BY <1>1, <1>2, <1>3, <1>4, <1>5, <1>6, <1>7, <2>2, Ended DEF Incomplete, Decided
<1>10. CASE Storable(r) /\ FailWith(t, r, [db EXCEPT ![t] = Json(r)], 1)
  <2> DEFINE rows == [db EXCEPT ![t] = Json(r)]
  <2>1. rows \in [Tasks -> TaskRecord] /\ rows[t] = Json(r) /\ \A u \in Tasks \ {t} : rows[u] = db[u]
    BY <1>5 DEF TypeOK
  <2> HIDE DEF rows
  <2>2. FailWith(t, r, rows, 1)
    BY <1>10 DEF rows
  <2>3. /\ mem'[t] = f /\ faults' >= faults + 1
        /\ \/ Storable(r) /\ db'[t] = Json(f)
           \/ db'[t] = Json(r) /\ (faults' = 0 => ~Storable(r))
    BY <1>3, <2>1, <2>2, FailEffect DEF f
  <2>4. faults' # 0
    BY <1>7, <2>3 DEF TypeOK
  <2>5. QED
    BY <1>1, <1>3, <1>4, <1>5, <1>6, <1>7, <2>3, <2>4, Ended DEF Decided
<1>11. QED
  BY <1>8, <1>9, <1>10 DEF RunnerReturns, r

LEMMA RunnerTransientKeeps ==
  ASSUME TypeOK, TypeOK', NEW t \in Tasks, TaskInv(t), RunnerTransient(t)
  PROVE  TaskInv(t)'
<1> DEFINE r == [Held(t) EXCEPT !.attempt = @ + 1]
           f == [r EXCEPT !.status = "failed"]
<1>1. /\ Alive /\ coro[t] = "awaiting" /\ Live(t)
      /\ mine'[t] = NoTask /\ phase' = phase /\ sub' = sub /\ stops' = stops
  BY DEF RunnerTransient, Live, Rejoin, TypeOK
<1>2. /\ Held(t) \in TaskRecord /\ Held(t).attempt = db[t].attempt
      /\ Held(t).status \in Incomplete /\ Held(t).docs
      /\ Sound(db[t]) /\ ~db[t].typed /\ db[t].status \in Incomplete
      /\ sub[t] # NoSubmission
  BY <1>1, HeldFacts DEF TaskInv, CopiesInv
<1>3. r \in TaskRecord
  BY <1>2, RecordUpdates
<1>4. /\ r.status = Held(t).status /\ r.docs /\ r.attempt = db[t].attempt + 1
  BY <1>2 DEF TaskRecord
<1> HIDE DEF r
<1>5. f \in TaskRecord /\ f.status = "failed" /\ f.attempt = r.attempt
  BY <1>3, RecordUpdates DEF TaskRecord, Statuses, Terminal, Decided
<1> HIDE DEF f
<1>6. /\ Json(r).status = r.status /\ Json(r).docs = r.docs
      /\ Json(r).attempt = r.attempt /\ Json(r).typed = FALSE
      /\ Json(f).status = f.status
      /\ Json(f).attempt = f.attempt /\ Json(f).typed = FALSE
      /\ Json(r) \in TaskRecord
      /\ Storable(f) <=> Storable(r)
  BY <1>3, <1>5, RecordUpdates DEF Json, TaskRecord, Storable, f
<1>7. Sound(r) /\ Sound(Json(r)) /\ Sound(f) /\ Sound(Json(f))
  BY <1>2, <1>4, <1>5, <1>6 DEF Sound, Incomplete, Reviewable
<1>8. /\ db[t].attempt \in Nat /\ faults \in Nat /\ calls[t] \in Nat /\ stops \in Nat
  BY DEF TypeOK, TaskRecord
<1>9. ASSUME r.attempt <= RetryLimit, SaveSucceeds(t, r),
             calls' = [calls EXCEPT ![t] = @ + 1], coro' = coro
      PROVE  TaskInv(t)'
  <2>1. mem'[t] = r /\ db'[t] = Json(r) /\ calls'[t] = calls[t] + 1
    BY <1>9 DEF SaveSucceeds, Enter, TypeOK
  <2>2. Sound(NoTask)
    BY DEF Sound, NoTask, Incomplete, Reviewable
  <2>3. CopiesInv(t)'
    BY <1>1, <1>2, <1>4, <1>6, <1>7, <1>9, <2>1, <2>2
    DEF CopiesInv, Live, Held, Alive, Incomplete, Decided
  <2>4. StoredInv(t)'
    BY <1>1, <2>1 DEF StoredInv
  <2>5. Used(t)' = Used(t) + 1 /\ Used(t) \in Nat
    BY <1>4, <1>6, <1>8, <1>9, <2>1, BoundsAssumption DEF Used
  <2>6. BudgetInv(t)'
    BY <1>1, <1>2, <1>4, <1>6, <1>8, <1>9, <2>1, <2>5
    DEF TaskInv, BudgetInv, Live, Held
  <2>7. QED
    BY <2>3, <2>4, <2>6 DEF TaskInv
<1>10. ASSUME FailWith(t, r, db, FaultCost(r)), coro'[t] = "exiting", calls' = calls
       PROVE  TaskInv(t)'
  <2>1. FaultCost(r) \in Nat /\ db \in [Tasks -> TaskRecord]
    BY DEF FaultCost, TypeOK
  <2>2. /\ mem'[t] = f
        /\ \/ Storable(r) /\ db'[t] = Json(f)
           \/ db'[t] = db[t] /\ (faults' = 0 => ~Storable(r))
    BY <1>3, <1>10, <2>1, FailEffect DEF f
  <2>3. QED
    BY <1>1, <1>2, <1>4, <1>5, <1>6, <1>7, <1>8, <1>10, <2>2, Ended
    DEF Incomplete, Decided
<1>11. ASSUME FailWith(t, r, [db EXCEPT ![t] = Json(r)], 0), r.attempt > RetryLimit,
              coro'[t] = "exiting", calls' = calls
       PROVE  TaskInv(t)'
  <2> DEFINE rows == [db EXCEPT ![t] = Json(r)]
  <2>1. rows \in [Tasks -> TaskRecord] /\ rows[t] = Json(r) /\ \A u \in Tasks \ {t} : rows[u] = db[u]
    BY <1>6 DEF TypeOK
  <2> HIDE DEF rows
  <2>2. FailWith(t, r, rows, 0)
    BY <1>11 DEF rows
  <2>3. /\ mem'[t] = f
        /\ \/ Storable(r) /\ db'[t] = Json(f)
           \/ db'[t] = Json(r) /\ (faults' = 0 => ~Storable(r))
    BY <1>3, <2>1, <2>2, FailEffect DEF f
  <2>4. QED
    BY <1>1, <1>2, <1>4, <1>5, <1>6, <1>7, <1>8, <1>11, <2>3, Ended
    DEF Incomplete, Decided
<1>12. Exit(t) => coro'[t] = "exiting"
  BY DEF Exit, TypeOK
<1>13. r.attempt \in Nat
  BY <1>3 DEF TaskRecord
<1>14. QED
  BY <1>9, <1>10, <1>11, <1>12, <1>13, BoundsAssumption DEF RunnerTransient, r

LEMMA RunnerRaisesKeeps ==
  ASSUME TypeOK, TypeOK', NEW t \in Tasks, TaskInv(t), RunnerRaises(t)
  PROVE  TaskInv(t)'
<1> DEFINE r == Held(t)
           f == [r EXCEPT !.status = "failed"]
<1>1. /\ Alive /\ coro[t] = "awaiting" /\ Live(t)
      /\ coro'[t] = "exiting" /\ mine'[t] = NoTask /\ phase' = phase /\ sub' = sub
      /\ stops' = stops /\ calls' = calls
  BY DEF RunnerRaises, Live, Exit, Rejoin, TypeOK
<1>2. /\ r \in TaskRecord /\ r.attempt = db[t].attempt
      /\ Sound(db[t]) /\ ~db[t].typed /\ db[t].status \in Incomplete
  BY <1>1, HeldFacts DEF TaskInv, CopiesInv
<1> HIDE DEF r
<1>3. f \in TaskRecord /\ f.status = "failed" /\ f.attempt = db[t].attempt
  BY <1>2, RecordUpdates DEF TaskRecord, Statuses, Terminal, Decided
<1> HIDE DEF f
<1>4. /\ Json(f).status = f.status /\ Json(f).attempt = f.attempt /\ Json(f).typed = FALSE
      /\ Storable(f) <=> Storable(r)
  BY <1>2, <1>3 DEF Json, TaskRecord, Storable, f
<1>5. Sound(f) /\ Sound(Json(f))
  BY <1>3, <1>4 DEF Sound, Incomplete, Reviewable
<1>6. db[t].attempt \in Nat /\ db \in [Tasks -> TaskRecord] /\ FailWith(t, r, db, 0)
  BY DEF TypeOK, TaskRecord, RunnerRaises, r
<1>7. /\ mem'[t] = f
      /\ \/ Storable(r) /\ db'[t] = Json(f)
         \/ db'[t] = db[t] /\ (faults' = 0 => ~Storable(r))
  BY <1>2, <1>6, FailEffect DEF f
<1>8. QED
  BY <1>1, <1>2, <1>3, <1>4, <1>5, <1>6, <1>7, Ended DEF Incomplete, Decided

LEMMA RunnerCancelledKeeps ==
  ASSUME TypeOK, TypeOK', NEW t \in Tasks, TaskInv(t), RunnerCancelled(t)
  PROVE  TaskInv(t)'
<1> DEFINE r == [Held(t) EXCEPT !.status = "cancelled"]
<1>1. /\ Alive /\ coro[t] = "awaiting" /\ Live(t)
      /\ coro'[t] = "exiting" /\ mine'[t] = NoTask /\ phase' = phase /\ sub' = sub
      /\ stops' = stops /\ calls' = calls
  BY DEF RunnerCancelled, Live, Exit, Rejoin, TypeOK
<1>2. /\ Held(t) \in TaskRecord /\ Held(t).attempt = db[t].attempt
      /\ Sound(db[t]) /\ ~db[t].typed /\ db[t].status \in Incomplete
  BY <1>1, HeldFacts DEF TaskInv, CopiesInv
<1>3. r \in TaskRecord /\ r.status = "cancelled" /\ r.attempt = db[t].attempt
  BY <1>2, RecordUpdates DEF TaskRecord, Statuses, Terminal, Decided
<1>4. SaveSucceeds(t, r) \/ SaveRaises(t, r)
  BY DEF RunnerCancelled
<1> HIDE DEF r
<1>5. /\ Json(r).status = r.status /\ Json(r).attempt = r.attempt /\ Json(r).typed = FALSE
      /\ Sound(r) /\ Sound(Json(r))
  BY <1>3 DEF Json, TaskRecord, Sound, Incomplete, Reviewable
<1>6. db[t].attempt \in Nat
  BY DEF TypeOK, TaskRecord
<1>7. /\ mem'[t] = r
      /\ \/ Storable(r) /\ db'[t] = Json(r) /\ faults' = faults
         \/ db'[t] = db[t] /\ (faults' = 0 => ~Storable(r))
  BY <1>3, <1>4, SaveEffect
<1>8. QED
  BY <1>1, <1>2, <1>3, <1>5, <1>6, <1>7, Ended DEF Incomplete, Decided

\* The effect of a step on the tasks it is not about.
LEMMA CoroutineFrame ==
  ASSUME TypeOK, NEW t \in Tasks, Coroutine(t), NEW u \in Tasks \ {t}
  PROVE  /\ db'[u] = db[u] /\ mem'[u] = mem[u] /\ mine'[u] = mine[u] /\ coro'[u] = coro[u]
         /\ cancelling'[u] = cancelling[u] /\ sub'[u] = sub[u] /\ calls'[u] = calls[u]
         /\ phase' = phase /\ stops' = stops /\ faults' >= faults
<1>1. Held(t) \in TaskRecord /\ mem[t] \in TaskRecord /\ db \in [Tasks -> TaskRecord]
  BY RecordType DEF TypeOK
<1>2. CASE Start(t)
  <2>1. [mem[t] EXCEPT !.status = "running"] \in TaskRecord
    BY <1>1, RecordUpdates DEF Statuses, Incomplete
  <2>2. \/ SaveSucceeds(t, [mem[t] EXCEPT !.status = "running"])
        \/ SaveRaises(t, [mem[t] EXCEPT !.status = "running"])
    BY <1>2 DEF Start
  <2>3. db'[u] = db[u] /\ mem'[u] = mem[u] /\ faults' >= faults
    BY <2>1, <2>2, SaveEffect
  <2>4. QED
    BY <1>2, <2>3 DEF Start, TypeOK
<1>3. CASE CancelledBeforeStart(t) \/ Reaped(t)
  BY <1>3 DEF CancelledBeforeStart, Reaped, Deliver, TypeOK
<1>4. ASSUME NEW r \in TaskRecord, NEW rows \in [Tasks -> TaskRecord],
             \A v \in Tasks \ {t} : rows[v] = db[v], NEW spent \in Nat,
             SaveSucceeds(t, r) \/ SaveRaises(t, r) \/ FailWith(t, r, rows, spent)
      PROVE  db'[u] = db[u] /\ mem'[u] = mem[u] /\ faults' >= faults
  <2>1. faults \in Nat
    BY DEF TypeOK
  <2>2. CASE SaveSucceeds(t, r) \/ SaveRaises(t, r)
    BY <2>2, SaveEffect
  <2>3. CASE FailWith(t, r, rows, spent)
    <3>1. /\ mem'[u] = mem[u] /\ db'[u] = db[u]
      BY <1>4, <2>3, FailEffect
    <3>2. faults' = faults + spent \/ faults' = faults + (spent + FaultCost([r EXCEPT !.status = "failed"]))
      BY <2>3 DEF FailWith, Spend
    <3>3. QED
      BY <2>1, <3>1, <3>2 DEF FaultCost
  <2>4. QED
    BY <1>4, <2>2, <2>3
<1>5. ASSUME NEW r \in TaskRecord
      PROVE  /\ FaultCost(r) \in Nat
             /\ [db EXCEPT ![t] = Json(r)] \in [Tasks -> TaskRecord]
             /\ \A v \in Tasks \ {t} : [db EXCEPT ![t] = Json(r)][v] = db[v]
  BY <1>1, RecordUpdates DEF FaultCost
<1>6. CASE RunnerReturns(t)
  <2> DEFINE r == [Held(t) EXCEPT
              !.status = IF sub[t].collaborative THEN "review_pending" ELSE "completed",
              !.report = TRUE, !.tracking = FALSE, !.docs = FALSE]
  <2>1. r \in TaskRecord
    BY <1>1 DEF TaskRecord, Statuses, Terminal, Reviewable
  <2>2. \/ SaveSucceeds(t, r)
        \/ FailWith(t, r, db, FaultCost(r))
        \/ FailWith(t, r, [db EXCEPT ![t] = Json(r)], 1)
    BY <1>6 DEF RunnerReturns
  <2> HIDE DEF r
  <2>3. db'[u] = db[u] /\ mem'[u] = mem[u] /\ faults' >= faults
    BY <1>1, <1>4, <1>5, <2>1, <2>2
  <2>4. QED
    BY <1>6, <2>3 DEF RunnerReturns, Rejoin, Exit, Deliver, TypeOK
<1>7. CASE RunnerTransient(t)
  <2> DEFINE r == [Held(t) EXCEPT !.attempt = @ + 1]
  <2>1. r \in TaskRecord
    BY <1>1, RecordUpdates
  <2>2. \/ SaveSucceeds(t, r)
        \/ FailWith(t, r, db, FaultCost(r))
        \/ FailWith(t, r, [db EXCEPT ![t] = Json(r)], 0)
    BY <1>7 DEF RunnerTransient
  <2> HIDE DEF r
  <2>3. db'[u] = db[u] /\ mem'[u] = mem[u] /\ faults' >= faults
    BY <1>1, <1>4, <1>5, <2>1, <2>2
  <2>4. coro'[u] = coro[u] /\ calls'[u] = calls[u]
    BY <1>7 DEF RunnerTransient, Exit, TypeOK
  <2>5. QED
    BY <1>7, <2>3, <2>4 DEF RunnerTransient, Rejoin, Deliver, TypeOK
<1>8. CASE RunnerRaises(t)
  <2>1. db'[u] = db[u] /\ mem'[u] = mem[u] /\ faults' >= faults
    BY <1>1, <1>4, <1>8 DEF RunnerRaises
  <2>2. QED
    BY <1>8, <2>1 DEF RunnerRaises, Rejoin, Exit, Deliver, TypeOK
<1>9. CASE RunnerCancelled(t)
  <2> DEFINE r == [Held(t) EXCEPT !.status = "cancelled"]
  <2>1. r \in TaskRecord
    BY <1>1, RecordUpdates DEF Statuses, Terminal, Decided
  <2>2. SaveSucceeds(t, r) \/ SaveRaises(t, r)
    BY <1>9 DEF RunnerCancelled
  <2> HIDE DEF r
  <2>3. db'[u] = db[u] /\ mem'[u] = mem[u] /\ faults' >= faults
    BY <2>1, <2>2, SaveEffect
  <2>4. QED
    BY <1>9, <2>3 DEF RunnerCancelled, Rejoin, Exit, Deliver, TypeOK
<1>10. QED
  BY <1>2, <1>3, <1>6, <1>7, <1>8, <1>9 DEF Coroutine, Outcome

LEMMA CoroutineKeeps ==
  ASSUME TypeOK, TypeOK', \A u \in Tasks : TaskInv(u), NEW t \in Tasks, Coroutine(t)
  PROVE  \A u \in Tasks : TaskInv(u)'
<1>1. ASSUME NEW u \in Tasks \ {t}
      PROVE  TaskInv(u)'
  BY CoroutineFrame, Untouched
<1>2. TaskInv(t)'
  <2>1. CASE CancelledBeforeStart(t) \/ Reaped(t)
    <3>1. /\ db' = db /\ mem' = mem /\ mine' = mine /\ phase' = phase /\ sub' = sub
          /\ calls' = calls /\ stops' = stops /\ faults' = faults /\ Alive
          /\ coro'[t] \in {"none", "exiting"} /\ coro[t] \in {"scheduled", "exiting"}
      BY <2>1 DEF CancelledBeforeStart, Reaped, TypeOK
    <3>2. CopiesInv(t)'
      BY <3>1 DEF TaskInv, CopiesInv, Sound, Live, Held, Alive
    <3>3. StoredInv(t)'
      BY <3>1 DEF TaskInv, StoredInv, Storable, Json
    <3>4. Used(t)' = Used(t) /\ Used(t) \in Nat /\ calls[t] \in Nat /\ stops \in Nat
      BY <3>1, BoundsAssumption DEF Used, TypeOK, TaskRecord
    <3>5. BudgetInv(t)'
      BY <3>1, <3>4 DEF TaskInv, BudgetInv, CopiesInv, Live, Held
    <3>6. QED
      BY <3>2, <3>3, <3>5 DEF TaskInv
  <2>2. QED
    BY <2>1, StartKeeps, RunnerReturnsKeeps, RunnerTransientKeeps, RunnerRaisesKeeps,
       RunnerCancelledKeeps DEF Coroutine, Outcome
<1>3. QED
  BY <1>1, <1>2

-----------------------------------------------------------------------------
\* The requests that rewrite a dict.
LEMMA WriteFrame ==
  ASSUME TypeOK, NEW t \in Tasks, NEW r \in TaskRecord, NEW said \in SUBSET Comments,
         Write(t, r, said), NEW u \in Tasks \ {t}
  PROVE  /\ db'[u] = db[u] /\ mem'[u] = mem[u] /\ mine'[u] = mine[u] /\ coro'[u] = coro[u]
         /\ cancelling'[u] = cancelling[u] /\ sub'[u] = sub[u] /\ calls'[u] = calls[u]
         /\ phase' = phase /\ stops' = stops /\ faults' >= faults
BY SaveEffect DEF Write

\* What the invariant says of the dict a request finds.
LEMMA RecordFacts ==
  ASSUME TypeOK, NEW t \in Tasks, TaskInv(t), Known(t)
  PROVE  /\ Record(t) \in TaskRecord /\ Sound(Record(t))
         /\ Record(t).status # "absent"
  <1>1. Record(t) \in TaskRecord
    BY RecordType
  <1>2. QED
    BY <1>1 DEF TaskInv, CopiesInv, Record, Known

\* What the handlers make of a dict: its status stays, or moves from where
\* review and cancel allow it.
Fits(t, r, said) ==
  /\ Write(t, r, said)
  /\ r.typed = Record(t).typed /\ r.attempt = Record(t).attempt
  /\ r.docs = Record(t).docs /\ r.report = Record(t).report
  /\ r.status # "absent" /\ Sound(r)
  /\ \/ r.status = Record(t).status
     \/ Record(t).status \in Reviewable /\ r.status \in Reviewable \cup {"approved", "rejected"}
     \/ Record(t).status \notin Terminal /\ coro[t] = "none" /\ r.status = "cancelled"

\* The four handlers that end in a save.
Saving(t) ==
  \/ \E c \in Comments : AddComment(t, c)
  \/ \E action \in {"approve", "reject", "comment", "escalate"}, actor \in Users :
       \E said \in {{}} \cup {{c} : c \in Comments} : Review(t, action, actor, said)
  \/ UpdateRemediation(t)
  \/ CancelIdle(t)

LEMMA SavingFits ==
  ASSUME TypeOK, NEW t \in Tasks, TaskInv(t), Saving(t)
  PROVE  /\ Known(t) /\ Alive
         /\ \E r \in TaskRecord, said \in SUBSET Comments : Fits(t, r, said)
<1>1. Known(t) /\ Alive
  BY DEF Saving, AddComment, Review, UpdateRemediation, CancelIdle, Serving, Alive
<1>2. Record(t) \in TaskRecord /\ Sound(Record(t)) /\ Record(t).status # "absent"
  BY <1>1, RecordFacts
<1>3. \E r \in TaskRecord, said \in SUBSET Comments : Fits(t, r, said)
  <2>1. ASSUME NEW c \in Comments, AddComment(t, c)
        PROVE  \E r \in TaskRecord, said \in SUBSET Comments : Fits(t, r, said)
    <3> DEFINE r == [Record(t) EXCEPT !.comments = @ \cup {c}]
    <3>1. r \in TaskRecord /\ r.status = Record(t).status /\ r.typed = Record(t).typed
          /\ r.attempt = Record(t).attempt /\ r.docs = Record(t).docs /\ r.report = Record(t).report
      BY <1>2, RecordUpdates DEF TaskRecord
    <3>2. Write(t, r, {c})
      BY <2>1 DEF AddComment
    <3> HIDE DEF r
    <3>3. Fits(t, r, {c})
      BY <1>2, <3>1, <3>2 DEF Sound, Fits
    <3>4. QED
      BY <3>1, <3>3
  <2>2. ASSUME NEW action \in {"approve", "reject", "comment", "escalate"}, NEW actor \in Users,
               NEW said \in {{}} \cup {{c} : c \in Comments}, Review(t, action, actor, said)
        PROVE  \E r \in TaskRecord, x \in SUBSET Comments : Fits(t, r, x)
    <3> DEFINE new == IF action = "comment" THEN Record(t).status ELSE StatusOf[action]
               r == [Record(t) EXCEPT !.status = new, !.comments = @ \cup said]
    <3>1. /\ new \in {"review_pending", "escalated", "approved", "rejected"}
          /\ Record(t).status \in Reviewable
      <4>1. Record(t).status \in Reviewable
        BY <2>2 DEF Review
      <4>2. /\ StatusOf["approve"] = "approved" /\ StatusOf["reject"] = "rejected"
            /\ StatusOf["escalate"] = "escalated"
        BY DEF StatusOf
      <4>3. QED
        BY <4>1, <4>2 DEF Reviewable
    <3>2. said \in SUBSET Comments /\ Record(t).comments \cup said \in SUBSET Comments
      BY <1>2 DEF TaskRecord
    <3>3. Write(t, r, said)
      BY <2>2 DEF Review
    <3> HIDE DEF new
    <3>4. r \in TaskRecord /\ r.status = new /\ r.typed = Record(t).typed
          /\ r.attempt = Record(t).attempt /\ r.docs = Record(t).docs /\ r.report = Record(t).report
      BY <1>2, <3>1, <3>2 DEF TaskRecord, Statuses, Terminal, Reviewable, Decided
    <3> HIDE DEF r
    <3>5. Sound(r)
      BY <1>2, <3>1, <3>4 DEF Sound, Incomplete
    <3>6. Fits(t, r, said)
      BY <3>1, <3>3, <3>4, <3>5 DEF Fits, Reviewable
    <3>7. QED
      BY <3>2, <3>4, <3>6
  <2>3. ASSUME UpdateRemediation(t)
        PROVE  \E r \in TaskRecord, said \in SUBSET Comments : Fits(t, r, said)
    <3> DEFINE r == [Record(t) EXCEPT !.tracking = TRUE]
    <3>1. r \in TaskRecord /\ r.status = Record(t).status /\ r.typed = Record(t).typed
          /\ r.attempt = Record(t).attempt /\ r.docs = Record(t).docs /\ r.report = Record(t).report
      BY <1>2, RecordUpdates DEF TaskRecord
    <3>2. Write(t, r, {})
      BY <2>3 DEF UpdateRemediation
    <3> HIDE DEF r
    <3>3. Fits(t, r, {})
      BY <1>2, <3>1, <3>2 DEF Sound, Fits
    <3>4. QED
      BY <3>1, <3>3
  <2>4. ASSUME CancelIdle(t)
        PROVE  \E r \in TaskRecord, said \in SUBSET Comments : Fits(t, r, said)
    <3> DEFINE r == [Record(t) EXCEPT !.status = "cancelled"]
    <3>1. r \in TaskRecord /\ r.status = "cancelled" /\ r.typed = Record(t).typed
          /\ r.attempt = Record(t).attempt /\ r.docs = Record(t).docs /\ r.report = Record(t).report
      BY <1>2, RecordUpdates DEF TaskRecord, Statuses, Terminal, Decided
    <3>2. Write(t, r, {}) /\ Record(t).status \notin Terminal /\ coro[t] = "none"
      BY <2>4 DEF CancelIdle
    <3> HIDE DEF r
    <3>3. Sound(r)
      BY <3>1 DEF Sound, Incomplete, Reviewable
    <3>4. Fits(t, r, {})
      BY <3>1, <3>2, <3>3 DEF Fits
    <3>5. QED
      BY <3>1, <3>4
  <2>5. QED
    BY <2>1, <2>2, <2>3, <2>4 DEF Saving
<1>4. QED
  BY <1>1, <1>3

LEMMA SavingKeeps ==
  ASSUME TypeOK, TypeOK', \A u \in Tasks : TaskInv(u), NEW t \in Tasks, Saving(t)
  PROVE  \A u \in Tasks : TaskInv(u)'
<1>1. PICK r \in TaskRecord, said \in SUBSET Comments : Fits(t, r, said)
  BY SavingFits
<1>2. TaskInv(t)'
  BY <1>1, SavingFits, WriteKeeps DEF Fits
<1>3. ASSUME NEW u \in Tasks \ {t} PROVE TaskInv(u)'
  BY <1>1, <1>3, WriteFrame, Untouched DEF Fits
<1>4. QED
  BY <1>2, <1>3

\* A submission creates a row and its coroutine together, or neither.
LEMMA SubmitKeeps ==
  ASSUME TypeOK, TypeOK', \A u \in Tasks : TaskInv(u), NEW t \in Tasks,
         NEW s \in Submission, s.tenant # NoTenant, Submit(t, s)
  PROVE  \A u \in Tasks : TaskInv(u)'
<1>1. SaveSucceeds(t, NewTask) \/ SaveRaises(t, NewTask)
  BY DEF Submit
<1>2. ASSUME NEW u \in Tasks \ {t} PROVE TaskInv(u)'
  <2>1. db'[u] = db[u] /\ mem'[u] = mem[u] /\ faults' >= faults
    BY <1>1, SaveEffect, InitialRecords
  <2>2. QED
    BY <2>1, Untouched DEF Submit, TypeOK
<1>3. TaskInv(t)'
  <2>1. /\ db[t] = NoTask /\ mem[t] = NoTask /\ coro[t] = "none" /\ mine[t] = NoTask
        /\ calls[t] = 0 /\ stops \in Nat /\ faults \in Nat
    BY DEF Submit, TaskInv, CopiesInv, BudgetInv, TypeOK
  <2>2. /\ sub'[t] # NoSubmission /\ mine'[t] = NoTask /\ calls'[t] = 0
        /\ phase' = "up" /\ stops' = stops
    BY <2>1 DEF Submit, Serving, NoSubmission, TypeOK
  <2>3. /\ NewTask.status = "pending" /\ NewTask.docs /\ NewTask.typed /\ NewTask.attempt = 0
        /\ Json(NewTask).status = "pending" /\ Json(NewTask).docs /\ ~Json(NewTask).typed
        /\ Json(NewTask).attempt = 0
        /\ NoTask.attempt = 0 /\ ~NoTask.typed /\ NoTask.status = "absent"
    BY DEF NewTask, NoTask, Json
  <2>4. Sound(NoTask) /\ Sound(NewTask) /\ Sound(Json(NewTask)) /\ Storable(NewTask)
    BY <2>3 DEF Sound, Storable, Incomplete, Reviewable
  <2>5. \/ /\ mem'[t] = NewTask /\ db'[t] = Json(NewTask) /\ coro'[t] = "scheduled"
        \/ /\ mem'[t] = NewTask /\ db'[t] = NoTask /\ coro'[t] = "none" /\ faults' # 0
    BY <2>1, <2>4 DEF Submit, SaveSucceeds, SaveRaises, Enter, Spend, FaultCost, TypeOK
  <2>6. CopiesInv(t)'
    BY <2>1, <2>2, <2>3, <2>4, <2>5
    DEF CopiesInv, Live, Held, Alive, Incomplete, Decided, Sound
  <2>7. StoredInv(t)'
    BY <2>2, <2>5 DEF StoredInv
  <2>8. BudgetInv(t)'
    <3>1. Used(t)' = 0
      BY <2>3, <2>5, BoundsAssumption DEF Used
    <3>2. QED
      BY <2>1, <2>2, <2>3, <2>5, <3>1 DEF BudgetInv, Live, Held
  <2>9. QED
    BY <2>6, <2>7, <2>8 DEF TaskInv
<1>4. QED
  BY <1>2, <1>3

\* The requests that only load a dict or ask for a cancellation.
LEMMA LoadsKeep ==
  ASSUME TypeOK, TypeOK', \A u \in Tasks : TaskInv(u), NEW t \in Tasks,
         SubmitAgain(t) \/ Read(t) \/ CancelActive(t)
  PROVE  \A u \in Tasks : TaskInv(u)'
<1>1. /\ Known(t) /\ db' = db /\ sub' = sub /\ calls' = calls /\ coro' = coro
      /\ phase' = phase /\ stops' = stops /\ faults' = faults /\ phase = "up"
  BY DEF SubmitAgain, Read, CancelActive, Serving
<1>2. /\ db[t] \in TaskRecord /\ mem[t] \in TaskRecord /\ mine[t] \in TaskRecord
      /\ Record(t) \in TaskRecord /\ Held(t) \in TaskRecord
      /\ faults \in Nat
  BY RecordType DEF TypeOK
<1>3. Json(db[t]) = db[t] /\ Sound(db[t]) /\ ~db[t].typed
  BY <1>2 DEF TaskInv, CopiesInv, Json, TaskRecord
<1>4. ASSUME NEW u \in Tasks \ {t} PROVE TaskInv(u)'
  <2>1. mem'[u] = mem[u] /\ mine'[u] = mine[u] /\ cancelling'[u] = cancelling[u]
    BY DEF SubmitAgain, Read, CancelActive, Enter, TypeOK
  <2>2. faults' >= faults
    BY <1>1, <1>2
  <2>3. QED
    BY <1>1, <2>1, <2>2, Untouched
<1>5. \/ mem'[t] = db[t]
      \/ mem'[t] = mem[t] /\ mine' = mine
  BY DEF SubmitAgain, Read, CancelActive, Record, Enter, TypeOK
<1>6. \/ mine' = mine
      \/ coro[t] = "awaiting" /\ mine[t] = NoTask /\ mine'[t] = mem[t]
  BY DEF SubmitAgain, Read, CancelActive, TypeOK
<1>7. CopiesInv(t)'
  <2>1. (\A x \in {db[t], mem[t], mine[t]} : Sound(x) /\ (x.status = "absent" => x = NoTask))'
    BY <1>1, <1>5, <1>6 DEF TaskInv, CopiesInv, Sound
  <2>2. (Live(t) => /\ db[t].status \in Incomplete
                    /\ mem[t].status \in Incomplete
                    /\ Held(t).status \in Incomplete)'
    BY <1>1, <1>5, <1>6 DEF TaskInv, CopiesInv, Live, Held
  <2>3. QED
    BY <1>1, <1>5, <1>6, <2>1, <2>2 DEF TaskInv, CopiesInv, Alive, Known
<1>8. StoredInv(t)'
  <2>1. SUFFICES ASSUME faults = 0 PROVE StoredInv(t)'
    BY <1>1 DEF StoredInv
  <2>2. Storable(mem[t]) /\ mem[t] # NoTask => mem[t].docs = db[t].docs /\ mem[t].report = db[t].report
    BY <1>2, <2>1 DEF TaskInv, StoredInv, Json, TaskRecord
  <2>3. QED
    BY <1>1, <1>3, <1>5, <1>6, <2>1, <2>2 DEF TaskInv, StoredInv, Storable, Json
<1>9. BudgetInv(t)'
  <2>1. db[t].attempt \in Nat
    BY <1>2 DEF TaskRecord
  <2>2. Live(t) => mem[t] # NoTask
    BY DEF TaskInv, CopiesInv, NoTask, Incomplete
  <2>3. (Live(t) => mem[t].attempt = db[t].attempt /\ Held(t).attempt = db[t].attempt)'
    BY <1>1, <1>5, <1>6, <2>2 DEF TaskInv, BudgetInv, Live, Held
  <2>4. (mem[t] # NoTask => mem[t].attempt >= db[t].attempt)'
    BY <1>1, <1>5, <2>1 DEF TaskInv, BudgetInv
  <2>5. QED
    BY <1>1, <2>3, <2>4 DEF TaskInv, BudgetInv, Used
<1>10. QED
  BY <1>4, <1>7, <1>8, <1>9 DEF TaskInv

-----------------------------------------------------------------------------
\* Stopping and starting the process.
LEMMA StopKeeps ==
  ASSUME TypeOK, TypeOK', NEW u \in Tasks, TaskInv(u), Gone, sub' = sub, calls' = calls,
         faults' = faults,
         \/ stops' = stops + 1 /\ Alive
         \/ stops' = stops /\ phase = "draining",
         \/ db'[u] = db[u]
         \/ /\ coro[u] = "awaiting" /\ Storable([Held(u) EXCEPT !.attempt = @ + 1])
            /\ db'[u] = Json([Held(u) EXCEPT !.attempt = @ + 1])
            /\ Held(u).attempt + 1 > RetryLimit
  PROVE  TaskInv(u)'
<1>1. /\ mem'[u] = NoTask /\ mine'[u] = NoTask /\ coro'[u] = "none" /\ phase' = "down"
  BY DEF Gone
<1>2. Sound(NoTask)
  BY DEF Sound, NoTask, Incomplete, Reviewable
<1>3. /\ db'[u].status = db[u].status \/ db'[u].status = Held(u).status
      /\ Sound(db'[u]) /\ ~db'[u].typed
      /\ db'[u].status = "absent" => db'[u] = NoTask
      /\ db'[u] # db[u] => db'[u].attempt = db[u].attempt + 1 /\ db'[u].attempt > RetryLimit
                           /\ sub[u] # NoSubmission
  <2>1. CASE db'[u] = db[u]
    BY <2>1 DEF TaskInv, CopiesInv
  <2>2. CASE /\ coro[u] = "awaiting"
             /\ db'[u] = Json([Held(u) EXCEPT !.attempt = @ + 1])
             /\ Held(u).attempt + 1 > RetryLimit
    <3>1. /\ Held(u) \in TaskRecord /\ Held(u).status \in Incomplete /\ Held(u).docs
          /\ Held(u).attempt = db[u].attempt /\ sub[u] # NoSubmission
      BY <2>2, HeldFacts DEF Live
    <3>2. /\ db'[u].status = Held(u).status /\ db'[u].docs = Held(u).docs
          /\ ~db'[u].typed /\ db'[u].attempt = Held(u).attempt + 1
      BY <2>2, <3>1 DEF Json, TaskRecord
    <3>3. QED
      BY <2>2, <3>1, <3>2 DEF Sound, Incomplete, Reviewable
  <2>3. QED
    BY <2>1, <2>2
<1>4. CopiesInv(u)'
  BY <1>1, <1>2, <1>3 DEF TaskInv, CopiesInv, Live, Sound
<1>5. StoredInv(u)'
  BY <1>1 DEF StoredInv
<1>6. BudgetInv(u)'
  <2>1. /\ db[u].attempt \in Nat /\ db'[u].attempt \in Nat /\ calls[u] \in Nat /\ stops \in Nat
    BY DEF TypeOK, TaskRecord
  <2>2. Used(u)' >= Used(u) /\ Used(u) \in Nat /\ Used(u)' \in Nat
    BY <1>3, <2>1, BoundsAssumption DEF Used
  <2>3. calls[u] <= Used(u) + stops'
    BY <2>1, <2>2 DEF TaskInv, BudgetInv
  <2>4. QED
    BY <1>1, <2>1, <2>2, <2>3 DEF TaskInv, BudgetInv, Live
<1>7. QED
  BY <1>4, <1>5, <1>6 DEF TaskInv

LEMMA ShutdownKeeps ==
  ASSUME TypeOK, TypeOK', NEW u \in Tasks, TaskInv(u), Shutdown
  PROVE  TaskInv(u)'
<1>1. /\ phase = "up" /\ phase' = "draining" /\ stops' = stops + 1 /\ stops \in Nat
      /\ db' = db /\ mem' = mem /\ mine' = mine /\ coro' = coro /\ sub' = sub
      /\ calls' = calls /\ faults' = faults
      /\ cancelling'[u] = (coro[u] \in {"scheduled", "awaiting"})
  BY DEF Shutdown, Serving, TypeOK
<1>2. CopiesInv(u)'
  BY <1>1 DEF TaskInv, CopiesInv, Sound, Live, Held, Alive
<1>3. StoredInv(u)'
  BY <1>1 DEF TaskInv, StoredInv, Storable, Json
<1>4. Used(u)' = Used(u) /\ Used(u) \in Nat /\ calls[u] \in Nat
  BY <1>1, BoundsAssumption DEF Used, TypeOK, TaskRecord
<1>5. coro[u] = "scheduled" => cancelling'[u]
  BY <1>1
<1>6. BudgetInv(u)'
  <2>1. calls'[u] <= Used(u)' + stops'
    BY <1>1, <1>4 DEF TaskInv, BudgetInv
  <2>2. (sub[u] = NoSubmission => calls[u] = 0)'
    BY <1>1 DEF TaskInv, BudgetInv
  <2>3. (phase = "draining" /\ coro[u] = "scheduled" => cancelling[u])'
    BY <1>1, <1>5
  <2>4. (/\ mem[u] # NoTask => mem[u].attempt >= db[u].attempt
         /\ Live(u) => mem[u].attempt = db[u].attempt /\ Held(u).attempt = db[u].attempt)'
    <3>1. db' = db /\ mem' = mem /\ mine' = mine /\ coro' = coro
      BY <1>1
    <3>2. QED
      BY <3>1 DEF TaskInv, BudgetInv, Live, Held
  <2>5. QED
    BY <1>1, <1>4, <2>1, <2>2, <2>3, <2>4 DEF BudgetInv
<1>7. QED
  BY <1>2, <1>3, <1>6 DEF TaskInv

LEMMA StartupKeeps ==
  ASSUME TypeOK, TypeOK', NEW u \in Tasks, TaskInv(u), Startup
  PROVE  TaskInv(u)'
<1> DEFINE parked == [db[u] EXCEPT !.status = "interrupted"]
<1>1. /\ phase = "down" /\ phase' = "up" /\ stops' = stops /\ mine' = mine /\ sub' = sub
      /\ calls' = calls /\ faults' = faults
      /\ mem[u] = NoTask /\ mine[u] = NoTask /\ coro[u] = "none"
  BY DEF Startup, TaskInv, CopiesInv, Alive
<1>2. /\ db[u] \in TaskRecord /\ Json(db[u]) = db[u] /\ ~db[u].typed /\ Sound(db[u])
      /\ sub[u] = NoSubmission => db[u] = NoTask
  BY DEF TaskInv, CopiesInv, TypeOK, Json, TaskRecord
<1>3. /\ parked.status = "interrupted" /\ ~parked.typed /\ parked.docs = db[u].docs
      /\ parked.attempt = db[u].attempt /\ Json(parked) = parked
  BY <1>2 DEF TaskRecord, Json
<1> HIDE DEF parked
<1>4. \/ /\ u \in Parked /\ db[u].status \in Incomplete
         /\ db'[u] = parked /\ mem'[u] = parked /\ coro'[u] = "none"
      \/ /\ u \in Resumed /\ db[u].status \in Incomplete
         /\ db'[u] = db[u] /\ mem'[u] = db[u] /\ coro'[u] = "scheduled"
      \/ /\ db'[u] = db[u] /\ mem'[u] = NoTask /\ coro'[u] = "none"
  BY DEF Startup, Parked, Resumed, parked
<1>5. /\ NoTask.status = "absent" /\ Sound(NoTask)
  BY DEF NoTask, Sound, Incomplete, Reviewable
<1>6. db[u].status \in Incomplete => Sound(parked) /\ sub[u] # NoSubmission
  BY <1>2, <1>3, <1>5 DEF Sound, Incomplete, Reviewable
<1>7. CopiesInv(u)'
  BY <1>1, <1>2, <1>3, <1>4, <1>5, <1>6
  DEF TaskInv, CopiesInv, Live, Held, Alive, Sound, Incomplete, Decided
<1>8. StoredInv(u)'
  BY <1>1, <1>2, <1>3, <1>4 DEF StoredInv
<1>9. BudgetInv(u)'
  <2>1. db[u].attempt \in Nat /\ calls[u] \in Nat /\ stops \in Nat
    BY DEF TypeOK, TaskRecord
  <2>2. Used(u)' = Used(u) /\ Used(u) \in Nat
    BY <1>3, <1>4, <2>1, BoundsAssumption DEF Used
  <2>3. QED
    BY <1>1, <1>3, <1>4, <2>1, <2>2 DEF TaskInv, BudgetInv, Live, Held
<1>10. QED
  BY <1>7, <1>8, <1>9 DEF TaskInv

LEMMA ProcessKeeps ==
  ASSUME TypeOK, TypeOK', \A u \in Tasks : TaskInv(u),
         Process \/ \E t \in Tasks : CrashBetweenSaves(t)
  PROVE  \A u \in Tasks : TaskInv(u)'
<1>1. CASE Crash \/ Drained
  <2>1. TAKE u \in Tasks
  <2>2. /\ Gone /\ sub' = sub /\ calls' = calls /\ faults' = faults /\ db' = db
        /\ \/ stops' = stops + 1 /\ Alive
           \/ stops' = stops /\ phase = "draining"
    BY <1>1 DEF Crash, Drained
  <2>3. QED
    BY <2>2, StopKeeps
<1>2. ASSUME NEW t \in Tasks, CrashBetweenSaves(t)
      PROVE  \A u \in Tasks : TaskInv(u)'
  <2>1. TAKE u \in Tasks
  <2> DEFINE r == [Held(t) EXCEPT !.attempt = @ + 1]
  <2>2. /\ Alive /\ stops' = stops + 1 /\ Gone /\ sub' = sub /\ calls' = calls /\ faults' = faults
        /\ coro[t] = "awaiting" /\ Storable(r) /\ r.attempt > RetryLimit
        /\ db'[t] = Json(r) /\ \A v \in Tasks \ {t} : db'[v] = db[v]
    BY <1>2 DEF CrashBetweenSaves, TypeOK
  <2>3. r.attempt = Held(t).attempt + 1
    BY RecordType DEF TaskRecord
  <2>4. QED
    BY <2>2, <2>3, StopKeeps
<1>3. QED
  BY <1>1, <1>2, ShutdownKeeps, StartupKeeps DEF Process

-----------------------------------------------------------------------------
\* Every other step leaves a row alone, unless the row is incomplete.
LEMMA OtherSteps ==
  ASSUME TypeOK, \A u \in Tasks : TaskInv(u),
         \/ \E t \in Tasks : \/ SubmitAgain(t) \/ Read(t) \/ CancelActive(t)
                             \/ Coroutine(t) \/ CrashBetweenSaves(t)
         \/ Process
  PROVE  /\ sub' = sub
         /\ \A u \in Tasks : db'[u] = db[u] \/ db[u].status \in Incomplete
<1>1. ASSUME NEW t \in Tasks, SubmitAgain(t) \/ Read(t) \/ CancelActive(t)
      PROVE  sub' = sub /\ db' = db
  BY <1>1 DEF SubmitAgain, Read, CancelActive
<1>2. ASSUME NEW t \in Tasks, Coroutine(t)
      PROVE  /\ sub' = sub
             /\ \A u \in Tasks : db'[u] = db[u] \/ db[u].status \in Incomplete
  <2>1. sub' = sub
    BY <1>2 DEF Coroutine, Outcome, Start, CancelledBeforeStart, RunnerReturns,
                RunnerTransient, RunnerRaises, RunnerCancelled, Reaped
  <2>2. db' = db \/ Live(t)
    BY <1>2 DEF Coroutine, Outcome, Start, CancelledBeforeStart, RunnerReturns,
                RunnerTransient, RunnerRaises, RunnerCancelled, Reaped, Live
  <2>3. Live(t) => db[t].status \in Incomplete
    BY DEF TaskInv, CopiesInv
  <2>4. \A u \in Tasks \ {t} : db'[u] = db[u]
    BY <1>2, CoroutineFrame
  <2>5. QED
    BY <2>1, <2>2, <2>3, <2>4
<1>3. ASSUME NEW t \in Tasks, CrashBetweenSaves(t)
      PROVE  /\ sub' = sub
             /\ \A u \in Tasks : db'[u] = db[u] \/ db[u].status \in Incomplete
  BY <1>3 DEF CrashBetweenSaves, TaskInv, CopiesInv, Live, TypeOK
<1>4. CASE Process
  <2>1. CASE Crash \/ Shutdown \/ Drained
    BY <2>1 DEF Crash, Shutdown, Drained
  <2>2. CASE Startup
    BY <2>2 DEF Startup, Parked
  <2>3. QED
    BY <1>4, <2>1, <2>2 DEF Process
<1>5. QED
  BY <1>1, <1>2, <1>3, <1>4

\* What a saving handler does to the rows.
LEMMA SavingRows ==
  ASSUME TypeOK, \A u \in Tasks : TaskInv(u), NEW t \in Tasks, Saving(t)
  PROVE  /\ sub' = sub /\ Known(t)
         /\ \A u \in Tasks \ {t} : db'[u] = db[u]
         /\ \/ db'[t] = db[t]
            \/ \E r \in TaskRecord, said \in SUBSET Comments :
                 Fits(t, r, said) /\ db'[t] = Json(r) /\ Storable(r)
<1>1. PICK r \in TaskRecord, said \in SUBSET Comments : Fits(t, r, said)
  BY SavingFits
<1>2. QED
  BY <1>1, SavingFits, SaveEffect DEF Fits, Write

\* A submission writes at most the row of a task that had none.
LEMMA SubmitRows ==
  ASSUME TypeOK, \A u \in Tasks : TaskInv(u), NEW t \in Tasks,
         NEW s \in Submission, Submit(t, s)
  PROVE  /\ db[t] = NoTask /\ sub' = [sub EXCEPT ![t] = s]
         /\ db'[t] = db[t] \/ db'[t] = Json(NewTask)
         /\ \A u \in Tasks \ {t} : db'[u] = db[u]
<1>1. db[t] = NoTask
  BY DEF Submit, TaskInv, CopiesInv
<1>2. SaveSucceeds(t, NewTask) \/ SaveRaises(t, NewTask)
  BY DEF Submit
<1>3. QED
  BY <1>1, <1>2, SaveEffect, InitialRecords DEF Submit

\* The kinds of steps.
LEMMA Steps ==
  ASSUME Next
  PROVE  \/ \E t \in Tasks, s \in Submission : s.tenant # NoTenant /\ Submit(t, s)
         \/ \E t \in Tasks : Saving(t)
         \/ \E t \in Tasks : \/ SubmitAgain(t) \/ Read(t) \/ CancelActive(t)
                             \/ Coroutine(t) \/ CrashBetweenSaves(t)
         \/ Process
BY DEF Next, Request, Saving

-----------------------------------------------------------------------------
\* A key stays unique, because a submission with a used key creates nothing.
LEMMA KeyStaysOnce ==
  ASSUME TypeOK, \A u \in Tasks : TaskInv(u), IdempotentOnce, Next
  PROVE  IdempotentOnce'
<1>1. ASSUME sub' = sub, \A u \in Tasks : Known(u)' => Known(u)
      PROVE  IdempotentOnce'
  BY <1>1 DEF IdempotentOnce
<1>2. ASSUME NEW t \in Tasks, NEW s \in Submission, Submit(t, s)
      PROVE  IdempotentOnce'
  <2>1. SUFFICES ASSUME NEW u \in Tasks, NEW v \in Tasks,
                        Known(u)', Known(v)', (sub[u].key # NoKey)',
                        (sub[u].key = sub[v].key /\ sub[u].tenant = sub[v].tenant)'
                 PROVE  u = v
    BY DEF IdempotentOnce
  <2>2. \A w \in Tasks \ {t} : db'[w] = db[w] /\ sub'[w] = sub[w]
    BY <1>2, SubmitRows DEF TypeOK
  <2>3. sub'[t] = s
    BY <1>2, SubmitRows DEF TypeOK
  <2>4. \A w \in Tasks \ {t} : Known(w)' => Known(w)
    BY <2>2 DEF Known
  <2>5. CASE u # t /\ v # t
    BY <2>1, <2>2, <2>4, <2>5 DEF IdempotentOnce
  <2>6. s.key # NoKey => \A w \in Tasks : ~(Known(w) /\ sub[w].tenant = s.tenant /\ sub[w].key = s.key)
    BY <1>2 DEF Submit, SameRequest
  <2>7. QED
    BY <2>1, <2>2, <2>3, <2>4, <2>5, <2>6
<1>3. ASSUME NEW t \in Tasks, Saving(t)
      PROVE  IdempotentOnce'
  BY <1>1, <1>3, SavingRows DEF Known
<1>4. ASSUME \/ \E t \in Tasks : \/ SubmitAgain(t) \/ Read(t) \/ CancelActive(t)
                                 \/ Coroutine(t) \/ CrashBetweenSaves(t)
             \/ Process
      PROVE  IdempotentOnce'
  <2>1. NoTask.status \notin Incomplete
    BY DEF NoTask, Incomplete
  <2>2. QED
    BY <1>1, <1>4, <2>1, OtherSteps DEF Known
<1>5. QED
  BY <1>2, <1>3, <1>4, Steps

\* What outlives a stop stays sound.
LEMMA DurableInvariance == Spec => []Durable
<1>1. Init => Durable
  <2>1. SUFFICES ASSUME Init PROVE Durable
    OBVIOUS
  <2>2. TypeOK
    BY <2>1, InitialRecords DEF Init, TypeOK, Submission, NoSubmission
  <2>3. IdempotentOnce
    BY <2>1 DEF Init, IdempotentOnce, Known
  <2>4. ASSUME NEW t \in Tasks PROVE CopiesInv(t) /\ StoredInv(t) /\ BudgetInv(t)
    BY <2>1, BoundsAssumption
    DEF Init, CopiesInv, StoredInv, BudgetInv, Sound, Live, Alive, Used, NoTask,
        Incomplete, Reviewable, Decided
  <2>5. QED
    BY <2>2, <2>3, <2>4 DEF Durable
<1>2. Durable /\ [Next]_vars => Durable'
  <2>1. SUFFICES ASSUME Durable, [Next]_vars PROVE Durable'
    OBVIOUS
  <2>2. TypeOK /\ IdempotentOnce /\ \A t \in Tasks : TaskInv(t)
    BY <2>1 DEF Durable, TaskInv
  <2>3. CASE UNCHANGED vars
    <3>1. TypeOK'
      BY <2>2, <2>3 DEF vars, TypeOK
    <3>2. IdempotentOnce'
      BY <2>2, <2>3 DEF vars, IdempotentOnce, Known
    <3>3. \A t \in Tasks : TaskInv(t)'
      <4>1. faults' >= faults
        BY <2>2, <2>3 DEF vars, TypeOK
      <4>2. QED
        BY <2>2, <2>3, <3>1, <4>1, Untouched DEF vars
    <3>4. QED
      BY <3>1, <3>2, <3>3 DEF Durable, TaskInv
  <2>4. CASE Next
    <3>1. TypeOK'
      BY <2>2, <2>4, RequestTypes, CoroutineTypes, ProcessTypes DEF Next
    <3>2. IdempotentOnce'
      BY <2>2, <2>4, KeyStaysOnce
    <3>3. \A t \in Tasks : TaskInv(t)'
      BY <2>2, <2>4, <3>1, Steps, SubmitKeeps, SavingKeeps, LoadsKeep, CoroutineKeeps, ProcessKeeps
    <3>4. QED
      BY <3>1, <3>2, <3>3 DEF Durable, TaskInv
  <2>5. QED
    BY <2>1, <2>3, <2>4
<1>3. QED
  BY <1>1, <1>2, PTL DEF Spec

\* A tenant's idempotency key names at most one durable task, whatever
\* saves fail and whenever the process stops.
THEOREM OneTaskPerKey == Spec => []IdempotentOnce
<1>1. Durable => IdempotentOnce
  BY DEF Durable
<1>2. QED
  BY <1>1, DurableInvariance, PTL

\* A row always holds the inputs to run the task again, or its outcome.
THEOREM AlwaysRecoverable == Spec => []Recoverable
<1>1. Durable => Recoverable
  BY DEF Durable, CopiesInv, Recoverable
<1>2. QED
  BY <1>1, DurableInvariance, PTL

\* The runner is called at most retry_limit + 1 times and once more for each
\* stop of the process.
THEOREM BoundedCalls == Spec => []RetryBudget
<1>1. Durable => RetryBudget
  <2>1. SUFFICES ASSUME Durable, NEW t \in Tasks PROVE calls[t] <= RetryLimit + 1 + stops
    BY DEF RetryBudget
  <2>2. /\ calls[t] \in Nat /\ stops \in Nat /\ db[t].attempt \in Nat /\ RetryLimit \in Nat
    BY <2>1, BoundsAssumption DEF Durable, TypeOK, TaskRecord
  <2>3. Used(t) \in Nat /\ Used(t) <= RetryLimit
    BY <2>2 DEF Used
  <2>4. calls[t] <= Used(t) + stops + 1
    BY <2>1, <2>2, <2>3 DEF Durable, BudgetInv
  <2>5. QED
    BY <2>2, <2>3, <2>4
<1>2. QED
  BY <1>1, DurableInvariance, PTL

\* Where every dict can be stored and no save fails, what the API shows of a
\* task is what it would show after a restart.
THEOREM TableIsCoherent == Spec => []Coherent
<1>1. Durable => Coherent
  BY DEF Durable, StoredInv, Coherent, Storable
<1>2. QED
  BY <1>1, DurableInvariance, PTL

\* A decision that is recorded stands, whatever saves fail, and a completed
\* task changes only after a save failed.
THEOREM DecisionsStand == Spec => DecisionStands
<1> DEFINE Stands == \A t \in Tasks :
                       \/ db[t].status \in Decided
                       \/ db[t].status = "completed" /\ faults' = 0
                       => db'[t].status = db[t].status
<1>1. Durable /\ Durable' /\ [Next]_vars => [Stands]_vars
  <2>1. SUFFICES ASSUME Durable, Durable', Next PROVE Stands
    OBVIOUS
  <2>2. TypeOK /\ \A t \in Tasks : TaskInv(t)
    BY <2>1 DEF Durable, TaskInv
  <2>3. \A x \in Decided \cup {"completed"} : x \notin Incomplete \cup Reviewable \cup {"absent"} /\ x \in Terminal
    BY DEF Decided, Incomplete, Reviewable, Terminal
  <2>4. ASSUME NEW t \in Tasks, NEW s \in Submission, Submit(t, s) PROVE Stands
    <3>1. NoTask.status = "absent"
      BY DEF NoTask
    <3>2. QED
      BY <2>2, <2>3, <2>4, <3>1, SubmitRows
  <2>5. ASSUME NEW t \in Tasks, Saving(t) PROVE Stands
    <3>1. ASSUME NEW r \in TaskRecord, NEW said \in SUBSET Comments, Fits(t, r, said),
                 db'[t] = Json(r),
                 db[t].status \in Decided \/ (db[t].status = "completed" /\ faults = 0)
          PROVE  db'[t].status = db[t].status
      <4>1. Record(t).status = db[t].status
        BY <2>2, <3>1 DEF TaskInv, CopiesInv, Record
      <4>2. r.status = Record(t).status
        BY <2>3, <3>1, <4>1 DEF Fits
      <4>3. Json(r).status = r.status
        BY DEF Json, TaskRecord
      <4>4. QED
        BY <3>1, <4>1, <4>2, <4>3
    <3>2. faults' = 0 => faults = 0
      <4>1. PICK r \in TaskRecord, said \in SUBSET Comments : Fits(t, r, said)
        BY <2>2, <2>5, SavingFits
      <4>2. faults' >= faults
        BY <2>2, <4>1, SaveEffect DEF Fits, Write
      <4>3. QED
        BY <2>2, <4>2 DEF TypeOK
    <3>3. QED
      BY <2>2, <2>5, <3>1, <3>2, SavingRows
  <2>6. ASSUME \/ \E t \in Tasks : \/ SubmitAgain(t) \/ Read(t) \/ CancelActive(t)
                                   \/ Coroutine(t) \/ CrashBetweenSaves(t)
               \/ Process
        PROVE  Stands
    BY <2>2, <2>3, <2>6, OtherSteps
  <2>7. QED
    BY <2>1, <2>4, <2>5, <2>6, Steps
<1> HIDE DEF Stands
<1>2. Spec => [][Stands]_vars
  BY <1>1, DurableInvariance, PTL DEF Spec
<1>3. QED
  BY <1>2 DEF Stands, DecisionStands
-----------------------------------------------------------------------------
(***************************************************************************)
(* The lifecycle.  What a step does to the rows is a step of TaskLifecycle, *)
(* or one that the lifecycle does not see, because what the table holds is *)
(* never further than one step of the lifecycle ahead of the row.          *)
(***************************************************************************)
Moved(old, new) ==
  \/ Accepted(old, new) \/ Delivered(old, new) \/ Closed(old, new)
  \/ Broken(old, new) /\ faults' > 0

\* Where one task moves and the others stay, the lifecycle makes a step.
LEMMA LifecycleStep ==
  ASSUME TypeOK, TypeOK', NEW t \in Tasks, faults' >= faults,
         \A u \in Tasks \ {t} : SameStage(db[u], db'[u]),
         Moved(db[t], db'[t])
  PROVE  Lifecycle!Next
<1> DEFINE stage == [u \in Tasks |-> StageOf(db[u].status)]
           inputs == [u \in Tasks |-> db[u].docs]
           report == [u \in Tasks |-> db[u].report]
<1>1. ASSUME NEW from, NEW to, StageOf(db[t].status) = from, StageOf(db'[t].status) = to
      PROVE  Lifecycle!Moves(t, from, to)
  <2>1. stage[t] = from /\ stage' = [stage EXCEPT ![t] = to]
    BY <1>1 DEF SameStage
  <2>2. QED
    BY <2>1 DEF Lifecycle!Moves
<1>2. inputs' = [inputs EXCEPT ![t] = db'[t].docs] /\ report' = [report EXCEPT ![t] = db'[t].report]
  BY DEF SameStage
<1>3. db'[t].docs = db[t].docs => inputs' = inputs
  BY <1>2
<1>4. db'[t].report = db[t].report => report' = report
  BY <1>2
<1>5. \A s \in Incomplete : StageOf(s) = "open"
  BY DEF StageOf, Incomplete, Reviewable
<1>6. /\ StageOf("absent") = "none" /\ \A s \in Reviewable : StageOf(s) = "draft"
      /\ \A s \in {"completed", "failed", "cancelled", "approved", "rejected"} : StageOf(s) = s
  BY DEF StageOf, Incomplete, Reviewable
<1>7. db[t] \in TaskRecord /\ db'[t] \in TaskRecord
  BY DEF TypeOK
<1>8. ~db'[t].docs /\ db'[t].report => Lifecycle!ReportReplacesInputs(t)
  <2>1. ~db'[t].docs /\ db'[t].report => db'[t].docs = FALSE /\ db'[t].report = TRUE
    BY <1>7 DEF TaskRecord
  <2>2. QED
    BY <1>2, <2>1 DEF Lifecycle!ReportReplacesInputs
<1>9. faults > 0 => faults' > 0
  BY DEF TypeOK
<1>10. SUFFICES \/ Lifecycle!Accept(t) \/ Lifecycle!Deliver(t) \/ Lifecycle!GiveUp(t)
                \/ Lifecycle!Decide(t) \/ Lifecycle!Break(t)
  BY <1>9 DEF Lifecycle!Next
<1>11. CASE Accepted(db[t], db'[t])
  <2>1. Lifecycle!Moves(t, "none", "open")
    BY <1>1, <1>5, <1>6, <1>11 DEF Accepted
  <2>2. db'[t].docs = TRUE
    BY <1>7, <1>11 DEF TaskRecord, Accepted
  <2>3. QED
    BY <1>2, <1>4, <1>11, <2>1, <2>2 DEF Lifecycle!Accept, Accepted
<1>12. CASE Delivered(db[t], db'[t])
  <2>1. Lifecycle!Moves(t, "open", "draft") \/ Lifecycle!Moves(t, "open", "completed")
    BY <1>1, <1>5, <1>6, <1>12 DEF Reviewable, Delivered
  <2>2. QED
    BY <1>8, <1>12, <2>1 DEF Lifecycle!Deliver, Delivered
<1>13. CASE Closed(db[t], db'[t])
  <2>1. UNCHANGED <<inputs, report>>
    BY <1>3, <1>4, <1>13 DEF Closed
  <2>2. CASE db[t].status \in Incomplete /\ db'[t].status \in {"failed", "cancelled"}
    <3>1. Lifecycle!Moves(t, "open", "failed") \/ Lifecycle!Moves(t, "open", "cancelled")
      BY <1>1, <1>5, <1>6, <2>2
    <3>2. QED
      BY <2>1, <3>1 DEF Lifecycle!GiveUp
  <2>3. CASE db[t].status \in Reviewable /\ db'[t].status \in {"approved", "rejected"}
    <3>1. Lifecycle!Moves(t, "draft", "approved") \/ Lifecycle!Moves(t, "draft", "rejected")
      BY <1>1, <1>6, <2>3
    <3>2. QED
      BY <2>1, <3>1 DEF Lifecycle!Decide
  <2>4. QED
    BY <1>13, <2>2, <2>3 DEF Closed
<1>14. CASE Broken(db[t], db'[t]) /\ faults' > 0
  <2>1. \/ Lifecycle!Moves(t, "open", "failed") \/ Lifecycle!Moves(t, "draft", "failed")
        \/ Lifecycle!Moves(t, "completed", "failed")
    BY <1>1, <1>5, <1>6, <1>14 DEF Broken
  <2>2. QED
    BY <1>8, <1>14, <2>1 DEF Lifecycle!Break, Broken
<1>15. QED
  BY <1>11, <1>12, <1>13, <1>14 DEF Moved

\* Where no task moves, at most a mishap is noted.
LEMMA LifecycleStutter ==
  ASSUME TypeOK, TypeOK', \A u \in Tasks : SameStage(db[u], db'[u]), faults' >= faults
  PROVE  Lifecycle!Next
<1>1. faults > 0 => faults' > 0
  BY DEF TypeOK
<1>2. QED
  BY <1>1 DEF SameStage, Lifecycle!taskVars, Lifecycle!Next

-----------------------------------------------------------------------------
\* Which of the ways between copies a status is at the end of.
LEMMA Ways ==
  ASSUME NEW r \in TaskRecord, NEW x \in TaskRecord
  PROVE  /\ SameStage(r, r) /\ SameStage(Json(r), r)
         /\ SameStage(r, x) /\ x.status \in Incomplete => r.status \in Incomplete
         /\ SameStage(r, x) /\ x.status \in Reviewable => r.status \in Reviewable
         /\ r.status \in Incomplete /\ x.status \in Incomplete
              /\ x.docs = r.docs /\ x.report = r.report => SameStage(r, x)
         /\ r.status \in Reviewable /\ x.status \in Reviewable
              /\ x.docs = r.docs /\ x.report = r.report => SameStage(r, x)
BY DEF SameStage, StageOf, Json, TaskRecord, Statuses, Incomplete, Terminal, Reviewable, Decided

\* A row shows what the dict shows that was saved.
LEMMA JsonShows ==
  ASSUME NEW r \in TaskRecord
  PROVE  /\ Json(r) \in TaskRecord /\ Json(r).status = r.status
         /\ Json(r).docs = r.docs /\ Json(r).report = r.report
BY RecordUpdates DEF Json, TaskRecord

\* What an untouched task keeps.
LEMMA AheadUntouched ==
  ASSUME TypeOK, TypeOK', NEW u \in Tasks, AheadInv(u),
         db'[u] = db[u], mem'[u] = mem[u], mine'[u] = mine[u], faults' >= faults
  PROVE  AheadInv(u)'
<1>1. faults > 0 => faults' > 0
  BY DEF TypeOK
<1>2. QED
  BY <1>1 DEF AheadInv, Ahead, Storable

\* The tasks that a step is not about stay, and the lifecycle makes at most
\* one step of the other.
Follows(t) ==
  /\ \A u \in Tasks : AheadInv(u)'
  /\ \A u \in Tasks \ {t} : db'[u] = db[u]
  /\ SameStage(db[t], db'[t]) \/ Moved(db[t], db'[t])
  /\ faults' >= faults

\* What a handler writes follows on the row, although what it found may be ahead.
LEMMA WritesAhead ==
  ASSUME TypeOK, NEW t \in Tasks, TaskInv(t), AheadInv(t), Known(t),
         NEW r \in TaskRecord, NEW said, Fits(t, r, said)
  PROVE  /\ r.docs # r.report
         /\ Ahead(db[t], r, faults) /\ ~Accepted(db[t], r)
<1> DEFINE x == Record(t)
<1>1. /\ x \in TaskRecord /\ x.status # "absent" /\ db[t] \in TaskRecord
      /\ db[t].status # "absent"
  BY RecordFacts DEF TypeOK, TaskInv, CopiesInv, Known
<1>2. x.docs # x.report
  BY <1>1 DEF AheadInv, Record
<1>3. ~Accepted(db[t], x) /\ ~Accepted(db[t], r)
  BY <1>1 DEF Accepted
<1>4. Ahead(db[t], x, faults)
  <2>1. CASE mem[t] = NoTask
    BY <1>1, <2>1, Ways DEF Record, Ahead
  <2>2. CASE mem[t] # NoTask
    BY <2>2 DEF Record, AheadInv
  <2>3. QED
    BY <2>1, <2>2
<1>5. /\ r.docs = x.docs /\ r.report = x.report /\ r.typed = x.typed
      /\ \/ r.status = x.status
         \/ x.status \in Reviewable /\ r.status \in Reviewable \cup {"approved", "rejected"}
         \/ x.status \notin Terminal /\ r.status = "cancelled"
  BY DEF Fits
<1> HIDE DEF x
<1>6. CASE r.status = x.status
  BY <1>2, <1>3, <1>4, <1>5, <1>6 DEF Ahead, SameStage, Closed, Broken, Storable
<1>7. CASE x.status \in Reviewable /\ r.status \in Reviewable \cup {"approved", "rejected"}
  <2>1. SameStage(db[t], x)
    BY <1>3, <1>4, <1>7 DEF Ahead, Closed, Broken, Reviewable
  <2>2. db[t].status \in Reviewable /\ r.docs = db[t].docs /\ r.report = db[t].report
    BY <1>1, <1>5, <1>7, <2>1, Ways DEF SameStage
  <2>3. SameStage(db[t], r) \/ Closed(db[t], r)
    BY <1>1, <1>7, <2>2, Ways DEF Closed
  <2>4. QED
    BY <1>2, <1>3, <1>5, <2>3 DEF Ahead
<1>8. CASE x.status \notin Terminal /\ r.status = "cancelled"
  <2>1. x.status \in Incomplete
    BY <1>1, <1>8 DEF TaskRecord, Statuses
  <2>2. SameStage(db[t], x)
    BY <1>3, <1>4, <2>1 DEF Ahead, Closed, Broken, Incomplete
  <2>3. db[t].status \in Incomplete /\ r.docs = db[t].docs /\ r.report = db[t].report
    BY <1>1, <1>5, <2>1, <2>2, Ways DEF SameStage
  <2>4. Closed(db[t], r)
    BY <1>8, <2>3 DEF Closed
  <2>5. QED
    BY <1>2, <1>3, <1>5, <2>4 DEF Ahead
<1>9. QED
  BY <1>2, <1>3, <1>5, <1>6, <1>7, <1>8

LEMMA SavingFollows ==
  ASSUME TypeOK, TypeOK', \A u \in Tasks : TaskInv(u) /\ AheadInv(u), NEW t \in Tasks, Saving(t)
  PROVE  Follows(t)
<1>1. PICK r \in TaskRecord, said \in SUBSET Comments : Fits(t, r, said)
  BY SavingFits
<1>2. Known(t) /\ Write(t, r, said)
  BY <1>1, SavingFits DEF Fits
<1>3. /\ mem'[t] = r /\ mine' = mine /\ faults' >= faults
      /\ \A u \in Tasks \ {t} : mem'[u] = mem[u] /\ db'[u] = db[u]
      /\ \/ Storable(r) /\ db'[t] = Json(r) /\ faults' = faults
         \/ db'[t] = db[t]
  BY <1>2, SaveEffect DEF Write
<1>4. /\ r.docs # r.report /\ Ahead(db[t], r, faults) /\ ~Accepted(db[t], r)
  BY <1>1, <1>2, WritesAhead
<1>5. /\ db[t] \in TaskRecord /\ faults \in Nat /\ faults' \in Nat
      /\ Json(r).status = r.status /\ Json(r).docs = r.docs /\ Json(r).report = r.report
  BY JsonShows DEF TypeOK
<1>6. AheadInv(t)'
  <2>1. CASE db'[t] = Json(r)
    BY <1>3, <1>4, <1>5, <2>1, Ways DEF AheadInv, Ahead
  <2>2. CASE db'[t] = db[t]
    <3>1. Ahead(db[t], r, faults')
      BY <1>3, <1>4, <1>5 DEF Ahead
    <3>2. QED
      BY <1>3, <1>4, <2>2, <3>1 DEF AheadInv
  <2>3. QED
    BY <1>3, <2>1, <2>2
<1>7. SameStage(db[t], db'[t]) \/ Moved(db[t], db'[t])
  <2>1. CASE Storable(r) /\ db'[t] = Json(r) /\ faults' = faults
    BY <1>4, <1>5, <2>1 DEF Ahead, SameStage, Closed, Broken, Moved
  <2>2. CASE db'[t] = db[t]
    BY <1>5, <2>2, Ways
  <2>3. QED
    BY <1>3, <2>1, <2>2
<1>8. \A u \in Tasks \ {t} : AheadInv(u)'
  BY <1>3, AheadUntouched
<1>9. QED
  BY <1>3, <1>6, <1>7, <1>8 DEF Follows

LEMMA SubmitFollows ==
  ASSUME TypeOK, TypeOK', \A u \in Tasks : TaskInv(u) /\ AheadInv(u), NEW t \in Tasks,
         NEW s \in Submission, Submit(t, s)
  PROVE  Follows(t)
<1>1. SaveSucceeds(t, NewTask) \/ SaveRaises(t, NewTask)
  BY DEF Submit
<1>2. /\ mem'[t] = NewTask /\ mine' = mine /\ faults' >= faults
      /\ \A u \in Tasks \ {t} : mem'[u] = mem[u] /\ db'[u] = db[u]
      /\ db'[t] = Json(NewTask) \/ db'[t] = db[t]
  BY <1>1, SaveEffect, InitialRecords DEF Submit
<1>3. db[t] = NoTask
  BY SubmitRows
<1>4. /\ Accepted(NoTask, NewTask) /\ Accepted(NoTask, Json(NewTask))
      /\ NoTask.status = "absent" /\ NewTask.docs # NewTask.report
      /\ Json(NewTask).docs # Json(NewTask).report
  BY DEF Accepted, NoTask, NewTask, Json, Incomplete
<1>5. SameStage(NoTask, NoTask) /\ SameStage(Json(NewTask), NewTask)
  BY Ways, InitialRecords
<1>6. AheadInv(t)'
  BY <1>2, <1>3, <1>4, <1>5 DEF AheadInv, Ahead
<1>7. SameStage(db[t], db'[t]) \/ Moved(db[t], db'[t])
  BY <1>2, <1>3, <1>4, <1>5 DEF Moved
<1>8. \A u \in Tasks \ {t} : AheadInv(u)'
  BY <1>2, AheadUntouched
<1>9. QED
  BY <1>2, <1>6, <1>7, <1>8 DEF Follows

\* The requests that write no row.
LEMMA LoadsFollow ==
  ASSUME TypeOK, TypeOK', \A u \in Tasks : TaskInv(u) /\ AheadInv(u), NEW t \in Tasks,
         SubmitAgain(t) \/ Read(t) \/ CancelActive(t)
  PROVE  Follows(t)
<1>1. /\ db' = db /\ faults' = faults
      /\ \A u \in Tasks \ {t} : mem'[u] = mem[u] /\ mine'[u] = mine[u]
      /\ mem'[t] \in {db[t], Record(t)} /\ mine'[t] \in {mine[t], mem[t]}
  BY DEF SubmitAgain, Read, CancelActive, Enter, TypeOK
<1>2. mem'[t] \in {db[t], mem[t]}
  BY <1>1 DEF Record
<1>3. \A u \in Tasks : db[u] \in TaskRecord /\ SameStage(db[u], db[u])
  BY Ways DEF TypeOK
<1>4. AheadInv(t)'
  BY <1>1, <1>2, <1>3 DEF AheadInv, Ahead
<1>5. faults' >= faults
  BY <1>1 DEF TypeOK
<1>6. \A u \in Tasks \ {t} : AheadInv(u)'
  BY <1>1, <1>5, AheadUntouched
<1>7. QED
  BY <1>1, <1>3, <1>4, <1>5, <1>6 DEF Follows

-----------------------------------------------------------------------------
\* While a coroutine lives, row and dict hold the inputs and no report.
LEMMA LiveCopies ==
  ASSUME TypeOK, NEW t \in Tasks, TaskInv(t), AheadInv(t), Live(t)
  PROVE  /\ \A r \in {db[t], Held(t)} :
              r \in TaskRecord /\ r.status \in Incomplete /\ r.docs /\ ~r.report
         /\ coro[t] = "scheduled" => Held(t) = mem[t]
<1>1. /\ Held(t) \in TaskRecord /\ Held(t).status \in Incomplete /\ Held(t).docs
      /\ db[t] \in TaskRecord /\ db[t].status \in Incomplete /\ db[t].docs
      /\ coro[t] = "scheduled" => Held(t) = mem[t]
  BY HeldFacts DEF TypeOK
<1>2. Held(t) \in {mem[t], mine[t]}
  BY DEF Held
<1>3. "absent" \notin Incomplete
  BY DEF Incomplete
<1>4. \A r \in {db[t], Held(t)} : r.docs # r.report
  BY <1>1, <1>2, <1>3 DEF AheadInv
<1>5. \A r \in {db[t], Held(t)} : r.docs \in BOOLEAN /\ r.report \in BOOLEAN
  BY <1>1 DEF TaskRecord
<1>6. QED
  BY <1>1, <1>4, <1>5

\* A coroutine that keeps inputs and report, and the task open, failed or
\* cancelled, follows on the row.
LEMMA GoesOn ==
  ASSUME TypeOK, TypeOK', NEW t \in Tasks, TaskInv(t), AheadInv(t), Live(t),
         NEW r \in TaskRecord, r.docs, ~r.report,
         r.status \in Incomplete \cup {"failed", "cancelled"},
         NEW row \in TaskRecord, row = db[t] \/ row = Json(r)
                                 \/ (row.status \in Incomplete /\ row.docs /\ ~row.report),
         mem'[t] = r, db'[t] = row, mine'[t] \in {mine[t], NoTask}
  PROVE  AheadInv(t)' /\ (SameStage(db[t], row) \/ Closed(db[t], row))
<1>1. /\ db[t] \in TaskRecord /\ db[t].status \in Incomplete /\ db[t].docs /\ ~db[t].report
  BY LiveCopies
<1>2. /\ Json(r) \in TaskRecord /\ Json(r).status = r.status
      /\ Json(r).docs = r.docs /\ Json(r).report = r.report
  BY JsonShows
<1>3. \A x \in TaskRecord : x.docs /\ ~x.report => x.docs = TRUE /\ x.report = FALSE
  BY DEF TaskRecord
<1>4. ASSUME NEW old \in TaskRecord, NEW new \in TaskRecord,
             old.status \in Incomplete, old.docs, ~old.report,
             new.status \in Incomplete \cup {"failed", "cancelled"}, new.docs, ~new.report
      PROVE  SameStage(old, new) \/ Closed(old, new)
  BY <1>3, <1>4, Ways DEF Closed
<1>5. row.docs # row.report /\ r.docs # r.report /\ NoTask.status = "absent"
  BY <1>1, <1>2, <1>3 DEF NoTask
<1>6. Ahead(row, r, faults')
  BY <1>1, <1>2, <1>4, Ways DEF Ahead
<1>7. AheadInv(t)'
  BY <1>5, <1>6 DEF AheadInv
<1>8. SameStage(db[t], row) \/ Closed(db[t], row)
  BY <1>1, <1>2, <1>4, Ways
<1>9. QED
  BY <1>7, <1>8

\* The steps of the coroutine, seen from its own row.
LEMMA StartFollows ==
  ASSUME TypeOK, TypeOK', NEW t \in Tasks, TaskInv(t), AheadInv(t), Start(t)
  PROVE  /\ AheadInv(t)' /\ (SameStage(db[t], db'[t]) \/ Moved(db[t], db'[t]))
         /\ faults' >= faults
<1> DEFINE r == [mem[t] EXCEPT !.status = "running"]
<1>1. Live(t) /\ mine' = mine
  BY DEF Start, Live
<1>2. /\ mem[t] \in TaskRecord /\ mem[t].docs /\ ~mem[t].report
  BY <1>1, LiveCopies DEF Start
<1>3. r \in TaskRecord /\ r.docs /\ ~r.report /\ r.status \in Incomplete
  BY <1>2, RecordUpdates DEF TaskRecord, Statuses, Incomplete
<1>4. SaveSucceeds(t, r) \/ SaveRaises(t, r)
  BY DEF Start
<1> HIDE DEF r
<1>5. mem'[t] = r /\ faults' >= faults /\ (db'[t] = Json(r) \/ db'[t] = db[t])
  BY <1>3, <1>4, SaveEffect
<1>6. QED
  BY <1>1, <1>3, <1>5, GoesOn DEF Moved, TypeOK

LEMMA RunnerReturnsFollows ==
  ASSUME TypeOK, TypeOK', NEW t \in Tasks, TaskInv(t), AheadInv(t), RunnerReturns(t)
  PROVE  /\ AheadInv(t)' /\ (SameStage(db[t], db'[t]) \/ Moved(db[t], db'[t]))
         /\ faults' >= faults
<1> DEFINE r == [Held(t) EXCEPT
              !.status = IF sub[t].collaborative THEN "review_pending" ELSE "completed",
              !.report = TRUE, !.tracking = FALSE, !.docs = FALSE]
           f == [r EXCEPT !.status = "failed"]
           rows == [db EXCEPT ![t] = Json(r)]
<1>1. Live(t)
  BY DEF RunnerReturns, Live
<1>2. /\ Held(t) \in TaskRecord /\ db[t] \in TaskRecord
      /\ db[t].status \in Incomplete /\ db[t].docs /\ ~db[t].report
  BY <1>1, LiveCopies
<1>3. /\ r \in TaskRecord /\ r.status \in {"review_pending", "completed"}
      /\ ~r.docs /\ r.report /\ r.docs # r.report
  BY <1>2 DEF TaskRecord, Statuses, Terminal, Reviewable
<1>4. \/ SaveSucceeds(t, r)
      \/ FailWith(t, r, db, FaultCost(r))
      \/ FailWith(t, r, rows, 1)
  BY DEF RunnerReturns
<1>5. mine'[t] = NoTask /\ NoTask.status = "absent"
  BY DEF RunnerReturns, Rejoin, TypeOK, NoTask
<1> HIDE DEF r
<1>6. /\ f \in TaskRecord /\ f.status = "failed" /\ f.docs = r.docs /\ f.report = r.report
      /\ f.typed = r.typed
  BY <1>3, RecordUpdates DEF TaskRecord, Statuses, Terminal, Decided
<1>7. /\ Json(r) \in TaskRecord /\ Json(r).status = r.status
      /\ Json(r).docs = r.docs /\ Json(r).report = r.report
  BY <1>3, JsonShows
<1>8. /\ rows \in [Tasks -> TaskRecord] /\ rows[t] = Json(r)
      /\ \A u \in Tasks \ {t} : rows[u] = db[u]
  BY <1>7 DEF TypeOK
<1> HIDE DEF f, rows
<1>9. /\ Json(f).status = "failed" /\ Json(f).docs = r.docs /\ Json(f).report = r.report
  BY <1>6, JsonShows
<1>10. /\ Delivered(db[t], Json(r)) /\ Broken(db[t], f) /\ Broken(db[t], Json(f))
       /\ Broken(Json(r), f) /\ SameStage(Json(r), r) /\ SameStage(Json(f), f)
       /\ SameStage(db[t], db[t])
  BY <1>2, <1>3, <1>6, <1>7, <1>9, Ways DEF Delivered, Broken, Reviewable
<1>11. /\ db[t].docs # db[t].report /\ f.docs # f.report
       /\ Json(r).docs # Json(r).report /\ Json(f).docs # Json(f).report
  BY <1>2, <1>3, <1>6, <1>7, <1>9 DEF TaskRecord
<1>12. faults \in Nat /\ faults' \in Nat
  BY DEF TypeOK
<1>13. CASE SaveSucceeds(t, r)
  <2>1. mem'[t] = r /\ db'[t] = Json(r) /\ faults' = faults
    BY <1>13 DEF SaveSucceeds, Enter, TypeOK
  <2>2. AheadInv(t)'
    BY <1>3, <1>5, <1>10, <1>11, <2>1 DEF AheadInv, Ahead
  <2>3. QED
    BY <1>10, <1>12, <2>1, <2>2 DEF Moved
<1>14. CASE FailWith(t, r, db, FaultCost(r))
  <2>1. FaultCost(r) \in Nat /\ (Storable(r) => FaultCost(r) = 1)
    BY DEF FaultCost
  <2>2. /\ mem'[t] = f /\ faults' >= faults + FaultCost(r)
        /\ \/ Storable(r) /\ db'[t] = Json(f)
           \/ db'[t] = db[t] /\ (faults' = 0 => ~Storable(r))
    BY <1>3, <1>14, <2>1, FailEffect DEF f, TypeOK
  <2>3. Storable(f) <=> Storable(r)
    BY <1>6 DEF Storable
  <2>4. Storable(r) => faults' > 0
    BY <1>12, <2>1, <2>2
  <2>5. Ahead(db'[t], f, faults')
    BY <1>2, <1>10, <1>12, <2>2, <2>3, <2>4 DEF Ahead
  <2>6. AheadInv(t)'
    BY <1>5, <1>11, <2>2, <2>5 DEF AheadInv
  <2>7. SameStage(db[t], db'[t]) \/ Moved(db[t], db'[t])
    BY <1>10, <2>2, <2>4 DEF Moved
  <2>8. QED
    BY <1>12, <2>1, <2>2, <2>6, <2>7
<1>15. CASE FailWith(t, r, rows, 1)
  <2>1. /\ mem'[t] = f /\ faults' >= faults + 1
        /\ db'[t] = Json(f) \/ db'[t] = Json(r)
    BY <1>3, <1>8, <1>15, FailEffect DEF f
  <2>2. faults' > 0 /\ faults' >= faults
    BY <1>12, <2>1
  <2>3. AheadInv(t)'
    BY <1>5, <1>10, <1>11, <2>1, <2>2 DEF AheadInv, Ahead
  <2>4. QED
    BY <1>10, <2>1, <2>2, <2>3 DEF Moved
<1>16. QED
  BY <1>4, <1>13, <1>14, <1>15

LEMMA RunnerTransientFollows ==
  ASSUME TypeOK, TypeOK', NEW t \in Tasks, TaskInv(t), AheadInv(t), RunnerTransient(t)
  PROVE  /\ AheadInv(t)' /\ (SameStage(db[t], db'[t]) \/ Moved(db[t], db'[t]))
         /\ faults' >= faults
<1> DEFINE r == [Held(t) EXCEPT !.attempt = @ + 1]
           f == [r EXCEPT !.status = "failed"]
           rows == [db EXCEPT ![t] = Json(r)]
<1>1. Live(t) /\ mine'[t] = NoTask
  BY DEF RunnerTransient, Live, Rejoin, TypeOK
<1>2. /\ Held(t) \in TaskRecord /\ Held(t).status \in Incomplete /\ Held(t).docs /\ ~Held(t).report
  BY <1>1, LiveCopies
<1>3. /\ r \in TaskRecord /\ r.status \in Incomplete /\ r.docs /\ ~r.report
  BY <1>2, RecordUpdates DEF TaskRecord
<1>4. \/ SaveSucceeds(t, r)
      \/ FailWith(t, r, db, FaultCost(r))
      \/ FailWith(t, r, rows, 0)
  BY DEF RunnerTransient
<1> HIDE DEF r
<1>5. /\ f \in TaskRecord /\ f.status = "failed" /\ f.docs /\ ~f.report
  BY <1>3, RecordUpdates DEF TaskRecord, Statuses, Terminal, Decided
<1>6. /\ Json(r) \in TaskRecord /\ Json(r).status \in Incomplete
      /\ Json(r).docs /\ ~Json(r).report /\ Json(f) \in TaskRecord /\ db[t] \in TaskRecord
  BY <1>3, <1>5, JsonShows DEF TypeOK
<1>7. /\ rows \in [Tasks -> TaskRecord] /\ rows[t] = Json(r)
      /\ \A u \in Tasks \ {t} : rows[u] = db[u]
  BY <1>6 DEF TypeOK
<1>8. faults \in Nat /\ faults' \in Nat /\ FaultCost(r) \in Nat
  BY DEF TypeOK, FaultCost
<1> HIDE DEF rows
<1>9. CASE SaveSucceeds(t, r)
  <2>1. mem'[t] = r /\ db'[t] = Json(r) /\ faults' = faults
    BY <1>9 DEF SaveSucceeds, Enter, TypeOK
  <2>2. QED
    BY <1>1, <1>3, <1>6, <1>8, <2>1, GoesOn DEF Moved
<1>10. CASE FailWith(t, r, db, FaultCost(r)) \/ FailWith(t, r, rows, 0)
  <2>1. /\ mem'[t] = f /\ faults' >= faults
        /\ db'[t] = Json(f) \/ db'[t] = db[t] \/ db'[t] = Json(r)
    <3>1. CASE FailWith(t, r, db, FaultCost(r))
      <4>1. /\ mem'[t] = f /\ faults' >= faults + FaultCost(r)
            /\ db'[t] = Json(f) \/ db'[t] = db[t]
        BY <1>3, <1>8, <3>1, FailEffect DEF TypeOK
      <4>2. QED
        BY <1>8, <4>1
    <3>2. CASE FailWith(t, r, rows, 0)
      <4>1. /\ mem'[t] = f /\ faults' >= faults + 0
            /\ db'[t] = Json(f) \/ db'[t] = Json(r)
        BY <1>3, <1>7, <3>2, FailEffect
      <4>2. QED
        BY <1>8, <4>1
    <3>3. QED
      BY <1>10, <3>1, <3>2
  <2> HIDE DEF f
  <2>2. QED
    BY <1>1, <1>5, <1>6, <2>1, GoesOn DEF Moved
<1>11. QED
  BY <1>4, <1>9, <1>10

LEMMA RunnerEndsFollows ==
  ASSUME TypeOK, TypeOK', NEW t \in Tasks, TaskInv(t), AheadInv(t),
         RunnerRaises(t) \/ RunnerCancelled(t)
  PROVE  /\ AheadInv(t)' /\ (SameStage(db[t], db'[t]) \/ Moved(db[t], db'[t]))
         /\ faults' >= faults
<1> DEFINE f == [Held(t) EXCEPT !.status = "failed"]
           c == [Held(t) EXCEPT !.status = "cancelled"]
<1>1. Live(t) /\ mine'[t] = NoTask
  BY DEF RunnerRaises, RunnerCancelled, Live, Rejoin, TypeOK
<1>2. /\ Held(t) \in TaskRecord /\ Held(t).docs /\ ~Held(t).report
  BY <1>1, LiveCopies
<1>3. /\ f \in TaskRecord /\ f.status = "failed" /\ f.docs /\ ~f.report
      /\ c \in TaskRecord /\ c.status = "cancelled" /\ c.docs /\ ~c.report
  BY <1>2, RecordUpdates DEF TaskRecord, Statuses, Terminal, Decided
<1>4. faults \in Nat /\ faults' \in Nat /\ db \in [Tasks -> TaskRecord]
  BY DEF TypeOK
<1>5. \/ FailWith(t, Held(t), db, 0)
      \/ SaveSucceeds(t, c) \/ SaveRaises(t, c)
  BY DEF RunnerRaises, RunnerCancelled
<1>6. PICK r \in {f, c} : mem'[t] = r /\ faults' >= faults /\ (db'[t] = Json(r) \/ db'[t] = db[t])
  <2>1. CASE FailWith(t, Held(t), db, 0)
    <3>1. mem'[t] = f /\ faults' >= faults + 0 /\ (db'[t] = Json(f) \/ db'[t] = db[t])
      BY <1>2, <1>4, <2>1, FailEffect
    <3>2. QED
      BY <1>4, <3>1
  <2>2. CASE SaveSucceeds(t, c) \/ SaveRaises(t, c)
    <3> HIDE DEF f, c
    <3>1. mem'[t] = c /\ faults' >= faults /\ (db'[t] = Json(c) \/ db'[t] = db[t])
      BY <1>3, <2>2, SaveEffect
    <3>2. QED
      BY <3>1
  <2>3. QED
    BY <1>5, <2>1, <2>2
<1> HIDE DEF f, c
<1>7. /\ r \in TaskRecord /\ r.docs /\ ~r.report /\ r.status \in {"failed", "cancelled"}
  BY <1>3, <1>6
<1>8. Json(r) \in TaskRecord /\ db[t] \in TaskRecord
  BY <1>4, <1>7, JsonShows
<1>9. QED
  BY <1>1, <1>6, <1>7, <1>8, GoesOn DEF Moved

LEMMA CoroutineFollows ==
  ASSUME TypeOK, TypeOK', \A u \in Tasks : TaskInv(u) /\ AheadInv(u), NEW t \in Tasks, Coroutine(t)
  PROVE  Follows(t)
<1>1. /\ AheadInv(t)' /\ (SameStage(db[t], db'[t]) \/ Moved(db[t], db'[t]))
      /\ faults' >= faults
  <2>1. CASE CancelledBeforeStart(t) \/ Reaped(t)
    <3>1. db' = db /\ mem' = mem /\ mine' = mine /\ faults' = faults
      BY <2>1 DEF CancelledBeforeStart, Reaped
    <3>2. faults' >= faults /\ db[t] \in TaskRecord
      BY <3>1 DEF TypeOK
    <3>3. QED
      BY <3>1, <3>2, AheadUntouched, Ways
  <2>2. QED
    BY <2>1, StartFollows, RunnerReturnsFollows, RunnerTransientFollows, RunnerEndsFollows
    DEF Coroutine, Outcome
<1>2. \A u \in Tasks \ {t} :
        db'[u] = db[u] /\ mem'[u] = mem[u] /\ mine'[u] = mine[u]
  BY CoroutineFrame
<1>3. \A u \in Tasks \ {t} : AheadInv(u)'
  BY <1>1, <1>2, AheadUntouched
<1>4. QED
  BY <1>1, <1>2, <1>3 DEF Follows

\* A stop forgets every dict; a crash between two saves leaves the task open.
LEMMA CrashFollows ==
  ASSUME TypeOK, TypeOK', \A u \in Tasks : TaskInv(u) /\ AheadInv(u), NEW t \in Tasks,
         CrashBetweenSaves(t)
  PROVE  Follows(t)
<1> DEFINE r == [Held(t) EXCEPT !.attempt = @ + 1]
<1>1. /\ Held(t) \in TaskRecord /\ Held(t).status \in Incomplete /\ Held(t).docs /\ ~Held(t).report
      /\ db[t] \in TaskRecord /\ db[t].status \in Incomplete /\ db[t].docs /\ ~db[t].report
  BY LiveCopies DEF CrashBetweenSaves, Live
<1>2. r \in TaskRecord /\ r.status \in Incomplete /\ r.docs /\ ~r.report
  BY <1>1, RecordUpdates DEF TaskRecord
<1>3. /\ db' = [db EXCEPT ![t] = Json(r)] /\ faults' = faults
      /\ \A u \in Tasks : mem'[u] = NoTask /\ mine'[u] = NoTask
  BY DEF CrashBetweenSaves, Gone
<1> HIDE DEF r
<1>4. /\ Json(r) \in TaskRecord /\ Json(r).status \in Incomplete
      /\ Json(r).docs /\ ~Json(r).report
  BY <1>2, JsonShows
<1>5. db'[t] = Json(r) /\ \A u \in Tasks \ {t} : db'[u] = db[u]
  BY <1>3 DEF TypeOK
<1>6. NoTask.status = "absent"
  BY DEF NoTask
<1>7. \A u \in Tasks : AheadInv(u)'
  BY <1>3, <1>4, <1>5, <1>6 DEF AheadInv, TaskRecord
<1>8. \A b \in BOOLEAN : \A c \in BOOLEAN : (b <=> c) => b = c
  OBVIOUS
<1>9. db[t].docs = Json(r).docs /\ db[t].report = Json(r).report
  BY <1>1, <1>4, <1>8 DEF TaskRecord
<1>10. SameStage(db[t], db'[t])
  BY <1>1, <1>4, <1>5, <1>9, Ways
<1>11. faults' >= faults
  BY <1>3 DEF TypeOK
<1>12. QED
  BY <1>5, <1>7, <1>10, <1>11 DEF Follows

\* What happens to the process is not seen: a start parks open tasks only.
LEMMA ProcessFollows ==
  ASSUME TypeOK, TypeOK', \A u \in Tasks : TaskInv(u) /\ AheadInv(u), Process
  PROVE  /\ \A u \in Tasks : AheadInv(u)' /\ SameStage(db[u], db'[u])
         /\ faults' >= faults
<1>1. NoTask.status = "absent" /\ \A u \in Tasks : db[u] \in TaskRecord
  BY DEF NoTask, TypeOK
<1>2. CASE Crash \/ Drained
  <2>1. db' = db /\ faults' = faults /\ \A u \in Tasks : mem'[u] = NoTask /\ mine'[u] = NoTask
    BY <1>2 DEF Crash, Drained, Gone
  <2>2. \A u \in Tasks : AheadInv(u)'
    BY <1>1, <2>1 DEF AheadInv
  <2>3. QED
    BY <1>1, <2>1, <2>2, Ways DEF TypeOK
<1>3. CASE Shutdown
  <2>1. db' = db /\ faults' = faults /\ mem' = mem /\ mine' = mine
    BY <1>3 DEF Shutdown
  <2>2. faults' >= faults
    BY <2>1 DEF TypeOK
  <2>3. QED
    BY <1>1, <2>1, <2>2, AheadUntouched, Ways
<1>4. CASE Startup
  <2>1. faults' = faults /\ mine' = mine /\ faults' >= faults
    BY <1>4 DEF Startup, TypeOK
  <2>2. ASSUME NEW u \in Tasks PROVE AheadInv(u)' /\ SameStage(db[u], db'[u])
    <3> DEFINE parked == [db[u] EXCEPT !.status = "interrupted"]
    <3>1. /\ parked \in TaskRecord /\ parked.status = "interrupted"
          /\ parked.docs = db[u].docs /\ parked.report = db[u].report
      BY <1>1, RecordUpdates DEF TaskRecord, Statuses, Incomplete
    <3>2. \/ db'[u] = parked /\ mem'[u] = parked /\ db[u].status \in Incomplete
          \/ db'[u] = db[u] /\ mem'[u] \in {db[u], NoTask}
      BY <1>4 DEF Startup, Parked
    <3> HIDE DEF parked
    <3>3. SameStage(db[u], db[u]) /\ SameStage(parked, parked)
          /\ (db[u].status \in Incomplete => SameStage(db[u], parked))
      BY <1>1, <3>1, Ways DEF Incomplete
    <3>4. "absent" \notin Incomplete
      BY DEF Incomplete
    <3>5. AheadInv(u)'
      BY <1>1, <2>1, <3>1, <3>2, <3>3, <3>4 DEF AheadInv, Ahead
    <3>6. QED
      BY <3>2, <3>3, <3>5
  <2>3. QED
    BY <2>1, <2>2
<1>5. QED
  BY <1>2, <1>3, <1>4 DEF Process

\* Every step of the service is a step of the lifecycle, and none leaves the
\* table further ahead of the rows.
LEMMA ServiceSteps ==
  ASSUME TypeOK, TypeOK', \A u \in Tasks : TaskInv(u) /\ AheadInv(u), [Next]_vars
  PROVE  /\ \A u \in Tasks : AheadInv(u)'
         /\ Lifecycle!Next
<1>1. ASSUME NEW t \in Tasks, Follows(t)
      PROVE  (\A u \in Tasks : AheadInv(u)') /\ Lifecycle!Next
  <2>1. \A u \in Tasks \ {t} : SameStage(db[u], db'[u])
    BY <1>1, Ways DEF Follows, TypeOK
  <2>2. CASE Moved(db[t], db'[t])
    BY <1>1, <2>1, <2>2, LifecycleStep DEF Follows
  <2>3. CASE SameStage(db[t], db'[t])
    BY <1>1, <2>1, <2>3, LifecycleStutter DEF Follows
  <2>4. QED
    BY <1>1, <2>2, <2>3 DEF Follows
<1>2. CASE UNCHANGED vars
  <2>1. db' = db /\ mem' = mem /\ mine' = mine /\ faults' = faults
    BY <1>2 DEF vars
  <2>2. faults' >= faults /\ \A u \in Tasks : db[u] \in TaskRecord
    BY <2>1 DEF TypeOK
  <2>3. \A u \in Tasks : AheadInv(u)' /\ SameStage(db[u], db'[u])
    BY <2>1, <2>2, AheadUntouched, Ways
  <2>4. QED
    BY <2>2, <2>3, LifecycleStutter
<1>3. CASE Next
  <2>1. (\E t \in Tasks : Follows(t)) \/ Process
    BY <1>3, Steps, SubmitFollows, SavingFollows, LoadsFollow, CoroutineFollows, CrashFollows
  <2>2. CASE Process
    BY <2>2, ProcessFollows, LifecycleStutter
  <2>3. QED
    BY <1>1, <2>1, <2>2
<1>4. QED
  BY <1>2, <1>3

\* The inductive invariant: what outlives a stop is sound, and what the table
\* holds is never further than one step of the lifecycle ahead of it.
THEOREM Invariance == Spec => []IInv
<1>1. Init => \A t \in Tasks : AheadInv(t)
  BY DEF Init, AheadInv, NoTask
<1>2. Durable /\ Durable' /\ (\A t \in Tasks : AheadInv(t)) /\ [Next]_vars
      => (\A t \in Tasks : AheadInv(t))'
  <2>1. Durable => TypeOK /\ \A t \in Tasks : TaskInv(t)
    BY DEF Durable, TaskInv
  <2>2. Durable' => TypeOK'
    BY DEF Durable
  <2>3. QED
    BY <2>1, <2>2, ServiceSteps
<1>3. Spec => [](\A t \in Tasks : AheadInv(t))
  BY <1>1, <1>2, DurableInvariance, PTL DEF Spec
<1>4. Durable /\ (\A t \in Tasks : AheadInv(t)) => IInv
  BY DEF IInv
<1>5. QED
  BY <1>3, <1>4, DurableInvariance, PTL

LEMMA LifecycleInit == Init => Lifecycle!Init
BY DEF Init, Lifecycle!Init, NoTask, StageOf, Incomplete, Reviewable

\* The service implements the lifecycle that its users see, whatever the
\* backend, the runner, the restarts and failing saves do: a task is accepted
\* with its inputs, gets one report or one end, and a draft one decision; and
\* only after a save failed can a task fail beside its report, never after it
\* was decided upon.
THEOREM LifecycleImplemented == Spec => ImplementsLifecycle
<1>1. IInv /\ IInv' /\ [Next]_vars => [Lifecycle!Next]_(Lifecycle!lifecycleVars)
  <2>1. IInv => TypeOK /\ \A t \in Tasks : TaskInv(t) /\ AheadInv(t)
    BY DEF IInv, Durable, TaskInv
  <2>2. IInv' => TypeOK'
    BY DEF IInv, Durable
  <2>3. QED
    BY <2>1, <2>2, ServiceSteps
<1>2. QED
  BY <1>1, LifecycleInit, Invariance, PTL
  DEF Spec, ImplementsLifecycle, Lifecycle!Spec
=============================================================================
