----------------------------- MODULE AuditChain -----------------------------
(***************************************************************************)
(* The audit log of app/api/governance/utils.py (write_audit_event) and    *)
(* the transactions of the handlers that append to it.                     *)
(*                                                                         *)
(* A handler reads the tenant's newest row FOR UPDATE, adds to its session *)
(* a row that names it as the previous one, and commits.  The read flushes *)
(* first what the handler has changed, so the handler owns whatever lock   *)
(* the change takes before it looks at the log: the whole database in      *)
(* SQLite, one row of the resource in PostgreSQL.  A handler may have      *)
(* nothing to flush: an update without content, one that sets what is      *)
(* there already, or submit_answers, which has committed its change in a   *)
(* transaction of its own.  It takes no lock before its row is inserted.   *)
(*                                                                         *)
(* The row locks of FOR UPDATE are ignored by SQLite, which holds no       *)
(* snapshot for a SELECT outside a writing transaction either.  In         *)
(* PostgreSQL they make a second reader wait, and then return the rows of  *)
(* the statement's own snapshot, without those committed during the wait.  *)
(*                                                                         *)
(* A handler of one process runs from its first read to its commit without *)
(* an await, so the writers are the processes that serve requests.         *)
(***************************************************************************)
EXTENDS Naturals

CONSTANTS
  Writers,       \* processes that serve requests
  Tenants,
  Resources,     \* what handlers change; rows of other tables
  NoChange,      \* ... when a handler has nothing to flush
  Backend,       \* "sqlite" or "postgresql"
  Events,        \* event_hash values, all different; bounds the rows of the log
  Genesis,       \* previous_hash of a first row: null
  MaxStepsBack,  \* bound: times the system clock is set back
  MaxClock       \* bound of the time

ASSUME BackendAssumption == Backend \in {"sqlite", "postgresql"}
ASSUME GenesisAssumption == Genesis \notin Events
ASSUME NoChangeAssumption == NoChange \notin Resources
ASSUME BoundsAssumption == MaxStepsBack \in Nat /\ MaxClock \in Nat

VARIABLES
  log,           \* committed rows of governance_audit_logs
  stage,         \* of each writer's request
  tenant,        \* of the user whose request the writer serves
  resource,      \* what the handler's open transaction changes
  seen,          \* rows that the handler's read of the log returned
  added,         \* the row the handler has added to its session
  clock,         \* datetime.now
  stepsBack      \* history: times the clock was set back

vars == <<log, stage, tenant, resource, seen, added, clock, stepsBack>>

\* "held" is a history: see Holds.
Row == [id: Events, tenant: Tenants, previous: Events \cup {Genesis}, at: Nat, held: BOOLEAN]

TypeOK ==
  /\ log \in SUBSET Row
  /\ stage \in [Writers -> {"idle", "changed", "reading", "adding"}]
  /\ tenant \in [Writers -> Tenants]
  /\ resource \in [Writers -> Resources \cup {NoChange}]
  /\ seen \in [Writers -> SUBSET Row]
  /\ added \in [Writers -> SUBSET Row]
  /\ clock \in Nat
  /\ stepsBack \in Nat

Init ==
  /\ log = {}
  /\ stage = [w \in Writers |-> "idle"]
  /\ tenant \in [Writers -> Tenants]
  /\ resource = [w \in Writers |-> NoChange]
  /\ seen = [w \in Writers |-> {}]
  /\ added = [w \in Writers |-> {}]
  /\ clock = 0
  /\ stepsBack = 0

-----------------------------------------------------------------------------
Open(w) == stage[w] \in {"reading", "adding"}

\* Variant: the change is flushed after the log is read
LocksLater(w) == stage[w] = "adding" /\ resource[w] # NoChange

\* A flushed change is locked until the transaction ends.
Locks(w) == Open(w) /\ resource[w] # NoChange

\* No other writer's change stands in the way of a write to r.
MayWrite(w, r) ==
  \A v \in Writers \ {w} : Locks(v) => Backend = "postgresql" /\ resource[v] # r

\* Nobody else can append between the writer's read of the log and its
\* commit: nobody else writes at all, or the read found the database locked.
Holds(w) ==
  \/ Writers = {w}
  \/ Backend = "sqlite" /\ resource[w] # NoChange

\* Variant: the rows of every tenant
OfAll(rows, x) == rows

Of(rows, x) == {r \in rows : r.tenant = x}

\* Variant: the oldest row first
Oldest(rows) == {r \in rows : \A s \in rows : r.at <= s.at}

\* The rows .first() may return: no row of the tenant is newer
Newest(rows) == {r \in rows : \A s \in rows : s.at <= r.at}

\* A change that is committed before its audit row is even begun (submit_answers)
ChangeFirst(w, x, r) ==
  /\ stage[w] = "idle"
  /\ MayWrite(w, r)
  /\ stage' = [stage EXCEPT ![w] = "changed"]
  /\ tenant' = [tenant EXCEPT ![w] = x]
  /\ UNCHANGED <<log, resource, seen, added, clock, stepsBack>>

\* The flush of the handler's change, if there is any, and what the read returns
Read(w, x, r) ==
  /\ stage[w] = "idle" \/ (stage[w] = "changed" /\ x = tenant[w] /\ r = NoChange)
  /\ r # NoChange => MayWrite(w, r)
  /\ stage' = [stage EXCEPT ![w] = "reading"]
  /\ tenant' = [tenant EXCEPT ![w] = x]
  /\ resource' = [resource EXCEPT ![w] = r]
  /\ seen' = [seen EXCEPT ![w] = Of(log, x)]
  /\ UNCHANGED <<log, added, clock, stepsBack>>

\* The event_hash of the row to name
Previous(rows) == IF rows = {} THEN {Genesis} ELSE {r.id : r \in Newest(rows)}

\* Rows stored or about to be
Rows == log \cup UNION {added[w] : w \in Writers}

\* FOR UPDATE waits for the rows that another writer has locked.  The new row's
\* time is taken when the read has returned; two readings of one clock are at
\* least a tick apart.
Add(w) ==
  /\ stage[w] = "reading"
  /\ Backend = "postgresql" =>
       \A v \in Writers \ {w} : stage[v] = "adding" => seen[v] \cap seen[w] = {}
  /\ stage' = [stage EXCEPT ![w] = "adding"]
  /\ clock < MaxClock /\ clock' = clock + 1
  /\ \E id \in Events \ {r.id : r \in Rows}, previous \in Previous(seen[w]) :
       added' = [added EXCEPT ![w] =
                   {[id |-> id, tenant |-> tenant[w], previous |-> previous,
                     at |-> clock', held |-> Holds(w)]}]
  /\ UNCHANGED <<log, tenant, resource, seen, stepsBack>>

Close(w) ==
  /\ stage' = [stage EXCEPT ![w] = "idle"]
  /\ seen' = [seen EXCEPT ![w] = {}]
  /\ added' = [added EXCEPT ![w] = {}]
  /\ resource' = [resource EXCEPT ![w] = NoChange]
  /\ UNCHANGED tenant

\* In SQLite the insertion takes the lock that a handler without a change has
\* not got yet.
Commit(w) ==
  /\ stage[w] = "adding"
  /\ MayWrite(w, NoChange)
  /\ log' = log \cup added[w]
  /\ Close(w)
  /\ UNCHANGED <<clock, stepsBack>>

\* The transaction fails, or the process stops.  A change that was committed
\* before stays, and has no row.
Rollback(w) ==
  /\ stage[w] # "idle"
  /\ Close(w)
  /\ UNCHANGED <<log, clock, stepsBack>>

SetBack ==
  /\ stepsBack < MaxStepsBack
  /\ stepsBack' = stepsBack + 1
  /\ clock' \in 0..clock
  /\ UNCHANGED <<log, stage, tenant, resource, seen, added>>

Next ==
  \/ \E w \in Writers :
       \/ \E x \in Tenants : \/ \E r \in Resources : ChangeFirst(w, x, r)
                             \/ \E r \in Resources \cup {NoChange} : Read(w, x, r)
       \/ Add(w)
       \/ Commit(w)
       \/ Rollback(w)
  \/ SetBack

Spec == Init /\ [][Next]_vars

-----------------------------------------------------------------------------
(***************************************************************************)
(* Properties.  A row is "held" when its writer excluded the others from   *)
(* its read of the log to its commit.                                      *)
(***************************************************************************)
\* Each row names the one before it of its tenant: no two rows name the same
\* row, so that the rows of a tenant are one chain and an auditor sees that a
\* row was removed from within, as long as the clock is not set back
\* (write_audit_event; doc 08, security model: "Each row includes the previous
\* event digest for its tenant").
OneChain ==
  stepsBack = 0 =>
    \A r, s \in log : r.tenant = s.tenant /\ r.previous = s.previous => r = s

\* Where a tenant's chain forks, all but one of the rows that name the same row
\* come from handlers that had flushed nothing when they read the log, as long
\* as the clock is not set back (write_audit_event, behind the flush).
HeldNeverFork ==
  stepsBack = 0 =>
    \A r, s \in log :
      r.held /\ s.held /\ r.tenant = s.tenant /\ r.previous = s.previous => r = s

\* Sorted by time, each held row of a tenant comes after the row it names, with
\* no other held row in between, as long as the clock is not set back
\* (write_audit_event and get_audit_log order by created_at).
Follows(r, rows) ==
  IF r.previous = Genesis
  THEN \A s \in rows : s.held => r.at <= s.at
  ELSE \E p \in rows :
         /\ p.id = r.previous
         /\ p.at < r.at
         /\ \A s \in rows : s.held => s.at <= p.at \/ r.at <= s.at

InTimeOrder ==
  stepsBack = 0 => \A r \in log : r.held => Follows(r, Of(log, r.tenant))

\* Whatever is rolled back, forks or happens to the clock, a tenant's rows hang
\* together: at most one held row is a first one, and every other row names a
\* stored row of its tenant, an earlier one unless the clock was set back, so
\* that it leads an auditor back to a first one (write_audit_event).
Rooted ==
  \A r \in log :
    IF r.previous = Genesis
    THEN \A s \in log :
           r.held /\ s.held /\ s.tenant = r.tenant /\ s.previous = Genesis => s = r
    ELSE \E p \in log : /\ p.tenant = r.tenant
                        /\ p.id = r.previous
                        /\ stepsBack = 0 => p.at < r.at

(***************************************************************************)
(* What an auditor sees: the last event of a tenant is its newest row.     *)
(***************************************************************************)
Last(rows) == IF rows = {} THEN Genesis ELSE (CHOOSE r \in Newest(rows) : TRUE).id

Chain ==
  INSTANCE TenantChain WITH
    links <- {<<r.tenant, r.id, r.previous>> : r \in log},
    last <- [x \in Tenants |-> Last(Of(log, x))]

\* Until the clock is set back, each step adds one event at the end of its
\* tenant's chain, as it is then, or changes no chain, whoever reads, rolls back
\* or has forked the log before; but for the commit of a handler that had flushed
\* nothing when it read the log beside others (write_audit_event: "Append a
\* tamper-evident audit event").
ImplementsChain ==
  /\ Chain!Init
  /\ [][stepsBack' = 0 /\ (\A r \in log' \ log : r.held) => [Chain!Next]_(Chain!chainVars)]_vars

(***************************************************************************)
(* The inductive invariant.                                                *)
(***************************************************************************)
\* Of the writers that hold the log only one is at work.
OneHolds ==
  \A v, w \in Writers : Open(v) /\ Open(w) /\ Holds(v) /\ Holds(w) => v = w

\* What a writer has read is still there, and all there is if it holds the log.
Reads ==
  \A w \in Writers :
    /\ seen[w] \subseteq Of(log, tenant[w])
    /\ ~ Open(w) => seen[w] = {}
    /\ Open(w) /\ Holds(w) => seen[w] = Of(log, tenant[w])

\* A row about to be stored names the newest one that was read and, unless the
\* clock was set back, is later than all of those.
Fits(w) ==
  \A n \in added[w] :
    /\ stage[w] = "adding"
    /\ added[w] = {n}
    /\ n.tenant = tenant[w] /\ n.previous \in Previous(seen[w]) /\ (n.held <=> Holds(w))
    /\ stepsBack = 0 => \A r \in seen[w] : r.at < n.at

Adds == \A w \in Writers : Fits(w)

\* Rows differ in hash, and in time unless the clock was set back, when they
\* may also be from the future.
Distinct ==
  /\ \A r, s \in Rows : r.id = s.id => r = s
  /\ \A w \in Writers : added[w] \cap log = {}
  /\ \A v, w \in Writers : v # w => added[v] \cap added[w] = {}
  /\ stepsBack = 0 => /\ \A r, s \in Rows : r.at = s.at => r = s
                      /\ \A r \in Rows : r.at <= clock

\* One process holds the log whenever it is at work.
OneProcess == \A v, w \in Writers : v = w
Marks == OneProcess => \A r \in log : r.held

IInv ==
  TypeOK /\ OneHolds /\ Reads /\ Adds /\ Distinct /\ Marks /\ InTimeOrder /\ Rooted
=============================================================================
