------------------------------- MODULE Intake -------------------------------
(***************************************************************************)
(* How a document gets to the assessment service: the REST handlers of     *)
(* app/api/assessments.py with core/deps.py and security.py, and the agent *)
(* gateway, over MCP (mcp_server.py) and A2A (agent_gateway), with its own *)
(* access rule and document roots; parser/service.py and guardrails.py     *)
(* stand before both.                                                      *)
(*                                                                         *)
(* A call's task is known by the call.  What the service does with it is   *)
(* the module AssessmentTasks; here it runs and ends.                      *)
(***************************************************************************)
EXTENDS Naturals, Sequences, FiniteSets, SequencesExt

CONSTANTS
  Calls,          \* bound: names of calls
  CallOf,         \* of a name, what is asked: see Call
  Files,          \* bound: names of files
  FileOf,         \* of a name, what the file is: see File
  Accounts, AccountOf,  \* accounts: [active, role, superuser, tenant]
  AuthEnabled, GatewayEnabled, GatewayToken, GatewayTenant,     \* settings
  Engine,         \* PARSER_ENGINE: "auto", "docling" or "legacy"
  MaxFiles,       \* UPLOAD_MAX_FILES
  Absent

Call == [ channel   : {"rest", "a2a", "mcp", "mcp_wait"},
          operation : {"assess", "get", "query", "other"},
          token     : Accounts \cup {"gateway", Absent},   \* whose token it carries, if a valid one
          loopback  : BOOLEAN,
          files     : Seq(Files),
          task      : Calls,                           \* the one that is asked for
          phase     : BOOLEAN ]                        \* one of the known phases

File == [ type    : {"text", "office", "other"},
          place   : {"inside", "outside", "missing"},  \* of the roots, links followed
          small   : BOOLEAN,                           \* within the size and length limits
          docling : BOOLEAN, legacy : BOOLEAN,         \* the parsers that can read it
          suspect : BOOLEAN ]                          \* an injection pattern matches

\* Every call is one of these, and being absent is no result and no task.
ASSUME IntakeAssumption ==
  /\ CallOf \in [Calls -> Call] /\ FileOf \in [Files -> File]
  /\ Absent \notin {"error", "accepted", "report", "found", "running", "ended"}

VARIABLES
  up,
  stage,          \* of a call
  result,         \* of a call, what it is answered
  tasks,          \* of a call, the durable task it made
  findings        \* committed audit rows of suspect files: <<call, file>>

intake == <<up, stage, result, tasks, findings>>

SubmitRoles == {"admin", "auditor", "user", "client", "security_reviewer"}
Results == {"error", "accepted", "report", "found"}

IntakeOK ==
  /\ up \in BOOLEAN
  /\ stage \in [Calls -> {"idle", "working", "waiting", "handled", "answered", "cut"}]
  /\ result \in [Calls -> Results \cup {Absent}]
  /\ tasks \in [Calls -> {"running", "ended", Absent}]
  /\ findings \subseteq Calls \X Files

IntakeInit ==
  /\ up = TRUE
  /\ stage = [c \in Calls |-> "idle"]
  /\ result = [c \in Calls |-> Absent]
  /\ tasks = [c \in Calls |-> Absent]
  /\ findings = {}

-----------------------------------------------------------------------------
(***************************************************************************)
(* Who may call, and for which tenant.                                     *)
(***************************************************************************)
RestAdmits(call) ==
  IF ~AuthEnabled THEN call.loopback
  ELSE call.token \in Accounts /\ AccountOf[call.token].active
       /\ (AccountOf[call.token].superuser \/ AccountOf[call.token].role \in SubmitRoles)

\* The gateway's token is asked for when there is one, else only the host itself.
GatewayAdmits(call) ==
  GatewayEnabled /\ IF GatewayToken THEN call.token = "gateway" ELSE call.loopback

Admits(call) == IF call.channel = "rest" THEN RestAdmits(call) ELSE GatewayAdmits(call)

TenantOf(c) ==
  CASE CallOf[c].channel # "rest" -> GatewayTenant
    [] CallOf[c].channel = "rest" /\ AuthEnabled -> AccountOf[CallOf[c].token].tenant
    [] OTHER -> "default"

-----------------------------------------------------------------------------
(***************************************************************************)
(* Reading the files.                                                      *)
(***************************************************************************)
\* Text is never given to Docling; "auto" falls back to the legacy parsers.
Parses(file) ==
  \/ file.type = "text"
  \/ /\ file.type = "office"
     /\ \/ Engine # "legacy" /\ file.docling
        \/ Engine # "docling" /\ file.legacy

\* An upload has no place; the gateway's path has to be inside a root.
Readable(call, f) ==
  /\ call.channel # "rest" => FileOf[f].place = "inside"
  /\ FileOf[f].small /\ Parses(FileOf[f])

FilesRead(call) ==
  LET bad == { i \in 1..Len(call.files) : ~Readable(call, call.files[i]) }
  IN { call.files[i] : i \in { j \in 1..Len(call.files) : \A b \in bad : j < b } }

\* The rows of suspect files are committed one by one, as the files are read; a
\* row that cannot be written is dropped.
Screen(c, read) ==
  \E written \in SUBSET { f \in read : FileOf[f].suspect } :
    findings' = findings \cup { <<c, f>> : f \in written }

\* Variant: a file that cannot be read is left out
AcceptableInPart(call) ==
  /\ call.channel = "rest" => Len(call.files) <= MaxFiles
  /\ call.phase
  /\ \E i \in 1..Len(call.files) : Readable(call, call.files[i])

Acceptable(call) ==
  /\ call.channel = "rest" => Len(call.files) <= MaxFiles
  /\ call.phase
  /\ \A i \in 1..Len(call.files) : Readable(call, call.files[i])

-----------------------------------------------------------------------------
(***************************************************************************)
(* The calls.  An A2A call has a task of its own in memory, "working" in   *)
(* between, and its answer is an artifact of that task.                    *)
(***************************************************************************)
Refuse(c) ==
  /\ stage[c] = "idle" /\ ~Admits(CallOf[c])
  /\ stage' = [stage EXCEPT ![c] = "answered"]
  /\ result' = [result EXCEPT ![c] = "error"]
  /\ UNCHANGED <<tasks, findings>>

Begin(c) ==
  /\ stage[c] = "idle" /\ Admits(CallOf[c])
  /\ stage' = [stage EXCEPT ![c] = "working"]
  /\ UNCHANGED <<result, tasks, findings>>

Handled(c, with) ==
  /\ stage[c] = "working"
  /\ result' = [result EXCEPT ![c] = with]
  /\ stage' = [stage EXCEPT ![c] = IF with = "accepted" /\ CallOf[c].channel = "mcp_wait"
                                   THEN "waiting" ELSE "handled"]

\* submit_assessment and submit_document: all the files, or no task.
Assess(c) ==
  LET call == CallOf[c] IN
  /\ call.operation = "assess"
  /\ \/ /\ Acceptable(call)
        /\ Screen(c, Range(call.files))
        /\ tasks' = [tasks EXCEPT ![c] = "running"]
        /\ Handled(c, "accepted")
     \/ /\ ~Acceptable(call)
        /\ IF call.phase /\ Len(call.files) <= MaxFiles THEN Screen(c, FilesRead(call)) ELSE UNCHANGED findings
        /\ Handled(c, "error")
        /\ UNCHANGED tasks

\* A task of another tenant is not found.
Visible(c, t) == tasks[t] # Absent /\ TenantOf(t) = TenantOf(c)

GetTask(c) ==
  /\ CallOf[c].operation = "get"
  /\ Handled(c, IF Visible(c, CallOf[c].task)
                THEN IF tasks[CallOf[c].task] = "ended" THEN "report" ELSE "found" ELSE "error")
  /\ UNCHANGED <<tasks, findings>>

\* The knowledge base may raise; an unknown operation is an error.
Other(c) ==
  /\ CallOf[c].operation \in {"query", "other"}
  /\ \E with \in {"found", "error"} : (CallOf[c].operation = "other" => with = "error") /\ Handled(c, with)
  /\ UNCHANGED <<tasks, findings>>

\* assess_document polls until the task has ended or its time is over.
Poll(c) ==
  /\ stage[c] = "waiting" /\ tasks[c] = "ended"
  /\ stage' = [stage EXCEPT ![c] = "handled"]
  /\ result' = [result EXCEPT ![c] = "report"]
  /\ UNCHANGED <<tasks, findings>>

Timeout(c) ==
  /\ stage[c] = "waiting"
  /\ stage' = [stage EXCEPT ![c] = "handled"]
  /\ result' = [result EXCEPT ![c] = "error"]
  /\ UNCHANGED <<tasks, findings>>

AnswerCall(c) ==
  /\ stage[c] = "handled"
  /\ stage' = [stage EXCEPT ![c] = "answered"]
  /\ UNCHANGED <<result, tasks, findings>>

-----------------------------------------------------------------------------
\* The service ends a task, whatever became of its caller.
Ends(c) ==
  /\ tasks[c] = "running"
  /\ tasks' = [tasks EXCEPT ![c] = "ended"]
  /\ UNCHANGED <<stage, result, findings>>

\* Tasks and audit rows are durable; calls, and all A2A tasks, are not.
Stop ==
  /\ up /\ up' = FALSE
  /\ stage' = [c \in Calls |-> IF stage[c] \in {"working", "waiting", "handled"} THEN "cut" ELSE stage[c]]
  /\ UNCHANGED <<result, tasks, findings>>

Start == ~up /\ up' = TRUE /\ UNCHANGED <<stage, result, tasks, findings>>

IntakeNext ==
  \/ Stop \/ Start
  \/ /\ up /\ UNCHANGED up
     /\ \E c \in Calls : \/ Refuse(c) \/ Begin(c) \/ Assess(c) \/ GetTask(c) \/ Other(c)
                         \/ Poll(c) \/ Timeout(c) \/ AnswerCall(c) \/ Ends(c)

IntakeSpec == IntakeInit /\ [][IntakeNext]_intake

-----------------------------------------------------------------------------
\* A caller that was told of a task or a report has one, of its own tenant and
\* of files that were all read; one that was told of an error has made none,
\* unless it waited for the end of the task and its time was over first.
AnswersHold ==
  \A c \in Calls :
    /\ stage[c] = "answered" /\ CallOf[c].operation = "assess" =>
         /\ result[c] \in {"accepted", "report"} => tasks[c] # Absent
         /\ result[c] = "report" => tasks[c] = "ended"
         /\ result[c] = "error" /\ CallOf[c].channel # "mcp_wait" => tasks[c] = Absent
    /\ tasks[c] # Absent => /\ Admits(CallOf[c])
                          /\ \A f \in Range(CallOf[c].files) : Readable(CallOf[c], f)
    /\ result[c] = "report" /\ CallOf[c].operation = "get" =>
         tasks[CallOf[c].task] = "ended" /\ TenantOf(CallOf[c].task) = TenantOf(c)
=============================================================================
