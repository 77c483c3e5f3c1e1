SPECIFICATION MCSpec
CONSTANTS
  Projects = {p1}
  ControlIds <- mcControlIds
  Base <- mcBase
  AiPrefixed <- mcAi
  HighRisk <- mcAi
  EuOnly <- mcAi
  Frameworks <- mcFrameworks
  Generic = "generic-ssdlc"
  Overlay <- mcOverlay
  Region <- mcRegion
  NoRegion = "any"
  Listed <- mcListed
  Required <- mcRequired
  ForeignKeys = FALSE
  NoAnswer = "none"
  Profiles <- mcProfiles
  MaxChanges = 3
  Processes = {"p"}
  Redis = "redis"
  Callers <- mcCallers
  NoToken = "none"
  Capacity = 2
  PerMinute = 2
  Minute = 3
  MaxLag = 1
  Gone = Gone
  Never = Never
  MaxClock = 7
  MaxCalls = 4
  RunKeys = {"k1", "k2"}
  Users = {"client", "reviewer", "approver"}
  RoleOf <- mcRoleOf
  NoRun = NoRun
  NoUser = "nobody"
  MaxEvents = 4
  Supported <- mcSupported
  Provenances <- mcProvenances
  Documents <- mcDocuments
  Findings <- mcFindings
  Waivers <- mcWaivers
  Policies <- mcPolicies
  Expectations <- mcExpectations
  Digest = "release"
  NoSource = "none"
  NoDecision = NoDecision
  MaxTime = 2
  Libraries <- mcLibraries
  MaxLines = 2
  MaxChars = 3
  MaxThreats = 1
  MaxCandidates = 1
  Threats <- mcThreats
  Scores = {0, 1}
  Invented <- mcInvented
  Intakes <- mcIntakes
  ProjectRows <- mcProjectRows
  NoValue = "none"
  MaxDecisions = 2
  Texts <- mcTexts
  Threshold = 5
  SectionSize = 4
  Overlap = 1
  MaxPolicy = 2
  MaxHistory = 1
  CriticEnabled = TRUE
  Replies <- mcReplies
  Unparsed = Unparsed
  MaxAttempts = 2
  Servers = {"p", "q"}
  Names = {"guide.md"}
  Docs = {"d1", "d2"}
  Sizes <- mcSizes
  ArtifactCap = 12
  IndexCap = 14
  Nothing = Nothing
  NoDirectory = NoDirectory
  MaxUploads = 1
  MaxSteps = 2
  TextKeys = {"a", "b", "c", "tiny"}
  Trivial = {"tiny"}
  MaxFound = 3
  MaxAsked = 3
  GraphEnabled = TRUE
  NotAsked = NotAsked
  Providers = {"openai", "anthropic"}
  FieldValues = {"v1", "v2"}
  Urls = {"u1", "u2"}
  Doubtful = {"u2"}
  Compat = "anthropic_compat"
  NotSet = NotSet
  NoClient = NoClient
  Unreadable = Unreadable
  MaxUpdates = 2
  MaxGiven = 3
  SkillIds = {"a", "b", "gdpr-dpo"}
  Prompts = {"x", "y"}
  Nulled = Nulled
  NoSkill = NoSkill
  Unloaded = Unloaded
  Torn = Torn
  MaxSkillChanges = 3
  Calls = {"upload", "mixed", "stranger", "agent", "lookup"}
  CallOf <- mcCallOf
  Files = {"note", "pdf", "zip"}
  FileOf <- mcFileOf
  Accounts = {"ann"}
  AccountOf <- mcAccountOf
  AuthEnabled = TRUE
  GatewayEnabled = TRUE
  GatewayToken = TRUE
  GatewayTenant = "default"
  Engine = "auto"
  MaxFiles = 5
  Absent = Absent
INVARIANTS
  TypesOK
  Consistent
  Fresh
  LockedComplete
  ClearanceSound
  Budget
  RefusedOnlyAfterUse
  TrailTellsStatus
  DecisionAccountable
  ClearedRelease
  PassagesPartition
  Grounded
  RiskMonotone
  SectionsCover
  ReportTraceable
  ConfirmedIsSearchable
  MergeIsFair
  SettingsInForce
  KeptAsConfirmed
  AnswersHold
PROPERTY
  NeverImproves
CHECK_DEADLOCK FALSE
