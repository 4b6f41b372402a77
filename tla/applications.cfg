SPECIFICATION MCSpec
CONSTANTS
    Models <- MCModels
    Metrics <- MCMetrics
    Dimensions <- MCDimensions
    Joins <- MCJoins
    MinimumCertification = 1
    MaximumSensitivity = 2
    AuthorizationTags = {}
    Unqualified = unqualified
    AllowedTables = {"t_sales", "t_region", "t_lab"}
    CertifiedTables = {"t_sales", "t_region"}
    MaxRankingRows = 100
    DefaultRankingRows = 10
    NoLimit = nolimit
    Questions = {q1}
    Requests <- MCRequests
    Selections <- MCSelections
    Plans <- MCPlans
    Statements <- MCStatements
    MaxClarifications = 1
    MaxIntentRepairs = 1
    MaxPlanRepairs = 1
    MaxQueryRepairs = 1
    MaxTurns = 3
    HasExecutor = TRUE
    Nothing = nothing
    Queries <- MCQueries
    NoQuery = noquery
    Uploads <- MCUploads
    Principals <- MCPrincipals
    Evaluations = {e1}
    MaxRetries = 1
    MaxDecisions = 1
    NoUpload = noupload
    Assessments <- MCAssessments
    Generations <- MCGenerations
    CliClarifications = 2
    NoAssessment = noassessment
    Registrations <- MCRegistrations
    AgentSelections <- MCAgentSelections
    ToolKinds <- MCToolKinds
    Texts <- MCTexts
    MaxModelSteps = 2
    MaxRuns = 2
    NoCall = nocall
    Subjects = {"conversation", "cli", "compiler", "hiring", "policies"}
INVARIANTS OnlyGovernedSqlRuns RankingsAreBounded ClarificationsBounded SqlFollowsReadyIntent
    GovernedFiltersHold ParametersMatch EveryModelJoined ConclusionsPassEveryGate
    ReviewersSeeCleanText NothingCrossesUnredacted
PROPERTIES TurnsEnd
CHECK_DEADLOCK FALSE
