SPECIFICATION SumSpec
CONSTANTS
    api = api  worker = worker
    review = review  answer = answer  purge = purge
    Chunk = {1, 2}
    Process = {api, worker}
    Thread <- IndexThreads
    Purger = purge
    Home <- HomeOf
    Duty <- DutyOf
    Nobody = Nobody
    NoFile = NoFile
    q1 = q1  q2 = q2  m1 = m1
    MaxTurn = 3
    MaxRecent = 1
    TokenBudget = 8
    SummaryBudget = 4
    UserTokens <- TokensAsked
    AssistantTokens <- TokensAnswered
    TurnQuestion <- TurnTexts
    Canonical <- PlannedTexts
    FieldLimit <- ListLimits
    Payload <- ModelGoals
    NoContext = NoContext
    Due = Due
    w1 = w1  o1 = o1  d1 = d1  NoOwner = NoOwner
    Job = {1}
    Document = {d1}
    DocOf <- JobDoc
    Worker = {w1}
    OwnerId = {o1}
    WorkerId <- JobOwner
    MaxAttempts = 2
    LeaseTicks = 2
    HeartbeatTicks = 1
    LockWait = 0
    MaxSilence = 1
    MaxRetries = 1
    MaxFaults = 1
    Digest = {f1}
    ParsedSlide <- ParsedSlides
    Reviewer = {u1, u2}
    NoReviewer = NoReviewer
    MaxVersions = 2
    MaxParses = 2
    LoginRequest = {r1, r2, r3}
    MaxLoginFailures = 2
    LoginTries = 8
    ChartQuestion <- ChartQuestions
    ChartElement <- ChartInputs
    Overlap <- NoOverlap
    Year <- LabelYear
    NoCalculation = NoCalculation
    Raises = Raises
    AnalysisPlan <- ChartPlans
    AnalysisChart <- AnalyzedCharts
    Preferred <- PreferredPlaces
    NoAnalysis = NoAnalysis
    ReconcileQuestion <- ReconcileAsked
    ReconcileTable <- ReconcileTables
    ReconcileChart <- ReconcileCharts
    RelatedNames <- NamesWithin
    NotReconciled = NotReconciled
    NoAnswer = NoAnswer
    Unanswered = Unanswered
    TableQuestion <- TableQuestions
    SourceTable <- TableSources
    EngineTask <- EvidenceTasks
    SearchResult <- EvidenceRows
    ToolResult <- ToolResults
    NoTool = NoTool
    MaxAtoms = 2
    MaxChars = 11
    PerSlide = 1
    Request <- RetrievalRequests
    LexicalK = 4
    VectorK = 3
    MinSimilarity = 3
    RrfK = 60
    LexicalWeight = 12500
    VectorWeight = 10000
    RerankK = 3
    NoRetrieval = NoRetrieval
    NoModel = NoModel
    ProviderError = ProviderError
    InvalidOutput = InvalidOutput
    NoPlan = NoPlan
    Unsaid = Unsaid
    Question <- PlanQuestion
    PlannerAnswer <- PlannerSays
    EngineResult <- EngineFinds
    Generation <- Gen
    GapQuery <- Gap
    LongestAnswer = 70
    NoRunResult = NoRunResult
    Unused = Unused
INVARIANTS
    SearchFindsIndexed AttemptsShareContext SummariesAreFaithful NothingForgotten
    JobEventsTellOutcome LoginsBounded SearchShowsReviewedParse
     ChartAnalysesAreRight ReconciliationsAreProven TableAnswersAreRight EvidenceSupportsAnswer
    RetrievalDegradesSafely AnswersAreGrounded
PROPERTIES IndexLockComesFree JobStreamCloses
CHECK_DEADLOCK FALSE
