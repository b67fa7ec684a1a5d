CONSTANTS
    NoModel = NoModel
    ProviderError = ProviderError
    InvalidOutput = InvalidOutput
    NoPlan = NoPlan
    Unsaid = Unsaid
    Question <- PlanQuestion
    PlannerAnswer <- PlannerSays
    EngineResult <- EngineFinds
    Generation <- Gen
    GapQuery <- Gap
    LongestAnswer = 70
    NoRunResult = NoRunResult
INIT PipelineInit
NEXT PipelineNext
INVARIANT UniversalNegativesRejected
CHECK_DEADLOCK FALSE
