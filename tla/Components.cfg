SPECIFICATION ComponentsSpec
CONSTANTS
    r1 = r1
    r2 = r2
    r3 = r3
    r4 = r4
    None = None
    Requests = {r1, r2, r3, r4}
    Priority <- StandardPriority
    NormalWorkers = 1
    HeavyWorkers = 2
    RebalanceThreshold = 1
    Callers = {1, 2, 3}
    Attempts = 2
    Slots = 2
    Threshold = 3
    WindowSize = 3
    RateNum = 1
    RateDen = 2
    a = a
    b = b
    c = c
    Marketplaces = {a, b, c}
    EnabledChoices <- Enabled
    ChildSlots = 1
    MaxChildren = 2
    MaxToolCalls = 8
    OfferInputs <- Selections
    Plans <- Intents
    RememberedChoices <- RememberedSets
    OfficialRates <- ServiceRates
    CustomsLimit = 3
    CompareLimit = 3
    Posts = {p1, p2}
    Threads = {t1, t2}
    LineageWorkers = {w1, w2}
    w1 = w1
    w2 = w2
    ApiWorkers = {w1, w2}
    TaskIds = {x1}
    Arrivals <- OneBusyWorker
    MaxVisits = 4
    CommandKeys = {k1}
    Children = {c1, c2, c3}
    MaxCrashes = 1
    Clients = {q1, q2}
    Values = {"a", "b"}
    CommandLists <- Lists
    SearchMarkets = {"amazon", "ebay"}
    SettingChoices <- DataSettings
    Plannable = {{}, {"ebay"}}
    SearchOrder <- Order
    RecallSettings <- RecallChoices
    PoolSizes = {0, 3}
    TopK = 2
    HitChoices <- Hits
    ScorerAnswers <- Scores
    MaxTokens = 32
    KeepRecent = 3
    Queries <- AllQueries
    TextChars <- Lengths
    QuestionChars <- Questions
    SummarySizes <- Sizes
    Images = {i1}
    MaxRuns = 2
INVARIANT LeasesCounted
PROPERTY WaitersServed
PROPERTY QuarantineEndsUnlessProbeLost
PROPERTY ProbesDecide
INVARIANT QuietAfterEnd
INVARIANT PhasesAdmitThePipeline
INVARIANT ResultIsComplete
PROPERTY ResearchEnds
INVARIANT NothingVanishes
INVARIANT OrderIndependent
INVARIANT RelaxationsSuffice
INVARIANT CurrentRequestWins
INVARIANT CountExplained
PROPERTY ShutdownEnds
INVARIANT OneChildPerKey
INVARIANT DurableUnlessRaced
INVARIANT LiveMeansLive
INVARIANT RecallDisclosed
INVARIANT QuestionsSettle
INVARIANT WindowKeeps
PROPERTY HandlersAnswered
INVARIANT OwnFlockOnlyAfterFailedDelete
INVARIANT FilesAgree
CHECK_DEADLOCK FALSE
