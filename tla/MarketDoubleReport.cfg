SPECIFICATION MarketSpec
CONSTANTS
    None = None
    All = All
    Pallet = Pallet
    FeeManager = FeeManager
    Hyperdrive = Hyperdrive
    Accounts = {alice, bob, Pallet, FeeManager, Hyperdrive}
    ExistentialDeposit = 1
    Processors = {p1, p2}
    Consumers = {alice}
    Matchers = {bob}
    MaxJobs = 1
    ProxySequence = {}
    Registrations <- CompetingRegistrations
    Fees = {2, 4}
    StartDelays = {0}
    ProposedExecutions = {0, 1, 2}
    SourceLists = {{}}
    Capable <- MCCapable
    CoreProcessors = {p1, p2}
    ReportTolerance = 2
    MatchingCompetingDueDelta = 2
    MatchingCompetingMinInterval = 2
    MaxSlots = 2
    MAX_EXECUTIONS_PER_JOB = 3
    MatcherPercentage = 50
    FeePercentage = 50
    InitialBalances <- MCBalances
    MaxTime = 20
    SampleSchedules <- SmallSchedules
    SampleDelays <- SmallDelays
    LastTime = 9
INVARIANT RewardedOncePerExecution
CHECK_DEADLOCK FALSE
