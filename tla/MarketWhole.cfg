SPECIFICATION MarketSpec
CONSTANTS
    None = None
    All = All
    Pallet = Pallet
    FeeManager = FeeManager
    Hyperdrive = Hyperdrive
    Accounts = {alice, bob, Pallet, FeeManager, Hyperdrive}
    ExistentialDeposit = 1
    Processors = {p1, p2}
    Consumers = {alice}
    Matchers = {bob}
    MaxJobs = 0
    ProxySequence = {7}
    Registrations <- WholeRegistrations
    Fees = {1, 3}
    StartDelays = {0, 1}
    ProposedExecutions = {All}
    SourceLists = {{}, {p1}, {p2}}
    Capable <- MCCapable
    CoreProcessors = {p1, p2}
    ReportTolerance = 1
    MatchingCompetingDueDelta = 2
    MatchingCompetingMinInterval = 2
    MaxSlots = 2
    MAX_EXECUTIONS_PER_JOB = 2
    MatcherPercentage = 50
    FeePercentage = 50
    InitialBalances <- MCBalances
    MaxTime = 20
    SampleSchedules <- SmallSchedules
    SampleDelays <- SmallDelays
    LastTime = 6
SYMMETRY ProcessorSymmetry
INVARIANTS
    AssignedMirrorsMatches
    NoOrphanAssignments
    MatchedIsAdvertised
    PalletBacksBudgets
    RewardedOncePerExecution
    SingleJobSolvent
    DeregisterNeverBlocked
CHECK_DEADLOCK FALSE
