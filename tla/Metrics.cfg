SPECIFICATION MetricsSpec
CONSTANTS
    None = None
    Distribution = Distribution
    Author = Author
    Processors = {p1, p2}
    Managers = {m1, m2}
    Accounts = {m1, m2, Author, Distribution}
    ExistentialDeposit = 1
    Epoch = 1
    WarmupPeriod = 1
    MetricValidity = 2
    Accuracy = 12
    BusyWeightBonus = 6
    InflationPerEpoch = 12
    InflationStakedComputeRatio = 2
    InflationMetricsRatio = 6
    InflationCollatorsRatio = 2
    MaxPools = 3
    n1 = n1
    n2 = n2
    GenesisPools <- MCGenesis
    InflationFromStart = TRUE
    MaxChanges = 2
    MaxAhead = 2
    Names = {n1, n2, n3}
    Ratios = {5}
    Inputs <- MCInputs
    InitialBalances <- MCBalances
    MaxBlock = 3
SYMMETRY MetricsSymmetry
INVARIANTS
    RatiosAddUp
    ClaimsWithinBudget
CHECK_DEADLOCK FALSE
