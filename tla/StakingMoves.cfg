SPECIFICATION StakingSpec
CONSTANTS
    None = None
    Distribution = Distribution
    Committers = {c1, c2}
    Delegators = {c1, c2}
    Slashers = {s1}
    Accounts = {s1, c1, c2, Distribution}
    ExistentialDeposit = 1
    Epoch = 1
    MinCooldownPeriod = 1
    MaxCooldownPeriod = 2
    RedelegationBlockingPeriod = 1
    MinStake = 8
    MinDelegation = 1
    MaxDelegationRatio = 90
    CooldownRewardRatio = 50
    BaseSlashRation = 50
    SlashRewardRatio = 10
    Commission = 25
    PER_TOKEN_DECIMALS = 1000
    ScoreLimit = 8
    Inflation = 4
    Amounts = {8}
    StakePeriods = {1}
    DelegationPeriods = {1}
    InitialBalances <- TwoStakes
    MaxBlock = 2
SYMMETRY CommitterSymmetry
INVARIANTS
    LocksAreStakes
    WeightsAreSums
CHECK_DEADLOCK FALSE
