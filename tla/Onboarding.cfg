SPECIFICATION ManagerSpec
CONSTANTS
    None = None
    p1 = p1
    p2 = p2
    m1 = m1
    funds = funds
    root = root
    batch1 = batch1
    batch2 = batch2
    Processors = {p1, p2}
    Managers = {m1, p2}
    Accounts = {p1, p2, m1, funds}
    FundsAccount = funds
    ExistentialDeposit = 1
    Serials = {batch1}
    Chains <- MCChains
    SettingsChoices <- MCSettings
    InitialBalances <- MCBalances
    PairingProofExpirationTime = 1
    Fees = {1, 2}
    MaxCounter = 2
    LastTime = 1
INVARIANTS
    PairingIndexesMirror
    ConsentUsedOnce
    ValidatedIsPayable
    VerifiedByOwnUnrevokedKey
PROPERTIES
    FundingPairs
    VerifiedOnlyByUsableChain
CHECK_DEADLOCK FALSE
