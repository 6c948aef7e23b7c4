SPECIFICATION ChainsSpec
CONSTANTS
    alice = alice
    proxy = proxy
    n1 = n1
    p1 = p1
    p2 = p2
    RemoteMessages <- MCRemoteMessages
    Accounts = {alice, relayer}
    Remotes = {proxy}
    Senders = {alice}
    Relayers = {relayer}
    Nonces = {n1}
    Payloads = {p1, p2}
    Keys = {o1, f1}
    Faulty = {f1}
    None = None
    ExistentialDeposit = 1
    InitialBalances <- MCBalances
    Contract = proxy
    Configs <- MCConfigs
    InitialConfig <- MCInitialConfig
    InitialWallet <- MCWallet
    Submissions <- MCSubmissions
    MaxHeight = 1
    MaxMessages = 3
    Windows <- MCWindows
    MinTTL = 0
    IncomingTTL = 1
    MinFee = 1
    MinDeliveryConfirmationSignatures = 2
    MinReceiptConfirmationSignatures = 2
    Fees = {1}
    TTLs = {0}
    MaxSignatures = 2
    MaxBlock = 3
    MaxCounter = 1
SYMMETRY PayloadSymmetry
ACTION_CONSTRAINT OneDirection
INVARIANTS
    ClaimedOnlyIfRelayed
    FeesCovered
    LookupsConsistent
    HeldIsOwedFees
    PaidOnlyForDelivery
    AcceptedOnlyIfEmitted
PROPERTIES
    ContractIsRemote
    NoReplayWithinTTL
CHECK_DEADLOCK FALSE
