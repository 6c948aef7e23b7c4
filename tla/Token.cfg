SPECIFICATION TokenSpec
CONSTANTS
    alice = alice
    pallet = pallet
    vault = vault
    feeVault = feeVault
    proxy = proxy
    stranger = stranger
    eve = eve
    Accounts = {alice, pallet, vault, feeVault}
    Users = {alice}
    Senders = {}
    Relayers = {alice}
    Remotes = {proxy, stranger}
    Contracts = {proxy}
    Dests = {eve}
    PalletAccount = pallet
    EthereumVault = vault
    EthereumFeeVault = feeVault
    OperationalFeeAccount = alice
    None = None
    Keys = {o1, f1}
    Faulty = {f1}
    ExistentialDeposit = 1
    InitialBalances <- MCBalances
    InitialSupply = 2
    Payloads <- MCPayloads
    Nonces <- MCNonces
    RemoteMessages <- MCRemoteMessages
    Windows <- MCWindows
    MinTTL = 1
    DefaultOutgoingTransferTTL = 1
    IncomingTTL = 1
    MinFee = 1
    MinTransferAmount = 1
    MinDeliveryConfirmationSignatures = 2
    MinReceiptConfirmationSignatures = 2
    Fees = {1, 2}
    TTLs = {0}
    Amounts = {1}
    MaxSignatures = 2
    MaxBlock = 3
    MaxCounter = 0
    MaxTransfers = 1
    MaxEnables = 1
ACTION_CONSTRAINT OneDirection
INVARIANTS
    VaultBacksSupply
    RetryNeverBlocked
PROPERTIES
    ImplementsBridge
CHECK_DEADLOCK FALSE
