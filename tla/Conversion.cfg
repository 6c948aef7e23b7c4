SPECIFICATION ConversionSpec
CONSTANTS
    None = None
    alice = alice
    sponsor = sponsor
    PalletAccount = pallet
    Relayer = relayer
    Accounts = {alice, sponsor, pallet, relayer}
    Converters = {alice}
    Payers = {alice, sponsor}
    ExistentialDeposit = 1
    Liquidity = 1
    MinTransferAmount = 2
    ConvertTTL = 1
    MinLockDuration = 1
    MaxLockDuration = 3
    Accuracy = 1000
    MinFee = 1
    IncomingTTL = 1
    Fees = {1, 2}
    SlashAmounts = {1, 5}
    SourceBalances <- MCSource
    DestinationBalances <- MCDestination
    TopUp = 2
    MaxConversions = 2
INVARIANTS
    LockCanBeLifted
PROPERTIES
    RefundReachesPayer
    ConversionCompletes
CHECK_DEADLOCK FALSE
