SPECIFICATION Spec
CONSTANTS
    RAY = 12
    WAD = 2
    EpochLength = 1
    ConfigChangeDelay = 1
    MaxJitAdvance = 2
    MaxPositionsPerAccount = 2
    MaxBatch = 2
    BPS = 2
    Supply = 9
    Payers = {a}
    Owners = {a}
    NoConfig = NoConfig
    Configs <- PlainOnly
    InitialConfig <- Plain
    ProposedConfigs = {}
    Amounts = {1}
    Durations = {2, 3}
    Extensions = {1}
    Deposits = {}
    Donations = {1}
    EthRewards = {3}
    TokenRewards = {}
    FeeBpsChoices = {1}
    FlatFeeChoices = {1}
    EmissionTargets = {3}
    ReserveMoods = {"answers"}
    InitialReserve <- FundedReserve
    AdvanceSteps = {1}
    MaxTime = 5
    MaxPositions = 2
    EpochBound = 8
    MaxEth = 3
    MaxToken = 0
CONSTRAINT NaraOrEth
INVARIANTS
    NaraRewardsConserved
    NaraBooksBalance
    EthRewardsConserved
CHECK_DEADLOCK FALSE
