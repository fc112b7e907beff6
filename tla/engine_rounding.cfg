SPECIFICATION Spec
CONSTANTS
    RAY = 12
    WAD = 2
    EpochLength = 1
    ConfigChangeDelay = 1
    MaxJitAdvance = 2
    MaxPositionsPerAccount = 3
    MaxBatch = 2
    BPS = 2
    Supply = 12
    Payers = {a}
    Owners = {a}
    NoConfig = NoConfig
    Configs <- ShortOnly
    InitialConfig <- Short
    ProposedConfigs = {}
    Amounts = {1}
    Durations = {2, 3}
    Extensions = {}
    Deposits = {}
    Donations = {}
    EthRewards = {}
    TokenRewards = {}
    FeeBpsChoices = {}
    FlatFeeChoices = {}
    EmissionTargets = {0, 1}
    ReserveMoods = {"answers"}
    InitialReserve <- RoundingReserve
    AdvanceSteps = {1}
    MaxTime = 6
    MaxPositions = 3
    EpochBound = 8
    MaxEth = 0
    MaxToken = 0
INVARIANTS
    EngineBalanceCoversObligations
CHECK_DEADLOCK FALSE
