SPECIFICATION KeeperSpec
CONSTANTS
    RAY = 12
    WAD = 2
    EpochLength = 1
    ConfigChangeDelay = 1
    MaxJitAdvance = 1
    MaxPositionsPerAccount = 2
    MaxBatch = 2
    BPS = 10
    Supply = 9
    Payers = {a}
    Owners = {a}
    NoConfig = NoConfig
    Configs <- OneCurve
    InitialConfig <- Steep
    ProposedConfigs <- OneCurve
    Amounts = {2}
    Durations = {2}
    Extensions = {1}
    Deposits = {2}
    Donations = {2}
    EthRewards = {}
    TokenRewards = {}
    FeeBpsChoices = {}
    FlatFeeChoices = {}
    EmissionTargets = {2}
    ReserveMoods = {"answers", "mute", "refuses"}
    InitialReserve <- FundedReserve
    AdvanceSteps = {1}
    MaxTime = 5
    MaxPositions = 2
    EpochBound = 6
    MaxEth = 0
    MaxToken = 4
    BatchSize = 1
    MaxBatches = 2
    MaxBacklog = 2
    MaxFaults = 2
PROPERTIES
    BacklogClears
    StagedConfigResolves
CHECK_DEADLOCK FALSE
