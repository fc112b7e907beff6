SPECIFICATION Spec
CONSTANTS
    RAY = 12
    WAD = 2
    EpochLength = 1
    ConfigChangeDelay = 1
    MaxJitAdvance = 2
    MaxPositionsPerAccount = 1
    MaxBatch = 2
    BPS = 10
    Supply = 12
    Payers = {a}
    Owners = {a, b}
    NoConfig = NoConfig
    Configs <- Curves
    InitialConfig <- Steep
    ProposedConfigs <- Curves
    Amounts = {2}
    Durations = {1, 2}
    Extensions = {1}
    Deposits = {}
    Donations = {}
    EthRewards = {}
    TokenRewards = {4}
    FeeBpsChoices = {}
    FlatFeeChoices = {}
    EmissionTargets = {0}
    ReserveMoods = {"answers"}
    InitialReserve <- WiredReserve
    AdvanceSteps = {1}
    MaxTime = 4
    MaxPositions = 2
    EpochBound = 6
    MaxEth = 0
    MaxToken = 4
INVARIANTS
    TypeOK
    PrincipalConserved
    WeightAggregatesExact
    OwnerCountExact
    StagedConfigOnTime
    TokenRewardsFunded
PROPERTIES
    CustodyHeld
CHECK_DEADLOCK FALSE
