SPECIFICATION FairSpec
CONSTANTS
    RAY = 4
    BPS = 2
    MIN_INITIAL_DEPOSIT = 3
    DEAD_SHARES = 1
    TARGET_LOCK_EPOCHS = 1
    MAX_POSITIONS = 2
    Users = {a}
    Dead = Dead
    NoOne = NoOne
    DepositAmounts = {3}
    ShareAmounts = {1, 2}
    LockAmounts = {2}
    LockFees = {1}
    InitialBountyBps = 1
    BountyChoices = {}
    PauseChoices = {TRUE}
    EmergencyChoices = {TRUE}
    Answers = {{}}
    Rewards = {}
    MaxTokens = 3
    MaxRedemptions = 2
    MaxEpoch = 4
    MaxNara = 6
    MaxReward = 0
INVARIANTS
    QueueBacked
    PositionsIndexed
    ReadyMeansPayable
PROPERTIES
    RedemptionsPaid
CHECK_DEADLOCK FALSE
