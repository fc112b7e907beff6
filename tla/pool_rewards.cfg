SPECIFICATION Spec
CONSTANTS
    RAY = 4
    BPS = 2
    MIN_INITIAL_DEPOSIT = 3
    DEAD_SHARES = 1
    TARGET_LOCK_EPOCHS = 0
    MAX_POSITIONS = 1
    Users = {a, b}
    Dead = Dead
    NoOne = NoOne
    DepositAmounts = {3}
    ShareAmounts = {2}
    LockAmounts = {2}
    LockFees = {0}
    InitialBountyBps = 1
    BountyChoices = {0}
    PauseChoices = {}
    EmergencyChoices = {}
    Answers = {{}, {"claimRewards", "claimTokenRewards"}}
    Rewards = {2}
    MaxTokens = 1
    MaxRedemptions = 1
    MaxEpoch = 1
    MaxNara = 8
    MaxReward = 2
INVARIANTS
    RewardsBacked
PROPERTIES
    ShareValueKept
SYMMETRY UserSymmetry
CHECK_DEADLOCK FALSE
