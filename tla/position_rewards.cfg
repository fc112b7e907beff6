SPECIFICATION RewardsSpec
CONSTANTS
    RAY = 10
    BPS = 2
    Assets = {eth, usdc}
    MaxTokens = 2
    Tokens <- TwoTokens
    Owners = {a, b}
    NoOne = NoOne
    Amounts = {1, 2}
    Multipliers = {3}
    Rewards = {1}
    MaxReceived = 1
    MaxAllocations = 2
    Nfts = {1}
    Holders = {x, y, z}
    FractionCounts = {3}
    Principals = {4}
    Answers <- MCAnswers
    MaxContracts = 2
    MaxRewards = 2
INVARIANTS
    WeightsAgree
    RewardsBacked
    RewardsHaveAnOwner
    FractionsBacked
    PrincipalSharedOut
    WrapperHoldsToken
PROPERTIES
    CreditedOnce
SYMMETRY UserSymmetry
CHECK_DEADLOCK FALSE
