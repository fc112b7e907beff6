SPECIFICATION Spec
CONSTANTS
    RAY = 10
    BPS = 2
    Assets = {eth}
    MaxTokens = 2
    Tokens <- TwoTokens
    Owners = {a}
    NoOne = NoOne
    Amounts = {1, 2}
    Multipliers = {3}
    Rewards = {1}
    MaxReceived = 1
    MaxAllocations = 2
INVARIANTS
    RemainderCarriedOnce
CHECK_DEADLOCK FALSE
