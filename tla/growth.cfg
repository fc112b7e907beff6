SPECIFICATION Spec
CONSTANTS
    BPS = 4
    Compounders = {c1, c2}
    None = None
    FEE_UPDATE_DELAY = 2
    MIN_PROTOCOL_DEPTH = 2
    InitialCurves <- MCInitialCurves
    TARGET_UPDATE_DELAY = 2
    MAX_KEEPER_BOUNTY_BPS = 2
    Distributors = {d1, d2}
    RECOVERY_DELAY = 3
    Vault = Vault
    Outside = Outside
    V4_COMPOUNDER = c1
    DeadlineWindow = 1
    JobTimeout = 1
    GuardBps = 3
    MinLiquidity = 1
    SwapAmounts = {1, 3}
    Donations = {1}
    Curves <- MCCurves
    Depths <- MCDepths
    Distributable = {1, 2}
    Bounties <- MCBounties
    Shares = {2}
    Modes = {"Liquidity", "Genesis", "GenesisSplit"}
    Limit <- MCLimit
    Prices <- MCPrices
    MaxNow = 4
    MaxFlow = 6
    MaxTotal = 2
CONSTRAINT OneTopic
SYMMETRY Symmetry
INVARIANTS
    FeeFollowsCurve
    BooksBalance
    OneDistributorPaid
PROPERTIES
    ChangesAnnounced
    CompoundsVerifiedPosition
CHECK_DEADLOCK FALSE
