SPECIFICATION SaleSpec
CONSTANTS
    m1 = m1
    m2 = m2
    Markets = {m1, m2}
    Depositories = {m1}
    None = None
    ActionDelay = 1
    InitialAllocation = 4
    Buyers = {a}
    Treasuries = {t1, t2}
    BPS = 4
    WAD = 2
    AdminDelay = 1
    MIN_PRICE_DELAY = 1
    MAX_TERMS_AGE = 2
    InitialTerms <- MCInitialTerms
    InitialTreasury = t1
    Sheets <- MCSheets
    Gifts = {1, 4}
    Capacities = {4}
    Caps = {1, 3, 4}
    Deposits = {2}
    PayoutBounds <- MCPayoutBounds
    Windows = {0, 1}
    LockFees <- MCLockFees
    MaxNow = 3
    MaxNara = 5
    MaxQuotes = 2
    MaxBonds = 2
    Prices = {1, 2, 3}
    Ranges <- MCRanges
    MAX_SETTLE_BATCH = 2
    MaxOrders = 3
    MaxTokens = 4
CONSTRAINT OneTopic
INVARIANTS
    BudgetHeld
    QuotesHonoured
    EthAccounted
    ActiveOrdersExact
PROPERTIES
    BondChangesAnnounced
    NewOrdersWait
CHECK_DEADLOCK FALSE
