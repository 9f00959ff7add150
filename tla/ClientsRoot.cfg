SPECIFICATION Spec
CONSTANTS
    t1 = t1
    t2 = t2
    b1 = b1
    b2 = b2
    n1 = n1
    n2 = n2
    n3 = n3
    Tabs = {t1, t2}
    Browsers = {b1, b2}
    BrowserOf <- TwoBrowsers
    Notes = {n1, n2}
    DepositAmounts = {2}
    FormAmount = 2
    MIN_DEPOSIT = 1
    MAX_LEAVES = 3
    ROOT_HISTORY_SIZE = 2
    EMPTY_ROOT = EMPTY_ROOT
    NoPool = NoPool
    Recipient = Recipient
    MaxSent = 4
    MaxLosses = 0
    MaxReloads = 0
INVARIANTS RootIsTree

\* The instance runs out of notes and of transactions to send.
CHECK_DEADLOCK FALSE
