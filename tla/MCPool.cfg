SPECIFICATION Spec
CONSTANTS
    k1 = k1
    k2 = k2
    r1 = r1
    r2 = r2
    zero = zero
    n1 = n1
    n2 = n2
    c1 = c1
    x1 = x1
    x2 = x2
    Pubkeys <- MCPubkeys
    Commitments = {c1}
    Roots <- MCRoots
    EMPTY_ROOT = zero
    NullifierHashes = {n1, n2}
    Amounts = {1, 2, 3}
    MIN_DEPOSIT_AMOUNT = 2
    MAX_LEAVES = 5
    ROOT_HISTORY_SIZE = 3
    ReducedKey <- MCReducedKey
    Provable <- MCProvable
    NoPool = NoPool
INVARIANTS TypeOK RootWindow LeavesDense SpentOnce
PROPERTY LedgerSpec
\* A full tree with both nullifiers spent has nothing left to do.
CHECK_DEADLOCK FALSE
