SPECIFICATION Spec
CONSTANTS
    ROOT_HISTORY_SIZE = 2
    alice = alice
    bob = bob
    c1 = c1
    empty = empty
    r1 = r1
    r2 = r2
    n1 = n1
    n2 = n2
    Wallets <- WalletSet
    Commitments <- CommitmentSet
    Roots <- RootSet
    NullifierHashes <- NullifierHashSet
    EMPTY_ROOT = empty
    Lamports <- LamportSet
    MIN_DEPOSIT_AMOUNT = 2
    MAX_LEAVES = 2
    PROOF_LENGTH = 3
    Statements <- StatementSet
    NoPool = NoPool
    NoTx = NoTx
INVARIANTS
    FormAccepted
    ParsedAsMeant
    
    PageShowsLedger
PROPERTIES
    ProgramSpec
