SPECIFICATION Spec
CONSTANTS
    alice = alice
    bob = bob
    Accounts <- TwoAccounts
    None = None
    MaxClicks = 3
    MaxFaults = 2
INVARIANTS
    TypeOK
    OneAtATime
    AddressFollows
    BalanceFollows
    NotesOffered
PROPERTIES LoadingEnds
\* The page may be left alone.
CHECK_DEADLOCK FALSE
