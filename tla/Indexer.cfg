SPECIFICATION Spec
CONSTANTS
    PAGE_SIZE = 2
    MAX_PAGES = 2
    n1 = n1
    Nullifiers <- OneNullifier
    MaxTxs = 5
    MaxDeposits = 2
    Faults <- AllFaults
    MaxFaults = 1
    MaxCrashes = 1
INVARIANTS TypeOK   
  
