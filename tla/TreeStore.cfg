SPECIFICATION Spec
CONSTANTS
    c1 = c1
    c2 = c2
    c3 = c3
    c4 = c4
    c5 = c5
    EMPTY_LEAF = EMPTY_LEAF
    Missing = Missing
    Hash <- MCHash
    DEPTH = 3
    Leaves <- FiveLeaves
    MaxFailures = 2
    MaxCrashes = 1
INVARIANTS TypeOK StoreIsCut ProofVerifiesInSync
PROPERTIES SizeCommits CatchesUp

\* The deposits of the instance come to an end.
CHECK_DEADLOCK FALSE
