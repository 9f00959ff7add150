SPECIFICATION Spec
CONSTANTS
    r1 = r1
    r2 = r2
    r3 = r3
    Requests <- Three
    Nothing = Nothing
    MaxFailures = 0
INVARIANTS OwnProof

\* Every request is over in the end.
CHECK_DEADLOCK FALSE
