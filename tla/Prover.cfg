SPECIFICATION Spec
CONSTANTS
    r1 = r1
    r2 = r2
    r3 = r3
    Requests <- Three
    Nothing = Nothing
    MaxFailures = 2
INVARIANTS NoStaleProof WitnessesRemoved
SYMMETRY Symmetry

\* Every request is over in the end.
CHECK_DEADLOCK FALSE
