SPECIFICATION ReduceSpec
CONSTANTS
    WIDTH = 32
    BASE = 256
    BN254_FR_MODULUS <- RealModulus
    BN254_MODULUS <- RealClientModulus
    ITERATIONS = 4
    Keys <- RealKeys
INVARIANTS SameFieldElement
\* The function returns.
CHECK_DEADLOCK FALSE
