----------------------------- MODULE FieldReduce -----------------------------
(***************************************************************************)
(* How a recipient's key becomes a field element: reduce_to_field of the   *)
(* program (instructions.rs), a loop of byte-wise subtractions, next to    *)
(* reduceToField of the web client (useWithdraw.ts), a BigInt remainder.   *)
(* The two run on different machines and must agree, or the public inputs  *)
(* the program rebuilds are not the ones the client proved.                *)
(*                                                                         *)
(* A number is a big-endian sequence of WIDTH digits below BASE; the code  *)
(* has WIDTH = 32 and BASE = 256.                                          *)
(*                                                                         *)
(* One call of the function is a behaviour of ReduceSpec.                  *)
(***************************************************************************)
EXTENDS Integers

CONSTANTS
    WIDTH, BASE,
    BN254_FR_MODULUS,   \* the constant of instructions.rs
    BN254_MODULUS,      \* the constant of useWithdraw.ts
    ITERATIONS,         \* subtractions the program is ready to make
    Keys                \* the inputs

\* A byte, and [u8; 32].
Digits == 0 .. (BASE - 1)
Numbers == [1 .. WIDTH -> Digits]

ASSUME DigitAssumption ==
    /\ WIDTH \in Nat \ {0} /\ BASE \in Nat \ {0, 1}
    /\ ITERATIONS \in Nat
    /\ BN254_FR_MODULUS \in Numbers /\ BN254_MODULUS \in Numbers
    /\ Keys \subseteq Numbers

VARIABLES
    bytes,    \* the argument of reduce_to_field
    result,   \* its local of that name
    i,        \* subtractions made
    stage        \* "check" | "loop" | "done"

locals == <<bytes, result, i, stage>>

-----------------------------------------------------------------------------
\* The order of byte arrays is lexicographic, which for big-endian digits is
\* the order of the numbers.
Less(a, b) ==
    \E k \in 1 .. WIDTH :
        /\ a[k] < b[k]
        /\ \A j \in 1 .. (k - 1) : a[j] = b[j]

\* The place of the j-th digit from the right.
FromRight(j) == WIDTH + 1 - j

\* What the last j digits of a - b borrow from the one before them.
Borrows(a, b) ==
    LET borrow[j \in 0 .. WIDTH] ==
            IF j = 0 THEN 0
            ELSE IF a[FromRight(j)] - b[FromRight(j)] - borrow[j - 1] < 0 THEN 1 ELSE 0
    IN  borrow

\* Mutant: a borrow stops at a digit where a and b agree.
sub_256_local(a, b) ==
    [k \in 1 .. WIDTH |->
        IF k < WIDTH /\ a[k + 1] < b[k + 1] THEN (a[k] - b[k] - 1) % BASE
                                           ELSE (a[k] - b[k]) % BASE]

\* sub_256: a negative difference of two digits borrows BASE.
sub_256(a, b) ==
    LET borrow == Borrows(a, b)
    IN  [k \in 1 .. WIDTH |-> (a[k] - b[k] - borrow[WIDTH - k]) % BASE]

\* The client's remainder: the first of x, x - m, x - 2m, ... below m.
Remainder(x, m) ==
    LET remainder[r \in Numbers] ==
            IF Less(r, m) THEN r ELSE remainder[sub_256(r, m)]
    IN  remainder[x]

reduceToField(x) == Remainder(x, BN254_MODULUS)

-----------------------------------------------------------------------------
ReduceInit ==
    /\ bytes \in Keys
    /\ result = bytes
    /\ i = 0
    /\ stage = "check"

\* A number below the modulus is returned as it is.
EarlyReturn ==
    /\ stage = "check"
    /\ Less(bytes, BN254_FR_MODULUS)
    /\ stage' = "done"
    /\ UNCHANGED <<bytes, result, i>>

EnterLoop ==
    /\ stage = "check"
    /\ ~Less(bytes, BN254_FR_MODULUS)
    /\ stage' = "loop"
    /\ UNCHANGED <<bytes, result, i>>

\* Mutant: one iteration fewer.
LoopBound_short == ITERATIONS - 1

LoopBound == ITERATIONS

Subtract ==
    /\ stage = "loop"
    /\ i < LoopBound
    /\ ~Less(result, BN254_FR_MODULUS)
    /\ result' = sub_256(result, BN254_FR_MODULUS)
    /\ i' = i + 1
    /\ UNCHANGED <<bytes, stage>>

\* The loop breaks when the number is small enough, or runs out of iterations.
Return ==
    /\ stage = "loop"
    /\ i = LoopBound \/ Less(result, BN254_FR_MODULUS)
    /\ stage' = "done"
    /\ UNCHANGED <<bytes, result, i>>

ReduceNext == EarlyReturn \/ EnterLoop \/ Subtract \/ Return

ReduceSpec == ReduceInit /\ [][ReduceNext]_locals

-----------------------------------------------------------------------------
(***************************************************************************)
(* Properties.                                                             *)
(***************************************************************************)

\* What the last j digits of a + n * m carry to the one before them.
Carries(a, m, n) ==
    LET carry[j \in 0 .. WIDTH] ==
            IF j = 0 THEN 0
            ELSE (a[FromRight(j)] + n * m[FromRight(j)] + carry[j - 1]) \div BASE
    IN  carry

\* a + n * m, and what does not fit in WIDTH digits: the reference that
\* subtraction is checked against.
PlusMultiple(a, m, n) ==
    LET carry == Carries(a, m, n)
    IN  [digits |-> [k \in 1 .. WIDTH |-> (a[k] + n * m[k] + carry[WIDTH - k]) % BASE],
         carry  |-> carry[WIDTH]]

\* At every step of the loop the number is the argument less the modulus times
\* the subtractions made, never wrapped around below zero: the byte-wise borrow
\* of sub_256 is right and the loop never subtracts from a smaller number
\* (instructions.rs:19-33, 44-50).
Exact ==
    PlusMultiple(result, BN254_FR_MODULUS, i) = [digits |-> bytes, carry |-> 0]

\* ITERATIONS + 1 times the modulus: the first argument the loop is too short for.
TooLarge(x) ==
    LET limit == PlusMultiple([k \in 1 .. WIDTH |-> 0], BN254_FR_MODULUS, ITERATIONS + 1)
    IN  limit.carry = 0 /\ ~Less(x, limit.digits)

\* "the input is < 2^256 and the modulus about 2^254, so 4 iterations are enough"
\* (instructions.rs:42-43): exactly as long as the argument is below 5 times the
\* modulus is what is returned below the modulus, and then it is the remainder.
\* 2^256 is 5.29 times the modulus, so a few recipients are beyond that.
ReducedUnlessTooLarge ==
    stage = "done" =>
        /\ Less(result, BN254_FR_MODULUS) <=> ~TooLarge(bytes)
        /\ ~TooLarge(bytes) => result = Remainder(bytes, BN254_FR_MODULUS)

\* The program and the client reduce a recipient to the same field element,
\* "the scalar field of BN254" (instructions.rs:12; useWithdraw.ts:25-40).
SameFieldElement == stage = "done" => result = reduceToField(bytes)
=============================================================================
