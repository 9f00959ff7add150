--------------------------- MODULE WithdrawalProofs ---------------------------
(***************************************************************************)
(* Theorems about two parts that a withdrawal passes through.              *)
(*                                                                         *)
(* FieldReduce: reduce_to_field, for every base, width, modulus and number *)
(* of iterations.  Value is the number a sequence of digits stands for.    *)
(* Less is the order of values, sub_256 subtracts values where the second  *)
(* is not the larger, PlusMultiple adds and multiplies them, and the       *)
(* invariant of the loop is an equation between values.                    *)
(*                                                                         *)
(* Prover: the prover service, for any number of requests and of failures: *)
(* what a request is answered with, and what it leaves behind.             *)
(***************************************************************************)
EXTENDS FieldReduce, Prover, Sums, TLAPS

\* What a digit in each place is worth, from the right.
Weight[j \in 0 .. WIDTH] == IF j = 0 THEN 1 ELSE BASE * Weight[j - 1]

\* The numbers the last j digits of a stand for.
Tail(a) ==
    LET tail[j \in 0 .. WIDTH] ==
            IF j = 0 THEN 0 ELSE a[FromRight(j)] * Weight[j - 1] + tail[j - 1]
    IN  tail

Value(a) == Tail(a)[WIDTH]

LoopInv ==
    /\ bytes \in Keys /\ result \in Numbers
    /\ i \in 0 .. ITERATIONS
    /\ stage \in {"check", "loop", "done"}
    /\ stage = "check" => result = bytes /\ i = 0
    /\ Value(result) + i * Value(BN254_FR_MODULUS) = Value(bytes)
    /\ Remainder(result, BN254_FR_MODULUS) = Remainder(bytes, BN254_FR_MODULUS)
    /\ stage = "done" => i = ITERATIONS \/ Less(result, BN254_FR_MODULUS)

-----------------------------------------------------------------------------
(***************************************************************************)
(* Recursive functions of a place.                                         *)
(***************************************************************************)

\* From x0, one step for each number up to n.
Iterated(f, n, x0, step) == f[0] = x0 /\ \A k \in 1 .. n : f[k] = step[k][f[k - 1]]

\* There is such a function.
LEMMA Iterates ==
    ASSUME NEW n \in Nat, NEW T, NEW x0 \in T, NEW step \in [1 .. n -> [T -> T]]
    PROVE  \E f \in [0 .. n -> T] : Iterated(f, n, x0, step)
<1>. DEFINE Is(f, m) == Iterated(f, m, x0, step)
            S == {m \in 0 .. n : \E f \in [0 .. m -> T] : Is(f, m)}
<1>1. 0 \in S
    <2>. DEFINE g == [k \in 0 .. 0 |-> x0]
    <2>1. g \in [0 .. 0 -> T] /\ Is(g, 0)
        BY DEF Iterated
    <2>. HIDE DEF Is, g
    <2>. QED
        BY <2>1
<1>2. ASSUME NEW m \in 0 .. n, m < n, m \in S
      PROVE  m + 1 \in S
    <2>1. PICK f \in [0 .. m -> T] : Is(f, m)
        BY <1>2
    <2>. DEFINE g == [k \in 0 .. m + 1 |-> IF k = m + 1 THEN step[m + 1][f[m]] ELSE f[k]]
    <2>2. step[m + 1][f[m]] \in T
        <3>1. m + 1 \in 1 .. n /\ f[m] \in T
            BY <1>2, <2>1
        <3>2. step[m + 1] \in [T -> T]
            BY <3>1
        <3>. QED
            BY <3>1, <3>2
    <2>3. g \in [0 .. m + 1 -> T]
        BY <2>1, <2>2
    <2>4. ASSUME NEW k \in 1 .. m + 1
          PROVE  g[k] = step[k][g[k - 1]]
        <3>1. CASE k = m + 1
            BY <3>1
        <3>2. CASE k # m + 1
            <4>1. k \in 1 .. m /\ k - 1 \in 0 .. m
                BY <3>2
            <4>2. g[k] = f[k] /\ g[k - 1] = f[k - 1]
                BY <4>1
            <4>. QED
                BY <2>1, <4>1, <4>2 DEF Iterated
        <3>. QED
            BY <3>1, <3>2
    <2>5. Is(g, m + 1)
        BY <2>1, <2>4 DEF Iterated
    <2>6. m + 1 \in 0 .. n
        BY <1>2
    <2>. HIDE DEF Is, g
    <2>. QED
        BY <2>3, <2>5, <2>6
<1>3. \A m \in 0 .. n : m \in S
    <2>. HIDE DEF S
    <2>. QED
        BY <1>1, <1>2, UpTo
<1>. QED
    BY <1>3

LEMMA PlaceFacts ==
    \A j \in 0 .. WIDTH : j # 0 => FromRight(j) \in 1 .. WIDTH /\ j - 1 \in 0 .. WIDTH
BY DigitAssumption DEF FromRight

\* Every place of a number is j from the right for some j.
LEMMA PlaceOf ==
    ASSUME NEW k \in 1 .. WIDTH
    PROVE  WIDTH + 1 - k \in 1 .. WIDTH /\ FromRight(WIDTH + 1 - k) = k
BY DigitAssumption DEF FromRight

LEMMA WeightDef ==
    /\ Weight \in [0 .. WIDTH -> Nat]
    /\ Weight[0] = 1
    /\ \A j \in 1 .. WIDTH : Weight[j] = BASE * Weight[j - 1]
<1>. USE DigitAssumption
<1>. DEFINE P(f) == f = [j \in 0 .. WIDTH |-> IF j = 0 THEN 1 ELSE BASE * f[j - 1]]
            step == [j \in 1 .. WIDTH |-> [x \in Nat |-> BASE * x]]
<1>1. step \in [1 .. WIDTH -> [Nat -> Nat]]
    OBVIOUS
<1>2. PICK g \in [0 .. WIDTH -> Nat] : Iterated(g, WIDTH, 1, step)
    <2>. HIDE DEF step
    <2>. QED
        BY <1>1, Iterates
<1>3. ASSUME NEW j \in 1 .. WIDTH
      PROVE  g[j] = BASE * g[j - 1]
    <2>1. g[j - 1] \in Nat
        OBVIOUS
    <2>2. g[j] = step[j][g[j - 1]]
        <3>. HIDE DEF step
        <3>. QED
            BY <1>2 DEF Iterated
    <2>. QED
        BY <2>1, <2>2
<1>4. P(g)
    <2>1. g[0] = 1
        BY <1>2 DEF Iterated
    <2>. QED
        BY <1>3, <2>1
<1>5. Weight = CHOOSE f : P(f)
    BY DEF Weight
<1>6. P(Weight)
    <2>. HIDE DEF P
    <2>. QED
        BY <1>4, <1>5
<1>7. \A j \in 1 .. WIDTH : Weight[j] = BASE * Weight[j - 1]
    BY <1>6
<1>. DEFINE S == {j \in 0 .. WIDTH : Weight[j] \in Nat}
<1>8. \A j \in 0 .. WIDTH : j \in S
    <2>1. 0 \in S
        BY <1>6
    <2>2. ASSUME NEW j \in 0 .. WIDTH, j < WIDTH, j \in S
          PROVE  j + 1 \in S
        BY <1>6, <2>2
    <2>. HIDE DEF S
    <2>. QED
        BY <2>1, <2>2, UpTo
<1>9. Weight \in [0 .. WIDTH -> Nat]
    BY <1>6, <1>8
<1>10. Weight[0] = 1
    BY <1>6
<1>. QED
    BY <1>7, <1>9, <1>10

-----------------------------------------------------------------------------
(***************************************************************************)
(* Values, borrows and carries, digit by digit from the right.             *)
(***************************************************************************)

\* A digit of a number.
LEMMA DigitIs ==
    ASSUME NEW a \in Numbers, NEW j \in 1 .. WIDTH
    PROVE  a[FromRight(j)] \in 0 .. BASE - 1 /\ FromRight(j) \in 1 .. WIDTH
<1>1. FromRight(j) \in 1 .. WIDTH
    BY PlaceFacts, DigitAssumption
<1>. QED
    BY <1>1 DEF Numbers, Digits

LEMMA TailDef ==
    ASSUME NEW a \in Numbers
    PROVE  /\ Tail(a) \in [0 .. WIDTH -> Nat]
           /\ Tail(a)[0] = 0
           /\ \A j \in 1 .. WIDTH :
                  Tail(a)[j] = a[FromRight(j)] * Weight[j - 1] + Tail(a)[j - 1]
<1>. USE DigitAssumption
<1>. DEFINE P(f) == f = [j \in 0 .. WIDTH |->
                            IF j = 0 THEN 0
                            ELSE a[FromRight(j)] * Weight[j - 1] + f[j - 1]]
            t(j) == a[FromRight(j)] * Weight[j - 1]
            step == [j \in 1 .. WIDTH |-> [x \in Nat |-> t(j) + x]]
<1>0. \A j \in 1 .. WIDTH : t(j) \in Nat
    <2>. SUFFICES ASSUME NEW j \in 1 .. WIDTH
                  PROVE  t(j) \in Nat
        OBVIOUS
    <2>1. a[FromRight(j)] \in Nat
        BY DigitIs
    <2>2. Weight[j - 1] \in Nat
        BY WeightDef
    <2>. QED
        BY <2>1, <2>2
<1>1. step \in [1 .. WIDTH -> [Nat -> Nat]]
    <2>. HIDE DEF t
    <2>. QED
        BY <1>0
<1>2. PICK g \in [0 .. WIDTH -> Nat] : Iterated(g, WIDTH, 0, step)
    <2>. HIDE DEF step
    <2>. QED
        BY <1>1, Iterates
<1>3. ASSUME NEW j \in 1 .. WIDTH
      PROVE  g[j] = t(j) + g[j - 1]
    <2>1. g[j - 1] \in Nat
        OBVIOUS
    <2>2. g[j] = step[j][g[j - 1]]
        <3>. HIDE DEF step
        <3>. QED
            BY <1>2 DEF Iterated
    <2>. HIDE DEF t
    <2>. QED
        BY <2>1, <2>2
<1>4. P(g)
    <2>1. g[0] = 0
        BY <1>2 DEF Iterated
    <2>. QED
        BY <1>3, <2>1
<1>5. Tail(a) = CHOOSE f : P(f)
    BY DEF Tail
<1>6. P(Tail(a))
    <2>. HIDE DEF P
    <2>. QED
        BY <1>4, <1>5
<1>7. \A j \in 1 .. WIDTH : Tail(a)[j] = t(j) + Tail(a)[j - 1]
    BY <1>6
<1>. DEFINE S == {j \in 0 .. WIDTH : Tail(a)[j] \in Nat}
<1>8. \A j \in 0 .. WIDTH : j \in S
    <2>1. 0 \in S
        BY <1>6
    <2>2. ASSUME NEW j \in 0 .. WIDTH, j < WIDTH, j \in S
          PROVE  j + 1 \in S
        <3>1. j + 1 \in 1 .. WIDTH /\ (j + 1) - 1 = j
            BY <2>2
        <3>. HIDE DEF t
        <3>. QED
            BY <1>0, <1>7, <2>2, <3>1
    <2>. HIDE DEF S
    <2>. QED
        BY <2>1, <2>2, UpTo
<1>9. Tail(a) \in [0 .. WIDTH -> Nat]
    <2>1. Tail(a) = [j \in 0 .. WIDTH |-> Tail(a)[j]]
        BY <1>6
    <2>. QED
        BY <1>8, <2>1
<1>10. Tail(a)[0] = 0
    BY <1>6
<1>. QED
    BY <1>7, <1>9, <1>10

LEMMA BorrowsDef ==
    ASSUME NEW a \in Numbers, NEW b \in Numbers
    PROVE  /\ Borrows(a, b) \in [0 .. WIDTH -> {0, 1}]
           /\ Borrows(a, b)[0] = 0
           /\ \A j \in 1 .. WIDTH :
                  Borrows(a, b)[j]
                      = IF a[FromRight(j)] - b[FromRight(j)] - Borrows(a, b)[j - 1] < 0
                        THEN 1 ELSE 0
<1>. USE DigitAssumption
<1>. DEFINE t(j, x) == IF a[FromRight(j)] - b[FromRight(j)] - x < 0 THEN 1 ELSE 0
            P(f) == f = [j \in 0 .. WIDTH |-> IF j = 0 THEN 0 ELSE t(j, f[j - 1])]
            step == [j \in 1 .. WIDTH |-> [x \in {0, 1} |-> t(j, x)]]
<1>1. step \in [1 .. WIDTH -> [{0, 1} -> {0, 1}]]
    OBVIOUS
<1>2. PICK g \in [0 .. WIDTH -> {0, 1}] : Iterated(g, WIDTH, 0, step)
    <2>1. 0 \in {0, 1}
        OBVIOUS
    <2>. HIDE DEF step
    <2>. QED
        BY <1>1, <2>1, Iterates
<1>3. ASSUME NEW j \in 1 .. WIDTH
      PROVE  g[j] = t(j, g[j - 1])
    <2>1. g[j - 1] \in {0, 1}
        OBVIOUS
    <2>2. g[j] = step[j][g[j - 1]]
        <3>. HIDE DEF step
        <3>. QED
            BY <1>2 DEF Iterated
    <2>. HIDE DEF t
    <2>. QED
        BY <2>1, <2>2
<1>4. P(g)
    <2>1. g[0] = 0
        BY <1>2 DEF Iterated
    <2>. HIDE DEF t
    <2>. QED
        BY <1>3, <2>1
<1>5. Borrows(a, b) = CHOOSE f : P(f)
    BY DEF Borrows
<1>6. P(Borrows(a, b))
    <2>. HIDE DEF P
    <2>. QED
        BY <1>4, <1>5
<1>7. \A j \in 1 .. WIDTH : Borrows(a, b)[j] = t(j, Borrows(a, b)[j - 1])
    <2>. HIDE DEF t
    <2>. QED
        BY <1>6
<1>8. Borrows(a, b) \in [0 .. WIDTH -> {0, 1}]
    BY <1>6
<1>9. Borrows(a, b)[0] = 0
    BY <1>6
<1>. QED
    BY <1>7, <1>8, <1>9

LEMMA CarriesDef ==
    ASSUME NEW a \in Numbers, NEW m \in Numbers, NEW n \in Nat
    PROVE  /\ Carries(a, m, n) \in [0 .. WIDTH -> Nat]
           /\ Carries(a, m, n)[0] = 0
           /\ \A j \in 1 .. WIDTH :
                  Carries(a, m, n)[j]
                      = (a[FromRight(j)] + n * m[FromRight(j)] + Carries(a, m, n)[j - 1])
                            \div BASE
<1>. USE DigitAssumption
<1>. DEFINE u(j)    == a[FromRight(j)] + n * m[FromRight(j)]
            t(j, x) == (u(j) + x) \div BASE
            P(f) == f = [j \in 0 .. WIDTH |-> IF j = 0 THEN 0 ELSE t(j, f[j - 1])]
            step == [j \in 1 .. WIDTH |-> [x \in Nat |-> t(j, x)]]
<1>0. ASSUME NEW j \in 1 .. WIDTH, NEW x \in Nat
      PROVE  t(j, x) \in Nat
    <2>1. a[FromRight(j)] \in Nat /\ m[FromRight(j)] \in Nat
        BY DigitIs
    <2>2. u(j) \in Nat
        BY <2>1
    <2>. HIDE DEF u
    <2>. QED
        BY <2>2
<1>1. step \in [1 .. WIDTH -> [Nat -> Nat]]
    <2>. HIDE DEF t
    <2>. QED
        BY <1>0
<1>2. PICK g \in [0 .. WIDTH -> Nat] : Iterated(g, WIDTH, 0, step)
    <2>. HIDE DEF step
    <2>. QED
        BY <1>1, Iterates
<1>3. ASSUME NEW j \in 1 .. WIDTH
      PROVE  g[j] = t(j, g[j - 1])
    <2>1. g[j - 1] \in Nat
        OBVIOUS
    <2>2. g[j] = step[j][g[j - 1]]
        <3>. HIDE DEF step
        <3>. QED
            BY <1>2 DEF Iterated
    <2>. HIDE DEF t
    <2>. QED
        BY <2>1, <2>2
<1>4. P(g)
    <2>1. g[0] = 0
        BY <1>2 DEF Iterated
    <2>. HIDE DEF t
    <2>. QED
        BY <1>3, <2>1
<1>5. Carries(a, m, n) = CHOOSE f : P(f)
    BY DEF Carries
<1>6. P(Carries(a, m, n))
    <2>. HIDE DEF P
    <2>. QED
        BY <1>4, <1>5
<1>7. \A j \in 1 .. WIDTH : Carries(a, m, n)[j] = t(j, Carries(a, m, n)[j - 1])
    <2>. HIDE DEF t
    <2>. QED
        BY <1>6
<1>8. Carries(a, m, n)[0] = 0
    BY <1>6
<1>. DEFINE S == {j \in 0 .. WIDTH : Carries(a, m, n)[j] \in Nat}
<1>9. \A j \in 0 .. WIDTH : j \in S
    <2>1. 0 \in S
        BY <1>8
    <2>2. ASSUME NEW j \in 0 .. WIDTH, j < WIDTH, j \in S
          PROVE  j + 1 \in S
        <3>1. j + 1 \in 1 .. WIDTH /\ (j + 1) - 1 = j
            BY <2>2
        <3>2. Carries(a, m, n)[j] \in Nat
            BY <2>2
        <3>. HIDE DEF t
        <3>3. Carries(a, m, n)[j + 1] = t(j + 1, Carries(a, m, n)[j])
            BY <1>7, <3>1
        <3>4. t(j + 1, Carries(a, m, n)[j]) \in Nat
            BY <1>0, <3>1, <3>2
        <3>. QED
            BY <3>1, <3>3, <3>4
    <2>. HIDE DEF S
    <2>. QED
        BY <2>1, <2>2, UpTo
<1>10. Carries(a, m, n) \in [0 .. WIDTH -> Nat]
    <2>1. Carries(a, m, n) = [j \in 0 .. WIDTH |-> Carries(a, m, n)[j]]
        <3>. HIDE DEF t
        <3>. QED
            BY <1>6
    <2>. QED
        BY <1>9, <2>1
<1>. QED
    BY <1>7, <1>8, <1>10

\* A product grows with its factor.
LEMMA TimesMonotone ==
    ASSUME NEW x \in Nat, NEW y \in Nat, NEW w \in Nat, x <= y
    PROVE  x * w <= y * w /\ x * w \in Nat /\ y * w \in Nat
<1>1. y * w = x * w + (y - x) * w
    OBVIOUS
<1>2. (y - x) * w \in Nat /\ x * w \in Nat
    OBVIOUS
<1>. QED
    BY <1>1, <1>2

\* What follows a digit is less than one of it.
LEMMA DigitAndRest ==
    ASSUME NEW x \in Nat, NEW y \in Nat, NEW w \in Nat, NEW r \in Nat,
           x < y, r < w
    PROVE  x * w + r < y * w
<1>1. (x + 1) * w <= y * w /\ y * w \in Nat
    BY TimesMonotone
<1>2. (x + 1) * w = x * w + w /\ x * w \in Nat
    OBVIOUS
<1>. QED
    BY <1>1, <1>2

LEMMA TailBound ==
    ASSUME NEW a \in Numbers
    PROVE  \A j \in 0 .. WIDTH : Tail(a)[j] < Weight[j]
<1>. USE DigitAssumption
<1>. DEFINE S == {j \in 0 .. WIDTH : Tail(a)[j] < Weight[j]}
<1>1. 0 \in S
    <2>1. Tail(a)[0] = 0
        BY TailDef
    <2>2. Weight[0] = 1
        BY WeightDef
    <2>. QED
        BY <2>1, <2>2
<1>2. ASSUME NEW j \in 0 .. WIDTH, j < WIDTH, j \in S
      PROVE  j + 1 \in S
    <2>1. j + 1 \in 1 .. WIDTH /\ (j + 1) - 1 = j
        BY <1>2
    <2>. DEFINE x == a[FromRight(j + 1)]
                w == Weight[j]
                r == Tail(a)[j]
    <2>2. x \in Nat /\ x < BASE
        BY <2>1, DigitIs
    <2>3. w \in Nat /\ r \in Nat /\ r < w
        BY <1>2, TailDef, WeightDef
    <2>4. Tail(a)[j + 1] = x * w + r /\ Weight[j + 1] = BASE * w
        BY <2>1, TailDef, WeightDef
    <2>. HIDE DEF x, w, r
    <2>5. x * w + r < BASE * w
        BY <2>2, <2>3, DigitAndRest
    <2>. QED
        BY <2>1, <2>4, <2>5
<1>3. \A j \in 0 .. WIDTH : j \in S
    <2>. HIDE DEF S
    <2>. QED
        BY <1>1, <1>2, UpTo
<1>. QED
    BY <1>3

LEMMA ValueIs ==
    ASSUME NEW a \in Numbers
    PROVE  Value(a) \in Nat /\ Value(a) < Weight[WIDTH]
BY DigitAssumption, TailDef, TailBound DEF Value

\* The order of digits is that of values.
LEMMA LessIsSmaller ==
    ASSUME NEW a \in Numbers, NEW b \in Numbers, Less(a, b)
    PROVE  Value(a) < Value(b)
<1>. USE DigitAssumption
<1>1. PICK k \in 1 .. WIDTH : a[k] < b[k] /\ \A l \in 1 .. (k - 1) : a[l] = b[l]
    BY DEF Less
<1>. DEFINE p == WIDTH + 1 - k
            S == {j \in 0 .. WIDTH : p <= j => Tail(a)[j] < Tail(b)[j]}
<1>2. p \in 1 .. WIDTH /\ FromRight(p) = k
    BY PlaceOf
<1>3. 0 \in S
    BY <1>2
<1>4. ASSUME NEW j \in 0 .. WIDTH, j < WIDTH, j \in S
      PROVE  j + 1 \in S
    <2>1. j + 1 \in 1 .. WIDTH /\ (j + 1) - 1 = j
        BY <1>4
    <2>. DEFINE x == a[FromRight(j + 1)]
                y == b[FromRight(j + 1)]
                w == Weight[j]
                r == Tail(a)[j]
                q == Tail(b)[j]
    <2>2. x \in Nat /\ y \in Nat
        BY <2>1, DigitIs
    <2>3. w \in Nat /\ r \in Nat /\ q \in Nat /\ r < w
        BY TailDef, TailBound, WeightDef
    <2>4. Tail(a)[j + 1] = x * w + r /\ Tail(b)[j + 1] = y * w + q
        BY <2>1, TailDef
    <2>5. CASE j + 1 = p
        <3>1. x < y
            BY <1>1, <1>2, <2>5
        <3>. HIDE DEF x, y, w, r, q
        <3>2. x * w + r < y * w
            BY <2>2, <2>3, <3>1, DigitAndRest
        <3>3. y * w \in Nat /\ x * w \in Nat
            BY <2>2, <2>3
        <3>. QED
            BY <2>1, <2>3, <2>4, <3>2, <3>3
    <2>6. CASE p <= j
        <3>1. FromRight(j + 1) \in 1 .. (k - 1)
            BY <2>1, <2>6 DEF FromRight
        <3>2. x = y
            BY <1>1, <3>1
        <3>3. r < q
            BY <1>4, <2>6
        <3>. HIDE DEF x, y, w, r, q
        <3>4. y * w \in Nat
            BY <2>2, <2>3
        <3>. QED
            BY <2>1, <2>3, <2>4, <3>2, <3>3, <3>4
    <2>7. CASE j + 1 < p
        BY <2>1, <2>7
    <2>. QED
        BY <1>2, <1>4, <2>5, <2>6, <2>7
<1>5. \A j \in 0 .. WIDTH : j \in S
    <2>. HIDE DEF S
    <2>. QED
        BY <1>3, <1>4, UpTo
<1>. QED
    BY <1>2, <1>5 DEF Value

\* Of two different numbers one is less.
LEMMA LessTotal ==
    ASSUME NEW a \in Numbers, NEW b \in Numbers, a # b
    PROVE  Less(a, b) \/ Less(b, a)
<1>. USE DigitAssumption
<1>. DEFINE S == {k \in 1 .. WIDTH : a[k] # b[k]}
<1>1. S # {}
    BY DEF Numbers
<1>2. PICK k \in S : \A l \in S : k <= l
    <2>1. S \subseteq Nat
        OBVIOUS
    <2>. HIDE DEF S
    <2>. QED
        BY <1>1, <2>1, Least
<1>3. \A l \in 1 .. (k - 1) : a[l] = b[l]
    BY <1>2
<1>4. a[k] \in Nat /\ b[k] \in Nat /\ a[k] # b[k]
    BY <1>2 DEF Numbers, Digits
<1>. QED
    BY <1>2, <1>3, <1>4 DEF Less

\* Less compares values, and a value has one sequence of digits.
LEMMA LessIsValue ==
    ASSUME NEW a \in Numbers, NEW b \in Numbers
    PROVE  /\ Less(a, b) <=> Value(a) < Value(b)
           /\ Value(a) = Value(b) => a = b
<1>1. Value(a) \in Nat /\ Value(b) \in Nat
    BY ValueIs
<1>2. Less(a, b) => Value(a) < Value(b)
    BY LessIsSmaller
<1>3. Less(b, a) => Value(b) < Value(a)
    BY LessIsSmaller
<1>4. a # b => Less(a, b) \/ Less(b, a)
    BY LessTotal
<1>. QED
    BY <1>1, <1>2, <1>3, <1>4

-----------------------------------------------------------------------------
(***************************************************************************)
(* What the loop computes with.                                            *)
(***************************************************************************)

\* A difference of two digits and a borrow, and what it borrows in turn.
LEMMA DigitDifference ==
    ASSUME NEW x \in 0 .. BASE - 1, NEW y \in 0 .. BASE - 1, NEW c \in {0, 1}
    PROVE  /\ (x - y - c) % BASE \in Digits
           /\ (x - y - c) % BASE
                  = (x - y - c) + (IF x - y - c < 0 THEN 1 ELSE 0) * BASE
<1>. USE DigitAssumption
<1>. DEFINE d == x - y - c
<1>1. d \in Int /\ - BASE <= d /\ d < BASE
    OBVIOUS
<1>. HIDE DEF d
<1>2. d % BASE = IF d < 0 THEN d + BASE ELSE d
    BY <1>1
<1>3. d % BASE \in Digits
    BY <1>1, <1>2 DEF Digits
<1>. QED
    BY <1>1, <1>2, <1>3 DEF d

LEMMA DigitSum ==
    ASSUME NEW t \in Nat
    PROVE  /\ t % BASE \in Digits
           /\ t = (t % BASE) + (t \div BASE) * BASE
           /\ t \div BASE \in Nat
BY DigitAssumption DEF Digits

LEMMA sub_256Is ==
    ASSUME NEW a \in Numbers, NEW b \in Numbers
    PROVE  /\ sub_256(a, b) \in Numbers
           /\ \A j \in 0 .. WIDTH :
                  Tail(sub_256(a, b))[j]
                      = Tail(a)[j] - Tail(b)[j] + Borrows(a, b)[j] * Weight[j]
<1>. USE DigitAssumption
<1>. DEFINE s == sub_256(a, b)
            borrow == Borrows(a, b)
            digit(k) == (a[k] - b[k] - borrow[WIDTH - k]) % BASE
<1>1. ASSUME NEW j \in 1 .. WIDTH
      PROVE  /\ digit(FromRight(j)) \in Digits
             /\ digit(FromRight(j))
                    = a[FromRight(j)] - b[FromRight(j)] - borrow[j - 1] + borrow[j] * BASE
    <2>. DEFINE x == a[FromRight(j)]
                y == b[FromRight(j)]
                c == borrow[j - 1]
    <2>1. x \in 0 .. BASE - 1 /\ y \in 0 .. BASE - 1
        BY DigitIs
    <2>2. c \in {0, 1} /\ borrow[j] = IF x - y - c < 0 THEN 1 ELSE 0
        BY BorrowsDef
    <2>3. WIDTH - FromRight(j) = j - 1
        BY DEF FromRight
    <2>4. digit(FromRight(j)) = (x - y - c) % BASE
        BY <2>3
    <2>. HIDE DEF x, y, c, digit, borrow
    <2>5. /\ (x - y - c) % BASE \in Digits
          /\ (x - y - c) % BASE = (x - y - c) + borrow[j] * BASE
        BY <2>1, <2>2, DigitDifference
    <2>. QED
        BY <2>4, <2>5 DEF x, y, c
<1>2. s = [k \in 1 .. WIDTH |-> digit(k)]
    BY DEF sub_256
<1>3. s \in Numbers
    <2>1. ASSUME NEW k \in 1 .. WIDTH
          PROVE  digit(k) \in Digits
        <3>. DEFINE j == WIDTH + 1 - k
        <3>1. j \in 1 .. WIDTH /\ FromRight(j) = k
            BY PlaceOf
        <3>. HIDE DEF j, digit
        <3>. QED
            BY <1>1, <3>1
    <2>. HIDE DEF digit, s
    <2>. QED
        BY <1>2, <2>1 DEF Numbers
<1>. DEFINE S == {j \in 0 .. WIDTH : Tail(s)[j] = Tail(a)[j] - Tail(b)[j] + borrow[j] * Weight[j]}
<1>4. 0 \in S
    <2>1. Tail(s)[0] = 0 /\ Tail(a)[0] = 0 /\ Tail(b)[0] = 0
        BY <1>3, TailDef
    <2>2. borrow[0] = 0 /\ Weight[0] = 1
        BY BorrowsDef, WeightDef
    <2>. HIDE DEF s, borrow
    <2>. QED
        BY <2>1, <2>2
<1>5. ASSUME NEW j \in 0 .. WIDTH, j < WIDTH, j \in S
      PROVE  j + 1 \in S
    <2>1. j + 1 \in 1 .. WIDTH /\ (j + 1) - 1 = j
        BY <1>5
    <2>. DEFINE f == FromRight(j + 1)
                w == Weight[j]
    <2>2. /\ Tail(s)[j + 1] = s[f] * w + Tail(s)[j]
          /\ Tail(a)[j + 1] = a[f] * w + Tail(a)[j]
          /\ Tail(b)[j + 1] = b[f] * w + Tail(b)[j]
          /\ Weight[j + 1] = BASE * w
        <3>. HIDE DEF s
        <3>. QED
            BY <1>3, <2>1, TailDef, WeightDef
    <2>3. f \in 1 .. WIDTH /\ a[f] \in Int /\ b[f] \in Int /\ w \in Int
        <3>1. w \in Int
            BY WeightDef
        <3>2. f \in 1 .. WIDTH /\ a[f] \in 0 .. BASE - 1 /\ b[f] \in 0 .. BASE - 1
            BY <2>1, DigitIs
        <3>. HIDE DEF f, w
        <3>. QED
            BY <3>1, <3>2
    <2>4. borrow[j] \in Int /\ borrow[j + 1] \in Int
        BY <2>1, BorrowsDef
    <2>5. s[f] = a[f] - b[f] - borrow[j] + borrow[j + 1] * BASE
        <3>. HIDE DEF digit, s, borrow
        <3>. QED
            BY <1>1, <1>2, <2>1, <2>3
    <2>6. Tail(s)[j] = Tail(a)[j] - Tail(b)[j] + borrow[j] * w
        BY <1>5
    <2>7. Tail(a)[j] \in Int /\ Tail(b)[j] \in Int
        BY TailDef
    <2>. DEFINE x == a[f]
                y == b[f]
                c == borrow[j]
                e == borrow[j + 1]
                p == Tail(a)[j]
                q == Tail(b)[j]
    <2>8. (x - y - c + e * BASE) * w + (p - q + c * w)
              = (x * w + p) - (y * w + q) + e * (BASE * w)
        <3>1. x \in Int /\ y \in Int /\ c \in Int /\ e \in Int /\ p \in Int /\ q \in Int
              /\ w \in Int /\ BASE \in Int
            BY <2>3, <2>4, <2>7
        <3>. HIDE DEF x, y, c, e, p, q, w
        <3>. QED
            BY <3>1
    <2>. HIDE DEF s, borrow, w, f
    <2>9. Tail(s)[j + 1] = Tail(a)[j + 1] - Tail(b)[j + 1] + borrow[j + 1] * Weight[j + 1]
        BY <2>2, <2>5, <2>6, <2>8
    <2>. QED
        BY <2>1, <2>9
<1>6. \A j \in 0 .. WIDTH : j \in S
    <2>. HIDE DEF S
    <2>. QED
        BY <1>4, <1>5, UpTo
<1>. QED
    BY <1>3, <1>6

\* sub_256 subtracts, where there is something to subtract from.
LEMMA sub_256Subtracts ==
    ASSUME NEW a \in Numbers, NEW b \in Numbers, Value(b) <= Value(a)
    PROVE  sub_256(a, b) \in Numbers /\ Value(sub_256(a, b)) = Value(a) - Value(b)
<1>. USE DigitAssumption
<1>. DEFINE s == sub_256(a, b)
            c == Borrows(a, b)[WIDTH]
            w == Weight[WIDTH]
<1>1. s \in Numbers
    BY sub_256Is
<1>2. c \in {0, 1} /\ w \in Nat
    BY BorrowsDef, WeightDef
<1>3. Value(s) = Value(a) - Value(b) + c * w
    BY sub_256Is DEF Value
<1>4. Value(a) \in Nat /\ Value(b) \in Nat /\ Value(s) < w
    <2>. HIDE DEF s, w
    <2>. QED
        BY <1>1, ValueIs DEF w
<1>. HIDE DEF s, c, w
<1>5. c = 0
    BY <1>2, <1>3, <1>4
<1>. QED
    BY <1>1, <1>2, <1>3, <1>4, <1>5 DEF s

LEMMA PlusMultipleIs ==
    ASSUME NEW a \in Numbers, NEW m \in Numbers, NEW n \in Nat
    PROVE  /\ PlusMultiple(a, m, n)
                  = [digits |-> PlusMultiple(a, m, n).digits,
                     carry  |-> PlusMultiple(a, m, n).carry]
           /\ PlusMultiple(a, m, n).digits \in Numbers
           /\ PlusMultiple(a, m, n).carry \in Nat
           /\ Value(PlusMultiple(a, m, n).digits)
                    + PlusMultiple(a, m, n).carry * Weight[WIDTH]
                  = Value(a) + n * Value(m)
<1>. USE DigitAssumption
<1>. DEFINE carry == Carries(a, m, n)
            digit(k) == (a[k] + n * m[k] + carry[WIDTH - k]) % BASE
            s == [k \in 1 .. WIDTH |-> digit(k)]
<1>0. PlusMultiple(a, m, n) = [digits |-> s, carry |-> carry[WIDTH]]
    BY DEF PlusMultiple
<1>1. ASSUME NEW j \in 1 .. WIDTH
      PROVE  /\ digit(FromRight(j)) \in Digits
             /\ digit(FromRight(j)) + carry[j] * BASE
                    = a[FromRight(j)] + n * m[FromRight(j)] + carry[j - 1]
    <2>. DEFINE t == a[FromRight(j)] + n * m[FromRight(j)] + carry[j - 1]
    <2>1. t \in Nat
        <3>1. a[FromRight(j)] \in Nat /\ m[FromRight(j)] \in Nat
            BY DigitIs
        <3>2. n * m[FromRight(j)] \in Nat
            BY <3>1
        <3>3. carry[j - 1] \in Nat
            BY CarriesDef
        <3>. HIDE DEF carry
        <3>. QED
            BY <3>1, <3>2, <3>3
    <2>2. carry[j] = t \div BASE
        BY CarriesDef
    <2>3. WIDTH - FromRight(j) = j - 1
        BY DEF FromRight
    <2>4. digit(FromRight(j)) = t % BASE
        BY <2>3
    <2>. HIDE DEF t, digit, carry
    <2>5. t % BASE \in Digits /\ t = (t % BASE) + (t \div BASE) * BASE
        BY <2>1, DigitSum
    <2>. QED
        BY <2>2, <2>4, <2>5 DEF t
<1>2. s \in Numbers
    <2>1. ASSUME NEW k \in 1 .. WIDTH
          PROVE  digit(k) \in Digits
        <3>. DEFINE j == WIDTH + 1 - k
        <3>1. j \in 1 .. WIDTH /\ FromRight(j) = k
            BY PlaceOf
        <3>. HIDE DEF j, digit
        <3>. QED
            BY <1>1, <3>1
    <2>. HIDE DEF digit
    <2>. QED
        BY <2>1 DEF Numbers
<1>3. ASSUME NEW k \in 1 .. WIDTH
      PROVE  s[k] = digit(k)
    OBVIOUS
<1>. DEFINE S == {j \in 0 .. WIDTH :
                    Tail(s)[j] + carry[j] * Weight[j] = Tail(a)[j] + n * Tail(m)[j]}
<1>4. 0 \in S
    <2>. HIDE DEF s, carry
    <2>1. Tail(s)[0] = 0 /\ Tail(a)[0] = 0 /\ Tail(m)[0] = 0
        BY <1>2, TailDef
    <2>2. carry[0] = 0 /\ Weight[0] = 1
        BY CarriesDef, WeightDef DEF carry
    <2>. QED
        BY <2>1, <2>2
<1>5. ASSUME NEW j \in 0 .. WIDTH, j < WIDTH, j \in S
      PROVE  j + 1 \in S
    <2>1. j + 1 \in 1 .. WIDTH /\ (j + 1) - 1 = j
        BY <1>5
    <2>. DEFINE f == FromRight(j + 1)
                w == Weight[j]
    <2>2. /\ Tail(s)[j + 1] = s[f] * w + Tail(s)[j]
          /\ Tail(a)[j + 1] = a[f] * w + Tail(a)[j]
          /\ Tail(m)[j + 1] = m[f] * w + Tail(m)[j]
          /\ Weight[j + 1] = BASE * w
        <3>. HIDE DEF s
        <3>. QED
            BY <1>2, <2>1, TailDef, WeightDef
    <2>3. f \in 1 .. WIDTH /\ a[f] \in Int /\ m[f] \in Int /\ w \in Int
        <3>1. w \in Int
            BY WeightDef
        <3>2. f \in 1 .. WIDTH /\ a[f] \in 0 .. BASE - 1 /\ m[f] \in 0 .. BASE - 1
            BY <2>1, DigitIs
        <3>. HIDE DEF f, w
        <3>. QED
            BY <3>1, <3>2
    <2>4. carry[j] \in Int /\ carry[j + 1] \in Int
        <3>1. carry \in [0 .. WIDTH -> Nat]
            BY CarriesDef
        <3>. HIDE DEF carry
        <3>. QED
            BY <2>1, <3>1
    <2>5. s[f] + carry[j + 1] * BASE = a[f] + n * m[f] + carry[j]
        <3>. HIDE DEF digit, s, carry
        <3>. QED
            BY <1>1, <1>3, <2>1, <2>3
    <2>6. Tail(s)[j] + carry[j] * w = Tail(a)[j] + n * Tail(m)[j]
        BY <1>5
    <2>7. Tail(a)[j] \in Int /\ Tail(m)[j] \in Int
        BY TailDef
    <2>8. s[f] \in Int /\ Tail(s)[j] \in Int
        <3>. HIDE DEF s
        <3>1. s[f] \in 0 .. BASE - 1
            BY <1>2, <2>1, DigitIs
        <3>2. Tail(s)[j] \in Nat
            BY <1>2, TailDef
        <3>. QED
            BY <3>1, <3>2
    <2>. DEFINE x == a[f]
                y == m[f]
                z == s[f]
                c == carry[j]
                e == carry[j + 1]
                p == Tail(a)[j]
                q == Tail(m)[j]
                r == Tail(s)[j]
    <2>9. (z * w + r) + e * (BASE * w) = (x * w + p) + n * (y * w + q)
        <3>1. x \in Int /\ y \in Int /\ z \in Int /\ c \in Int /\ e \in Int /\ p \in Int
              /\ q \in Int /\ r \in Int /\ w \in Int /\ BASE \in Int /\ n \in Int
            BY <2>3, <2>4, <2>7, <2>8
        <3>2. z + e * BASE = x + n * y + c /\ r + c * w = p + n * q
            BY <2>5, <2>6
        <3>. HIDE DEF x, y, z, c, e, p, q, r, w
        <3>3. (z * w + r) + e * (BASE * w) = (z + e * BASE) * w + r
            BY <3>1
        <3>4. (x * w + p) + n * (y * w + q) = (x + n * y) * w + (p + n * q)
            BY <3>1
        <3>5. (x + n * y + c) * w = (x + n * y) * w + c * w
            BY <3>1
        <3>. QED
            BY <3>1, <3>2, <3>3, <3>4, <3>5
    <2>. HIDE DEF s, carry, w, f
    <2>10. Tail(s)[j + 1] + carry[j + 1] * Weight[j + 1] = Tail(a)[j + 1] + n * Tail(m)[j + 1]
        BY <2>2, <2>9
    <2>. QED
        BY <2>1, <2>10
<1>6. \A j \in 0 .. WIDTH : j \in S
    <2>. HIDE DEF S
    <2>. QED
        BY <1>4, <1>5, UpTo
<1>7. carry[WIDTH] \in Nat
    <2>1. carry \in [0 .. WIDTH -> Nat]
        BY CarriesDef
    <2>. HIDE DEF carry
    <2>. QED
        BY <2>1
<1>8. Value(s) + carry[WIDTH] * Weight[WIDTH] = Value(a) + n * Value(m)
    <2>. HIDE DEF s, carry
    <2>. QED
        BY <1>6 DEF Value
<1>. HIDE DEF s, carry
<1>. QED
    BY <1>0, <1>2, <1>7, <1>8

\* The remainder of a number not less than m is that of the number less m: the
\* recursion ends.
LEMMA RemainderIs ==
    ASSUME NEW m \in Numbers, NEW x \in Numbers
    PROVE  Remainder(x, m)
               = IF Less(x, m) THEN x ELSE Remainder(sub_256(x, m), m)
<1>. DEFINE P(f) == f = [r \in Numbers |->
                            IF Less(r, m) THEN r ELSE f[sub_256(r, m)]]
            R(r) == {y \in Numbers :
                        /\ Value(y) < Value(m)
                        /\ \E q \in Nat : Value(r) = Value(y) + q * Value(m)}
            g    == [r \in Numbers |-> First(R(r))]
<1>1. ASSUME NEW r \in Numbers, ~ Less(r, m)
      PROVE  sub_256(r, m) \in Numbers /\ Value(sub_256(r, m)) = Value(r) - Value(m)
    <2>1. Value(r) \in Nat /\ Value(m) \in Nat
        BY ValueIs
    <2>2. Value(m) <= Value(r)
        BY <1>1, <2>1, LessIsValue
    <2>. QED
        BY <2>2, sub_256Subtracts
<1>2. ASSUME NEW r \in Numbers, Less(r, m)
      PROVE  g[r] = r
    <2>1. Value(r) \in Nat /\ Value(m) \in Nat /\ Value(r) < Value(m)
        BY <1>2, LessIsValue, ValueIs
    <2>2. ASSUME NEW y \in R(r)
          PROVE  y = r
        <3>1. PICK q \in Nat : Value(r) = Value(y) + q * Value(m)
            OBVIOUS
        <3>2. Value(y) \in Nat
            BY ValueIs
        <3>3. q = 0
            <4>. SUFFICES ASSUME q # 0
                          PROVE  FALSE
                OBVIOUS
            <4>1. 1 * Value(m) <= q * Value(m) /\ q * Value(m) \in Nat
                BY <2>1, TimesMonotone
            <4>. QED
                BY <2>1, <3>1, <3>2, <4>1
        <3>4. Value(y) = Value(r)
            BY <2>1, <3>1, <3>2, <3>3
        <3>. QED
            BY <3>4, LessIsValue
    <2>3. r \in R(r)
        <3>1. Value(r) = Value(r) + 0 * Value(m)
            BY <2>1
        <3>. QED
            BY <2>1, <3>1
    <2>. HIDE DEF R
    <2>. QED
        BY <2>2, <2>3, FirstIn
<1>3. ASSUME NEW r \in Numbers, ~ Less(r, m)
      PROVE  g[r] = g[sub_256(r, m)]
    <2>. DEFINE s == sub_256(r, m)
    <2>1. s \in Numbers /\ Value(s) = Value(r) - Value(m)
        BY <1>1, <1>3
    <2>2. Value(r) \in Nat /\ Value(m) \in Nat /\ Value(m) <= Value(r)
        BY <1>3, LessIsValue, ValueIs
    <2>. HIDE DEF s
    <2>3. R(r) \subseteq R(s)
        <3>. SUFFICES ASSUME NEW y \in R(r)
                      PROVE  \E q \in Nat : Value(s) = Value(y) + q * Value(m)
            OBVIOUS
        <3>1. PICK q \in Nat : Value(r) = Value(y) + q * Value(m)
            OBVIOUS
        <3>2. Value(y) \in Nat /\ Value(y) < Value(m)
            BY ValueIs
        <3>3. q # 0
            BY <2>2, <3>1, <3>2
        <3>4. (q - 1) * Value(m) = q * Value(m) - Value(m) /\ q * Value(m) \in Nat
            BY <2>2
        <3>5. Value(s) = Value(y) + (q - 1) * Value(m) /\ q - 1 \in Nat
            BY <2>1, <2>2, <3>1, <3>2, <3>3, <3>4
        <3>. QED
            BY <3>5
    <2>4. R(s) \subseteq R(r)
        <3>. SUFFICES ASSUME NEW y \in R(s)
                      PROVE  \E q \in Nat : Value(r) = Value(y) + q * Value(m)
            OBVIOUS
        <3>1. PICK q \in Nat : Value(s) = Value(y) + q * Value(m)
            OBVIOUS
        <3>2. Value(y) \in Nat
            BY ValueIs
        <3>3. (q + 1) * Value(m) = q * Value(m) + Value(m) /\ q * Value(m) \in Nat
            BY <2>2
        <3>4. Value(r) = Value(y) + (q + 1) * Value(m) /\ q + 1 \in Nat
            BY <2>1, <2>2, <3>1, <3>2, <3>3
        <3>. QED
            BY <3>4
    <2>5. R(r) = R(s)
        BY <2>3, <2>4
    <2>. HIDE DEF R
    <2>6. g[r] = g[s]
        BY <2>1, <2>5
    <2>. QED
        BY <2>6 DEF s
<1>4. P(g)
    <2>1. g = [r \in Numbers |-> g[r]]
        OBVIOUS
    <2>. HIDE DEF g
    <2>. QED
        BY <1>2, <1>3, <2>1
<1>. DEFINE h == CHOOSE f : P(f)
<1>5. P(h)
    <2>. HIDE DEF P, g
    <2>. QED
        BY <1>4
<1>6. \A r \in Numbers : Remainder(r, m) = h[r]
    BY DEF Remainder
<1>. HIDE DEF h
<1>7. h[x] = IF Less(x, m) THEN x ELSE h[sub_256(x, m)]
    BY <1>5
<1>8. Remainder(x, m) = h[x]
    BY <1>6
<1>9. ~ Less(x, m) => Remainder(sub_256(x, m), m) = h[sub_256(x, m)]
    BY <1>1, <1>6
<1>. QED
    BY <1>7, <1>8, <1>9

-----------------------------------------------------------------------------
(***************************************************************************)
(* The loop.                                                               *)
(***************************************************************************)

LEMMA LoopInvInit == ReduceInit => LoopInv
<1>. SUFFICES ASSUME ReduceInit PROVE LoopInv
    OBVIOUS
<1>1. bytes \in Numbers /\ result = bytes /\ i = 0 /\ stage = "check"
    BY DigitAssumption DEF ReduceInit
<1>2. Value(bytes) \in Nat /\ Value(BN254_FR_MODULUS) \in Nat
    BY <1>1, ValueIs, DigitAssumption
<1>3. Value(result) + i * Value(BN254_FR_MODULUS) = Value(bytes)
    BY <1>1, <1>2
<1>. QED
    BY <1>1, <1>3, DigitAssumption DEF ReduceInit, LoopInv

LEMMA SubtractHolds ==
    ASSUME LoopInv, Subtract
    PROVE  LoopInv'
<1>. DEFINE m == BN254_FR_MODULUS
<1>1. m \in Numbers /\ result \in Numbers /\ bytes \in Numbers /\ ~ Less(result, m)
    BY DigitAssumption DEF LoopInv, Subtract
<1>2. Value(m) \in Nat /\ Value(result) \in Nat /\ Value(bytes) \in Nat
    BY <1>1, ValueIs
<1>3. Value(m) <= Value(result)
    BY <1>1, <1>2, LessIsValue
<1>4. result' \in Numbers /\ Value(result') = Value(result) - Value(m)
    <2>. HIDE DEF m
    <2>1. result' = sub_256(result, m)
        BY DEF Subtract, m
    <2>. QED
        BY <1>1, <1>3, <2>1, sub_256Subtracts
<1>5. Remainder(result', m) = Remainder(bytes, m)
    <2>1. Remainder(result, m) = Remainder(bytes, m)
        BY DEF LoopInv
    <2>2. Remainder(result, m) = Remainder(sub_256(result, m), m)
        <3>. HIDE DEF m
        <3>. QED
            BY <1>1, RemainderIs
    <2>. QED
        BY <2>1, <2>2 DEF Subtract
<1>6. i' = i + 1 /\ i \in Nat /\ i' \in 0 .. ITERATIONS /\ bytes' = bytes /\ stage' = "loop"
    BY DigitAssumption DEF LoopInv, Subtract, LoopBound
<1>7. Value(result') + i' * Value(m) = Value(bytes)
    <2>1. Value(result) + i * Value(m) = Value(bytes)
        BY DEF LoopInv
    <2>. HIDE DEF m
    <2>2. (i + 1) * Value(m) = i * Value(m) + Value(m) /\ i * Value(m) \in Nat
        BY <1>2, <1>6
    <2>. QED
        BY <1>2, <1>4, <1>6, <2>1, <2>2
<1>. QED
    BY <1>4, <1>5, <1>6, <1>7 DEF LoopInv

LEMMA LoopInvStep == LoopInv /\ [ReduceNext]_locals => LoopInv'
<1>. SUFFICES ASSUME LoopInv, [ReduceNext]_locals
              PROVE  LoopInv'
    OBVIOUS
<1>1. CASE EarlyReturn
    BY <1>1 DEF EarlyReturn, LoopInv
<1>2. CASE EnterLoop
    BY <1>2 DEF EnterLoop, LoopInv
<1>3. CASE Subtract
    BY <1>3, SubtractHolds
<1>4. CASE Return
    BY <1>4 DEF Return, LoopBound, LoopInv
<1>5. CASE UNCHANGED locals
    BY <1>5 DEF locals, LoopInv
<1>. QED
    BY <1>1, <1>2, <1>3, <1>4, <1>5 DEF ReduceNext

\* What the loop has in hand is the argument less a multiple of the modulus.
THEOREM LoopInvariant == ReduceSpec => []LoopInv
<1>. QED
    BY LoopInvInit, LoopInvStep, PTL DEF ReduceSpec

\* In no iteration does a borrow go wrong or the number pass below zero.
THEOREM ExactHolds == ReduceSpec => []Exact
<1>1. ASSUME LoopInv
      PROVE  Exact
    <2>. DEFINE m == BN254_FR_MODULUS
                p == PlusMultiple(result, m, i)
                w == Weight[WIDTH]
    <2>1. m \in Numbers /\ result \in Numbers /\ bytes \in Numbers /\ i \in Nat
        BY <1>1, DigitAssumption DEF LoopInv
    <2>2. /\ p = [digits |-> p.digits, carry |-> p.carry]
          /\ p.digits \in Numbers /\ p.carry \in Nat
          /\ Value(p.digits) + p.carry * w = Value(result) + i * Value(m)
        <3>. HIDE DEF m
        <3>. QED
            BY <2>1, PlusMultipleIs
    <2>3. Value(result) + i * Value(m) = Value(bytes)
        BY <1>1 DEF LoopInv
    <2>. HIDE DEF p, m
    <2>4. Value(bytes) \in Nat /\ Value(p.digits) \in Nat /\ Value(bytes) < w
          /\ w \in Nat
        BY <2>1, <2>2, ValueIs, WeightDef, DigitAssumption
    <2>. HIDE DEF w
    <2>5. p.carry = 0
        <3>. SUFFICES ASSUME p.carry # 0
                      PROVE  FALSE
            OBVIOUS
        <3>1. 1 * w <= p.carry * w /\ p.carry * w \in Nat
            BY <2>2, <2>4, TimesMonotone
        <3>. QED
            BY <2>2, <2>3, <2>4, <3>1
    <2>6. Value(p.digits) = Value(bytes)
        BY <2>2, <2>3, <2>4, <2>5
    <2>7. p.digits = bytes
        BY <2>1, <2>2, <2>6, LessIsValue
    <2>. QED
        BY <2>2, <2>5, <2>7 DEF Exact, p, m
<1>. QED
    BY <1>1, LoopInvariant, PTL

\* An argument is too large exactly from ITERATIONS + 1 times the modulus on.
LEMMA TooLargeIs ==
    ASSUME NEW x \in Numbers
    PROVE  TooLarge(x) <=> (ITERATIONS + 1) * Value(BN254_FR_MODULUS) <= Value(x)
<1>. USE DigitAssumption
<1>. DEFINE m    == BN254_FR_MODULUS
            zero == [k \in 1 .. WIDTH |-> 0]
            n    == ITERATIONS + 1
            p    == PlusMultiple(zero, m, n)
            w    == Weight[WIDTH]
<1>1. zero \in Numbers /\ m \in Numbers /\ n \in Nat
    BY DEF Numbers, Digits
<1>2. Value(zero) = 0
    <2>. DEFINE S == {j \in 0 .. WIDTH : Tail(zero)[j] = 0}
    <2>1. 0 \in S
        <3>. HIDE DEF zero
        <3>. QED
            BY <1>1, TailDef
    <2>2. ASSUME NEW j \in 0 .. WIDTH, j < WIDTH, j \in S
          PROVE  j + 1 \in S
        <3>1. j + 1 \in 1 .. WIDTH /\ (j + 1) - 1 = j
            BY <2>2
        <3>2. zero[FromRight(j + 1)] = 0
            BY <3>1, DigitIs, <1>1
        <3>3. Weight[j] \in Nat
            BY WeightDef
        <3>. HIDE DEF zero
        <3>4. Tail(zero)[j + 1] = zero[FromRight(j + 1)] * Weight[j] + Tail(zero)[j]
            BY <1>1, <3>1, TailDef
        <3>. QED
            BY <2>2, <3>1, <3>2, <3>3, <3>4
    <2>3. \A j \in 0 .. WIDTH : j \in S
        <3>. HIDE DEF S
        <3>. QED
            BY <2>1, <2>2, UpTo
    <2>. QED
        BY <2>3 DEF Value
<1>3. TooLarge(x) <=> p.carry = 0 /\ ~ Less(x, p.digits)
    BY DEF TooLarge
<1>. HIDE DEF m, zero, n
<1>4. /\ p.digits \in Numbers /\ p.carry \in Nat
      /\ Value(p.digits) + p.carry * w = Value(zero) + n * Value(m)
    BY <1>1, PlusMultipleIs
<1>. HIDE DEF p
<1>5. /\ Value(x) \in Nat /\ Value(x) < w /\ w \in Nat
      /\ Value(p.digits) \in Nat /\ Value(m) \in Nat
    <2>1. w \in Nat
        BY WeightDef
    <2>2. Value(x) \in Nat /\ Value(x) < w
        BY ValueIs
    <2>3. Value(p.digits) \in Nat /\ Value(m) \in Nat
        BY <1>1, <1>4, ValueIs
    <2>. QED
        BY <2>1, <2>2, <2>3
<1>. HIDE DEF w
<1>6. Value(p.digits) + p.carry * w = n * Value(m) /\ n * Value(m) \in Nat
    BY <1>1, <1>2, <1>4, <1>5
<1>7. CASE p.carry = 0
    <2>1. Value(p.digits) = n * Value(m)
        BY <1>5, <1>6, <1>7
    <2>2. Less(x, p.digits) <=> Value(x) < Value(p.digits)
        BY <1>4, LessIsValue
    <2>. QED
        BY <1>3, <1>5, <1>7, <2>1, <2>2 DEF n, m
<1>8. CASE p.carry # 0
    <2>1. 1 * w <= p.carry * w /\ p.carry * w \in Nat
        BY <1>4, <1>5, <1>8, TimesMonotone
    <2>2. Value(x) < n * Value(m)
        BY <1>5, <1>6, <2>1
    <2>. QED
        BY <1>3, <1>5, <1>6, <1>8, <2>2 DEF n, m
<1>. QED
    BY <1>7, <1>8

\* The iterations are enough for exactly the arguments below ITERATIONS + 1
\* times the modulus, and then the result is the remainder.
THEOREM ReducedUnlessTooLargeHolds == ReduceSpec => []ReducedUnlessTooLarge
<1>1. ASSUME LoopInv
      PROVE  ReducedUnlessTooLarge
    <2>. DEFINE m == BN254_FR_MODULUS
                v == Value(m)
    <2>. SUFFICES ASSUME stage = "done"
                  PROVE  /\ Less(result, m) <=> ~ TooLarge(bytes)
                         /\ ~ TooLarge(bytes) => result = Remainder(bytes, m)
        BY DEF ReducedUnlessTooLarge
    <2>1. m \in Numbers /\ result \in Numbers /\ bytes \in Numbers
          /\ i \in Nat /\ i <= ITERATIONS /\ ITERATIONS \in Nat
        BY <1>1, DigitAssumption DEF LoopInv
    <2>2. Value(result) + i * v = Value(bytes) /\ (i = ITERATIONS \/ Less(result, m))
        BY <1>1 DEF LoopInv
    <2>3. TooLarge(bytes) <=> (ITERATIONS + 1) * v <= Value(bytes)
        BY <2>1, TooLargeIs
    <2>4. Less(result, m) => result = Remainder(bytes, m)
        <3>1. Remainder(result, m) = Remainder(bytes, m)
            BY <1>1 DEF LoopInv
        <3>. HIDE DEF m
        <3>. QED
            BY <2>1, <3>1, RemainderIs
    <2>. HIDE DEF m
    <2>5. v \in Nat /\ Value(result) \in Nat /\ (Less(result, m) <=> Value(result) < v)
        BY <2>1, ValueIs, LessIsValue
    <2>. HIDE DEF v
    <2>6. (i + 1) * v = i * v + v /\ i * v \in Nat
        BY <2>1, <2>5
    <2>7. (i + 1) * v <= (ITERATIONS + 1) * v /\ (ITERATIONS + 1) * v \in Nat
        BY <2>1, <2>5, TimesMonotone
    <2>8. CASE Less(result, m)
        BY <2>2, <2>3, <2>4, <2>5, <2>6, <2>7, <2>8
    <2>9. CASE ~ Less(result, m)
        BY <2>2, <2>3, <2>5, <2>6, <2>9
    <2>. QED
        BY <2>8, <2>9
<1>. QED
    BY <1>1, LoopInvariant, PTL

-----------------------------------------------------------------------------
(***************************************************************************)
(* The prover.                                                             *)
(***************************************************************************)

Places == {"new", "spawn", "wait", "read", "read_pw", "answered", "failed"}
SunspotPlaces == {"off", "proof", "pw", "ok", "error"}
Contents == Requests \cup {Nothing}

Types ==
    /\ pc \in [Requests -> Places]
    /\ sunspot \in [Requests -> SunspotPlaces]
    /\ proof \in Contents /\ pw \in Contents
    /\ witnesses \subseteq Requests
    /\ answer \in [Requests -> [proof : Contents, public_witness : Contents]]
    /\ earlier \in [Requests -> SUBSET Requests]
    /\ cut \subseteq Requests

\* A handler and its sunspot keep step: none runs before it is started, and the
\* files are read after it succeeded.  A request that is over stays over.
InStep ==
    /\ \A r \in Requests : pc[r] \in {"new", "spawn"} => sunspot[r] = "off"
    /\ \A r \in Requests :
            pc[r] \in {"read", "read_pw", "answered"} => sunspot[r] = "ok"
    /\ \A r \in Requests : \A q \in earlier[r] : Over(q)

\* Nothing that was over when r began, and something.
Late(r, content) == content \notin earlier[r] \cup {Nothing}

\* Once a request's sunspot has written a file, that file is the work of a
\* request that was not over when this one began, whoever wrote it last.
FilesLate ==
    \A r \in Requests :
        /\ sunspot[r] \in {"pw", "ok"} => Late(r, proof)
        /\ sunspot[r] = "ok" => Late(r, pw)
        /\ pc[r] \in {"read_pw", "answered"} => Late(r, answer[r].proof)
        /\ pc[r] = "answered" => Late(r, answer[r].public_witness)

\* A witness is gone from the moment its sunspot was waited for.
Removed ==
    \A r \in witnesses :
        pc[r] \in {"read", "read_pw", "answered", "failed"} => r \in cut

FilesInv == Types /\ InStep /\ FilesLate /\ Removed

-----------------------------------------------------------------------------

LEMMA FilesInvInit == Init => FilesInv
<1>. SUFFICES ASSUME Init
              PROVE  FilesInv
    OBVIOUS
<1>1. Types
    BY DEF Init, Types, Places, SunspotPlaces, Contents, NoAnswer
<1>2. InStep /\ FilesLate /\ Removed
    BY DEF Init, InStep, FilesLate, Removed
<1>. QED
    BY <1>1, <1>2 DEF FilesInv

\* Types hold after every step.
LEMMA TypesStep ==
    ASSUME Types, [Next]_vars
    PROVE  Types'
<1>1. ASSUME NEW r \in Requests, WriteWitness(r)
      PROVE  Types'
    BY <1>1 DEF WriteWitness, Goto, history, Types, Places, SunspotPlaces, Contents
<1>2. ASSUME NEW r \in Requests, Spawn(r)
      PROVE  Types'
    BY <1>2 DEF Spawn, Goto, SunspotGoto, history, Types, Places, SunspotPlaces,
        Contents
<1>3. ASSUME NEW r \in Requests, Collect(r)
      PROVE  Types'
    BY <1>3 DEF Collect, Goto, history, Remaining, AfterError, Fails, Types,
        Places, SunspotPlaces, Contents
<1>4. ASSUME NEW r \in Requests, ReadProof(r)
      PROVE  Types'
    BY <1>4 DEF ReadProof, Goto, history, Types, Places, SunspotPlaces, Contents
<1>5. ASSUME NEW r \in Requests, ReadPublicWitness(r)
      PROVE  Types'
    BY <1>5 DEF ReadPublicWitness, Goto, history, Types, Places, SunspotPlaces,
        Contents
<1>6. ASSUME NEW r \in Requests, GiveUp(r)
      PROVE  Types'
    BY <1>6 DEF GiveUp, Goto, history, Fails, Types, Places, SunspotPlaces, Contents
<1>7. ASSUME NEW r \in Requests, WriteProof(r)
      PROVE  Types'
    BY <1>7 DEF WriteProof, SunspotGoto, history, Types, Places, SunspotPlaces,
        Contents
<1>8. ASSUME NEW r \in Requests, WritePublicWitness(r)
      PROVE  Types'
    BY <1>8 DEF WritePublicWitness, SunspotGoto, history, Types, Places,
        SunspotPlaces, Contents
<1>9. ASSUME NEW r \in Requests, ProveFails(r)
      PROVE  Types'
    BY <1>9 DEF ProveFails, SunspotGoto, history, Fails, Types, Places,
        SunspotPlaces, Contents
<1>10. CASE UNCHANGED vars
    BY <1>10 DEF vars, history, Types, Places, SunspotPlaces, Contents
<1>. QED
    BY <1>1, <1>2, <1>3, <1>4, <1>5, <1>6, <1>7, <1>8, <1>9, <1>10 DEF Next,
        Handle, Sunspot

\* Handlers and sunspots keep step.
LEMMA InStepStep ==
    ASSUME Types, InStep, [Next]_vars
    PROVE  InStep'
<1>1. ASSUME NEW r \in Requests, WriteWitness(r)
      PROVE  InStep'
    BY <1>1 DEF WriteWitness, Goto, history, Types, Places, SunspotPlaces, InStep,
        Over
<1>2. ASSUME NEW r \in Requests, Spawn(r)
      PROVE  InStep'
    BY <1>2 DEF Spawn, Goto, SunspotGoto, history, Types, Places, SunspotPlaces,
        InStep, Over
<1>3. ASSUME NEW r \in Requests, Collect(r)
      PROVE  InStep'
    BY <1>3 DEF Collect, Goto, history, Remaining, AfterError, Fails, Types,
        Places, SunspotPlaces, InStep, Over
<1>4. ASSUME NEW r \in Requests, ReadProof(r)
      PROVE  InStep'
    BY <1>4 DEF ReadProof, Goto, history, Types, Places, SunspotPlaces, InStep, Over
<1>5. ASSUME NEW r \in Requests, ReadPublicWitness(r)
      PROVE  InStep'
    BY <1>5 DEF ReadPublicWitness, Goto, history, Types, Places, SunspotPlaces,
        InStep, Over
<1>6. ASSUME NEW r \in Requests, GiveUp(r)
      PROVE  InStep'
    BY <1>6 DEF GiveUp, Goto, history, Fails, Types, Places, SunspotPlaces,
        InStep, Over
<1>7. ASSUME NEW r \in Requests, WriteProof(r)
      PROVE  InStep'
    BY <1>7 DEF WriteProof, SunspotGoto, history, Types, Places, SunspotPlaces,
        InStep, Over
<1>8. ASSUME NEW r \in Requests, WritePublicWitness(r)
      PROVE  InStep'
    BY <1>8 DEF WritePublicWitness, SunspotGoto, history, Types, Places,
        SunspotPlaces, InStep, Over
<1>9. ASSUME NEW r \in Requests, ProveFails(r)
      PROVE  InStep'
    BY <1>9 DEF ProveFails, SunspotGoto, history, Fails, Types, Places,
        SunspotPlaces, InStep, Over
<1>10. CASE UNCHANGED vars
    BY <1>10 DEF vars, history, Types, Places, SunspotPlaces, InStep, Over
<1>. QED
    BY <1>1, <1>2, <1>3, <1>4, <1>5, <1>6, <1>7, <1>8, <1>9, <1>10 DEF Next,
        Handle, Sunspot

\* Files and answers are late: a file is written by a request that is not over, and
\* so in nobody's `earlier`.
LEMMA FilesLateStep ==
    ASSUME Types, InStep, FilesLate, [Next]_vars
    PROVE  FilesLate'
<1>. USE ProverAssumption
<1>1. ASSUME NEW r \in Requests, WriteWitness(r)
      PROVE  FilesLate'
    BY <1>1 DEF WriteWitness, Goto, history, Types, Places, SunspotPlaces,
        Contents, InStep, Over, FilesLate, Late
<1>2. ASSUME NEW r \in Requests, Spawn(r)
      PROVE  FilesLate'
    BY <1>2 DEF Spawn, Goto, SunspotGoto, history, Types, Places, SunspotPlaces,
        Contents, InStep, Over, FilesLate, Late
<1>3. ASSUME NEW r \in Requests, Collect(r)
      PROVE  FilesLate'
    BY <1>3 DEF Collect, Goto, history, Remaining, AfterError, Fails, Types,
        Places, SunspotPlaces, Contents, InStep, Over, FilesLate, Late
<1>4. ASSUME NEW r \in Requests, ReadProof(r)
      PROVE  FilesLate'
    BY <1>4 DEF ReadProof, Goto, history, Types, Places, SunspotPlaces, Contents,
        InStep, Over, FilesLate, Late
<1>5. ASSUME NEW r \in Requests, ReadPublicWitness(r)
      PROVE  FilesLate'
    BY <1>5 DEF ReadPublicWitness, Goto, history, Types, Places, SunspotPlaces,
        Contents, InStep, Over, FilesLate, Late
<1>6. ASSUME NEW r \in Requests, GiveUp(r)
      PROVE  FilesLate'
    BY <1>6 DEF GiveUp, Goto, history, Fails, Types, Places, SunspotPlaces,
        Contents, InStep, Over, FilesLate, Late
<1>7. ASSUME NEW r \in Requests, WriteProof(r)
      PROVE  FilesLate'
    BY <1>7 DEF WriteProof, SunspotGoto, history, Types, Places, SunspotPlaces,
        Contents, InStep, Over, FilesLate, Late
<1>8. ASSUME NEW r \in Requests, WritePublicWitness(r)
      PROVE  FilesLate'
    BY <1>8 DEF WritePublicWitness, SunspotGoto, history, Types, Places,
        SunspotPlaces, Contents, InStep, Over, FilesLate, Late
<1>9. ASSUME NEW r \in Requests, ProveFails(r)
      PROVE  FilesLate'
    BY <1>9 DEF ProveFails, SunspotGoto, history, Fails, Types, Places,
        SunspotPlaces, Contents, InStep, Over, FilesLate, Late
<1>10. CASE UNCHANGED vars
    BY <1>10 DEF vars, history, Types, Places, SunspotPlaces, Contents, InStep,
        Over, FilesLate, Late
<1>. QED
    BY <1>1, <1>2, <1>3, <1>4, <1>5, <1>6, <1>7, <1>8, <1>9, <1>10 DEF Next,
        Handle, Sunspot

\* A witness outlives the waiting only if the request is cut.
LEMMA RemovedStep ==
    ASSUME Types, Removed, [Next]_vars
    PROVE  Removed'
<1>1. ASSUME NEW r \in Requests, WriteWitness(r)
      PROVE  Removed'
    BY <1>1 DEF WriteWitness, Goto, history, Types, Removed
<1>2. ASSUME NEW r \in Requests, Spawn(r)
      PROVE  Removed'
    BY <1>2 DEF Spawn, Goto, SunspotGoto, history, Types, Removed
<1>3. ASSUME NEW r \in Requests, Collect(r)
      PROVE  Removed'
    BY <1>3 DEF Collect, Goto, history, Remaining, AfterError, Fails, Types, Removed
<1>4. ASSUME NEW r \in Requests, ReadProof(r)
      PROVE  Removed'
    BY <1>4 DEF ReadProof, Goto, history, Types, Removed
<1>5. ASSUME NEW r \in Requests, ReadPublicWitness(r)
      PROVE  Removed'
    BY <1>5 DEF ReadPublicWitness, Goto, history, Types, Removed
<1>6. ASSUME NEW r \in Requests, GiveUp(r)
      PROVE  Removed'
    BY <1>6 DEF GiveUp, Goto, history, Fails, Types, Removed
<1>7. ASSUME NEW r \in Requests, WriteProof(r)
      PROVE  Removed'
    BY <1>7 DEF WriteProof, SunspotGoto, history, Types, Removed
<1>8. ASSUME NEW r \in Requests, WritePublicWitness(r)
      PROVE  Removed'
    BY <1>8 DEF WritePublicWitness, SunspotGoto, history, Types, Removed
<1>9. ASSUME NEW r \in Requests, ProveFails(r)
      PROVE  Removed'
    BY <1>9 DEF ProveFails, SunspotGoto, history, Fails, Types, Removed
<1>10. CASE UNCHANGED vars
    BY <1>10 DEF vars, history, Types, Removed
<1>. QED
    BY <1>1, <1>2, <1>3, <1>4, <1>5, <1>6, <1>7, <1>8, <1>9, <1>10 DEF Next,
        Handle, Sunspot

-----------------------------------------------------------------------------

LEMMA FilesInvariant == Spec => []FilesInv
<1>1. Init => FilesInv
    BY FilesInvInit
<1>2. FilesInv /\ [Next]_vars => FilesInv'
    BY TypesStep, InStepStep, FilesLateStep, RemovedStep DEF FilesInv
<1>. QED
    BY <1>1, <1>2, PTL DEF Spec

\* No answer has a file that was there before its request began: neither a failed
\* run of sunspot nor a caller that hung up lets the files of an older request
\* out, for any number of requests (main.rs:44-85).
THEOREM NoStaleProofHolds == Spec => []NoStaleProof
<1>1. FilesInv => NoStaleProof
    BY DEF FilesInv, FilesLate, Late, NoStaleProof, Answered
<1>. QED
    BY <1>1, FilesInvariant, PTL

\* A witness outlives its request only if the request was cut short or its removal
\* failed, for any number of requests (main.rs:44-71).
THEOREM WitnessesRemovedHolds == Spec => []WitnessesRemoved
<1>1. FilesInv => WitnessesRemoved
    BY DEF FilesInv, Removed, WitnessesRemoved
<1>. QED
    BY <1>1, FilesInvariant, PTL
=============================================================================
