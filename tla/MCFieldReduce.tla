---------------------------- MODULE MCFieldReduce ----------------------------
(***************************************************************************)
(* The 32 bytes and both moduli of the code, on keys around every multiple *)
(* of a modulus, at the ends of the range and spread over it.              *)
(***************************************************************************)
EXTENDS FieldReduce

\* instructions.rs:13-16
RealModulus ==
    <<48, 100, 78, 114, 225, 49, 160, 41, 184, 80, 69, 182, 129, 129, 88, 93,
      151, 129, 106, 145, 104, 113, 202, 141, 60, 32, 140, 22, 216, 124, 253, 71>>

\* useWithdraw.ts:25-26, the decimal literal in bytes
RealClientModulus ==
    <<48, 100, 78, 114, 225, 49, 160, 41, 184, 80, 69, 182, 129, 129, 88, 93,
      40, 51, 232, 72, 121, 185, 112, 145, 67, 225, 245, 147, 240, 0, 0, 1>>

Zero == [k \in 1 .. WIDTH |-> 0]
One == [Zero EXCEPT ![WIDTH] = 1]
Top == [k \in 1 .. WIDTH |-> BASE - 1]

\* The largest quotient of a 256-bit number by a modulus.
MaxQuotient == 5

\* q * m, with one more or one less, for every quotient.
Around(m) ==
    UNION {LET x == PlusMultiple(Zero, m, q).digits
           IN  {x, PlusMultiple(x, One, 1).digits, sub_256(x, One)} : q \in 0 .. MaxQuotient}

\* A few keys far from every multiple of a modulus.
Spread == {[k \in 1 .. WIDTH |-> (37 * k + s * 51) % BASE] : s \in 0 .. 9}

RealKeys == Around(RealModulus) \cup Around(RealClientModulus) \cup Spread \cup {Top}
=============================================================================
