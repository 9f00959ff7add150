---------------------------- MODULE ReadApiProofs ----------------------------
(***************************************************************************)
(* Proofs about ReadApi, for every limit, window and number of requests:   *)
(* the limiter lets at most twice the limit through within any WINDOW      *)
(* ticks.                                                                  *)
(***************************************************************************)
EXTENDS ReadApi, Sums, TLAPS

Places == {"idle", "expire", "lookup", "query", "fill"}

Ages == 0 .. WINDOW - 1

CounterType ==
    /\ counter \in [n : 1 .. LIMIT + 2, ttl : 0 .. WINDOW] \cup {NoKey}
    /\ pc \in [Requests -> Places]
    /\ admitted \in [Ages -> Nat]

\* One request at a time is about to give the counter its lifetime, and until
\* it does the counter has none.
ExpireInv ==
    \A r \in Requests : pc[r] = "expire" =>
        /\ counter # NoKey /\ counter.ttl = 0
        /\ \A s \in Requests : pc[s] = "expire" => s = r

\* What a counter that stands at n has let through, at most.
Capped(n) == IF n < LIMIT THEN n ELSE LIMIT

\* The ages of the requests let through after the tick of EXPIRE.
SinceExpire(ttl) == 0 .. WINDOW - ttl - 1

\* How much of the window each counter let through.  An absent counter: the
\* window lies in its predecessor's life, after EXPIRE.  One without a lifetime:
\* its predecessor's and its own, but for the request that is to send EXPIRE.
\* One with a lifetime: both again, and its own alone after EXPIRE.
WindowInv ==
    /\ counter = NoKey => SumFunction(admitted) <= LIMIT
    /\ counter # NoKey /\ counter.ttl = 0 =>
            SumFunction(admitted) + 1 <= LIMIT + Capped(counter.n)
    /\ counter # NoKey /\ counter.ttl > 0 =>
            /\ SumFunction(admitted) <= LIMIT + Capped(counter.n)
            /\ SumFunctionOnSet(admitted, SinceExpire(counter.ttl)) <= Capped(counter.n)

IInv == CounterType /\ ExpireInv /\ WindowInv

-----------------------------------------------------------------------------
(***************************************************************************)
(* Sums of admitted.                                                       *)
(***************************************************************************)

LEMMA SumOfAll ==
    ASSUME NEW f \in [Ages -> Nat]
    PROVE  /\ SumFunction(f) = SumFunctionOnSet(f, Ages)
           /\ SumFunction(f) \in Nat
<1>1. IsFiniteSet(Ages) /\ DOMAIN f = Ages
    BY ReadApiAssumption, FS_Interval DEF Ages
<1>2. SumFunction(f) = SumFunctionOnSet(f, Ages)
    BY <1>1 DEF SumFunction
<1>3. \A a \in Ages : f[a] \in Nat
    OBVIOUS
<1>. QED
    BY <1>1, <1>2, <1>3, SumNat

\* A part of the window holds at most what the window holds.
LEMMA SumOfFirst ==
    ASSUME NEW f \in [Ages -> Nat], NEW m \in Int, m < WINDOW
    PROVE  /\ SumFunctionOnSet(f, 0 .. m) \in Nat
           /\ SumFunctionOnSet(f, 0 .. m) <= SumFunction(f)
<1>1. IsFiniteSet(Ages) /\ 0 .. m \in SUBSET Ages /\ \A a \in Ages : f[a] \in Nat
    <2>1. IsFiniteSet(Ages)
        BY ReadApiAssumption, FS_Interval DEF Ages
    <2>2. \A a \in 0 .. m : a \in Ages
        BY ReadApiAssumption DEF Ages
    <2>. QED
        BY <2>1, <2>2
<1>2. IsFiniteSet(0 .. m)
    BY FS_Interval
<1>3. SumFunctionOnSet(f, 0 .. m) \in Nat
    <2>1. \A a \in 0 .. m : f[a] \in Nat
        BY <1>1
    <2>. QED
        BY <1>2, <2>1, SumNat
<1>4. SumFunctionOnSet(f, 0 .. m) <= SumFunctionOnSet(f, Ages)
    BY <1>1, SumPart
<1>. QED
    BY <1>3, <1>4, SumOfAll

\* Terms that move one place up.
LEMMA SumShifted ==
    ASSUME NEW f, NEW g, NEW m \in Nat,
           \A x \in 0 .. m - 1 : f[x] \in Int,
           \A x \in 0 .. m - 1 : g[x + 1] = f[x],
           g[0] = 0
    PROVE  SumFunctionOnSet(g, 0 .. m) = SumFunctionOnSet(f, 0 .. m - 1)
<1>. DEFINE S == 0 .. m - 1
            P == 1 .. m
            Q == 0 .. m
            h == [x \in S |-> x + 1]
            zero == 0
<1>1. IsFiniteSet(S) /\ IsFiniteSet(P)
    BY FS_Interval
<1>2. \A x \in S : f[x] \in Int
    OBVIOUS
<1>3. \A x \in S : g[h[x]] = f[x]
    OBVIOUS
<1>4. h \in Bijection(S, P)
    <2>1. h \in [S -> P]
        OBVIOUS
    <2>2. \A x, y \in S : h[x] = h[y] => x = y
        OBVIOUS
    <2>3. \A z \in P : z - 1 \in S /\ h[z - 1] = z
        OBVIOUS
    <2>. HIDE DEF h, S
    <2>. QED
        BY <2>1, <2>2, <2>3 DEF Bijection, Injection, IsInjective, Surjection
<1>5. P \cup {zero} = Q /\ zero \notin P /\ g[zero] = 0
    OBVIOUS
<1>6. \A x \in P : g[x] \in Int
    <2>1. \A x \in P : x - 1 \in S /\ (x - 1) + 1 = x
        OBVIOUS
    <2>. QED
        BY <2>1
<1>. HIDE DEF S, P, Q, h, zero
<1>7. SumFunctionOnSet(g, P) = SumFunctionOnSet(f, S)
    BY <1>1, <1>2, <1>3, <1>4, SumMoved
<1>8. SumFunctionOnSet(g, P \cup {zero}) = SumFunctionOnSet(g, P) + g[zero]
    <2>1. \A x \in P \cup {zero} : g[x] \in Int
        BY <1>5, <1>6
    <2>. QED
        BY <1>1, <1>5, <2>1, SumAdd
<1>9. SumFunctionOnSet(g, P) \in Int
    BY <1>1, <1>6, SumTakes
<1>10. SumFunctionOnSet(g, Q) = SumFunctionOnSet(f, S)
    <2>1. SumFunctionOnSet(g, Q) = SumFunctionOnSet(g, P) + g[zero]
        BY <1>5, <1>8
    <2>. QED
        BY <2>1, <1>5, <1>7, <1>9
<1>. QED
    BY <1>10 DEF S, Q

\* The first of the terms grows by one.
LEMMA SumFirstBump ==
    ASSUME NEW f, NEW g, NEW m \in Nat,
           \A x \in 0 .. m : f[x] \in Int,
           g[0] = f[0] + 1, \A x \in 1 .. m : g[x] = f[x]
    PROVE  SumFunctionOnSet(g, 0 .. m) = SumFunctionOnSet(f, 0 .. m) + 1
<1>. DEFINE S == 0 .. m
            zero == 0
<1>1. IsFiniteSet(S)
    BY FS_Interval
<1>2. zero \in S
    OBVIOUS
<1>3. \A x \in S : f[x] \in Int
    OBVIOUS
<1>4. g[zero] = f[zero] + 1
    OBVIOUS
<1>5. \A x \in S \ {zero} : g[x] = f[x]
    OBVIOUS
<1>. HIDE DEF S, zero
<1>6. SumFunctionOnSet(g, S) = SumFunctionOnSet(f, S) + 1
    BY <1>1, <1>2, <1>3, <1>4, <1>5, SumBump
<1>. QED
    BY <1>6 DEF S

\* What a tick leaves of the window is all but its oldest ticks.
LEMMA TickSums ==
    ASSUME NEW f \in [Ages -> Nat], NEW g,
           g = [age \in Ages |-> IF age = 0 THEN 0 ELSE f[age - 1]]
    PROVE  /\ g \in [Ages -> Nat]
           /\ SumFunction(g) = SumFunctionOnSet(f, 0 .. WINDOW - 2)
           /\ \A m \in Ages :
                SumFunctionOnSet(g, 0 .. m) = SumFunctionOnSet(f, 0 .. m - 1)
<1>1. g \in [Ages -> Nat]
    <2>. SUFFICES ASSUME NEW x \in Ages, x # 0 PROVE f[x - 1] \in Nat
        OBVIOUS
    <2>1. x - 1 \in Ages
        BY ReadApiAssumption DEF Ages
    <2>. QED
        BY <2>1
<1>2. ASSUME NEW m \in Ages
      PROVE  SumFunctionOnSet(g, 0 .. m) = SumFunctionOnSet(f, 0 .. m - 1)
    <2>1. m \in Nat
        BY ReadApiAssumption DEF Ages
    <2>2. \A x \in 0 .. m - 1 : x \in Ages /\ x + 1 \in Ages /\ (x + 1) - 1 = x /\ x + 1 # 0
        BY <2>1, ReadApiAssumption DEF Ages
    <2>3. \A x \in 0 .. m - 1 : f[x] \in Int
        BY <2>2
    <2>4. \A x \in 0 .. m - 1 : g[x + 1] = f[x]
        BY <2>2
    <2>5. g[0] = 0
        <3>1. 0 \in Ages
            BY ReadApiAssumption DEF Ages
        <3>. QED
            BY <3>1
    <2>. QED
        BY <2>1, <2>3, <2>4, <2>5, SumShifted
<1>3. SumFunction(g) = SumFunctionOnSet(f, 0 .. WINDOW - 2)
    <2>1. WINDOW - 1 \in Ages /\ (WINDOW - 1) - 1 = WINDOW - 2
        BY ReadApiAssumption DEF Ages
    <2>2. SumFunctionOnSet(g, 0 .. WINDOW - 1) = SumFunctionOnSet(f, 0 .. (WINDOW - 1) - 1)
        BY <1>2, <2>1
    <2>3. SumFunction(g) = SumFunctionOnSet(g, 0 .. WINDOW - 1)
        BY <1>1, SumOfAll DEF Ages
    <2>. QED
        BY <2>1, <2>2, <2>3
<1>. QED
    BY <1>1, <1>2, <1>3

\* One more request let through now.
LEMMA SumAdmitted ==
    ASSUME NEW f \in [Ages -> Nat], NEW g, g = [f EXCEPT ![0] = @ + 1],
           NEW m \in Int, m < WINDOW
    PROVE  /\ g \in [Ages -> Nat]
           /\ SumFunction(g) = SumFunction(f) + 1
           /\ SumFunctionOnSet(g, 0 .. m) <= SumFunctionOnSet(f, 0 .. m) + 1
<1>1. 0 \in Ages
    BY ReadApiAssumption DEF Ages
<1>2. g \in [Ages -> Nat]
    BY <1>1
<1>3. ASSUME NEW k \in Nat, k < WINDOW
      PROVE  SumFunctionOnSet(g, 0 .. k) = SumFunctionOnSet(f, 0 .. k) + 1
    <2>1. \A x \in 0 .. k : x \in Ages
        BY <1>3, ReadApiAssumption DEF Ages
    <2>2. \A x \in 0 .. k : f[x] \in Int
        BY <2>1
    <2>3. g[0] = f[0] + 1
        BY <1>1
    <2>4. \A x \in 1 .. k : x \in 0 .. k /\ x # 0
        OBVIOUS
    <2>5. \A x \in 1 .. k : g[x] = f[x]
        BY <2>1, <2>4
    <2>. QED
        BY Zenon, <2>2, <2>3, <2>5, SumFirstBump
<1>4. SumFunction(g) = SumFunction(f) + 1
    <2>1. WINDOW - 1 \in Nat /\ WINDOW - 1 < WINDOW
        BY ReadApiAssumption
    <2>2. SumFunctionOnSet(g, 0 .. WINDOW - 1) = SumFunctionOnSet(f, 0 .. WINDOW - 1) + 1
        BY <1>3, <2>1
    <2>. QED
        BY <1>2, <2>2, SumOfAll DEF Ages
<1>5. CASE m < 0
    <2>1. 0 .. m = {}
        BY <1>5
    <2>. QED
        BY <2>1, <1>2, <1>4, SumEmpty
<1>6. CASE m >= 0
    <2>. m \in Nat
        BY <1>6
    <2>1. SumFunctionOnSet(g, 0 .. m) = SumFunctionOnSet(f, 0 .. m) + 1
        BY Zenon, <1>3
    <2>2. SumFunctionOnSet(f, 0 .. m) \in Int
        BY SumOfFirst
    <2>. QED
        BY <2>1, <2>2, <1>2, <1>4
<1>. QED
    BY <1>5, <1>6

-----------------------------------------------------------------------------
(***************************************************************************)
(* The invariant.                                                          *)
(***************************************************************************)

LEMMA CountFollows ==
    ASSUME CounterType, counter # NoKey
    PROVE  /\ counter.n \in 1 .. LIMIT + 2 /\ counter.ttl \in 0 .. WINDOW
           /\ Count \in 2 .. LIMIT + 2
           /\ Capped(counter.n) <= Capped(Count)
           /\ ~ TooMany(Count) => Capped(counter.n) + 1 = Capped(Count)
BY ReadApiAssumption DEF CounterType, Count, Capped, TooMany

LEMMA InitHolds == Init => IInv
<1>. SUFFICES ASSUME Init PROVE IInv
    OBVIOUS
<1>1. admitted \in [Ages -> Nat] /\ counter = NoKey
    BY DEF Init, Ages
<1>2. CounterType /\ ExpireInv
    BY <1>1 DEF Init, CounterType, ExpireInv, Places
<1>3. SumFunction(admitted) = 0
    <2>1. IsFiniteSet(Ages) /\ \A a \in Ages : admitted[a] = 0
        BY ReadApiAssumption, FS_Interval DEF Init, Ages
    <2>. DEFINE f == admitted
    <2>2. \A a \in Ages : f[a] = 0
        BY <2>1
    <2>3. SumFunction(f) = SumFunctionOnSet(f, Ages)
        BY <1>1, SumOfAll
    <2>. HIDE DEF f
    <2>4. SumFunctionOnSet(f, Ages) = 0
        BY <2>1, <2>2, SumZero
    <2>. QED
        BY <2>3, <2>4 DEF f
<1>. QED
    BY <1>1, <1>2, <1>3, ReadApiAssumption DEF IInv, WindowInv

LEMMA INCRHolds ==
    ASSUME IInv, NEW r \in Requests, INCR(r)
    PROVE  IInv'
<1>. USE ReadApiAssumption DEF IInv, CounterType
<1>1. counter' = [n |-> Count, ttl |-> IF counter = NoKey THEN 0 ELSE counter.ttl]
    BY DEF INCR
<1>2. CASE counter = NoKey
    <2>1. /\ Count = 1
          /\ pc' = [pc EXCEPT ![r] = "expire"]
          /\ admitted' = admitted
        BY <1>2 DEF INCR, Count, StartsWindow, Goto
    <2>2. /\ counter' = [n |-> 1, ttl |-> 0]
          /\ counter' # NoKey /\ counter'.n = 1 /\ counter'.ttl = 0
        BY <1>1, <1>2, <2>1
    <2>3. CounterType'
        BY <2>1, <2>2 DEF Places
    <2>4. ExpireInv'
        BY <1>2, <2>1, <2>2 DEF ExpireInv
    <2>5. WindowInv'
        BY <1>2, <2>1, <2>2, SumOfAll DEF WindowInv, Capped
    <2>. QED
        BY <2>3, <2>4, <2>5
<1>3. CASE counter # NoKey
    <2>1. /\ Count \in 2 .. LIMIT + 2
          /\ counter' = [n |-> Count, ttl |-> counter.ttl]
          /\ Decide(r, Count)
        BY <1>1, <1>3, CountFollows DEF INCR, StartsWindow
    <2>2. /\ counter' # NoKey /\ counter'.n = Count /\ counter'.ttl = counter.ttl
          /\ counter.ttl \in 0 .. WINDOW
        BY <1>3, <2>1, CountFollows
    <2>3. pc' \in [Requests -> Places] /\ \A s \in Requests : pc'[s] = "expire" => pc[s] = "expire"
        BY <2>1 DEF Decide, Goto, Places
    <2>4. ExpireInv'
        BY <2>2, <2>3 DEF ExpireInv
    <2>5. CASE TooMany(Count)
        <3>1. admitted' = admitted
            BY <2>1, <2>5 DEF Decide
        <3>2. CounterType'
            BY <2>1, <2>2, <2>3, <3>1
        <3>3. WindowInv'
            <4>1. Capped(counter.n) <= Capped(Count) /\ Capped(counter.n) \in Nat /\ Capped(Count) \in Nat
                BY <1>3, <2>1, CountFollows DEF Capped
            <4>2. SumFunction(admitted) \in Nat
                BY SumOfAll
            <4>3. WINDOW - counter.ttl - 1 \in Int
                BY <2>2
            <4>4. counter.ttl > 0 => SumFunctionOnSet(admitted, SinceExpire(counter.ttl)) \in Nat
                BY <2>2, SumOfFirst DEF SinceExpire
            <4>. QED
                BY <1>3, <2>2, <3>1, <4>1, <4>2, <4>4 DEF WindowInv
        <3>. QED
            BY <2>4, <3>2, <3>3
    <2>6. CASE ~ TooMany(Count)
        <3>1. admitted' = [admitted EXCEPT ![0] = @ + 1]
            BY <2>1, <2>6 DEF Decide
        <3>2. /\ admitted' \in [Ages -> Nat]
              /\ SumFunction(admitted') = SumFunction(admitted) + 1
              /\ counter.ttl > 0 =>
                    SumFunctionOnSet(admitted', SinceExpire(counter.ttl))
                        <= SumFunctionOnSet(admitted, SinceExpire(counter.ttl)) + 1
            <4>1. WINDOW - counter.ttl - 1 \in Int /\ -1 \in Int /\ -1 < WINDOW
                BY <2>2
            <4>2. counter.ttl > 0 => WINDOW - counter.ttl - 1 < WINDOW
                BY <2>2
            <4>. QED
                BY <3>1, <4>1, <4>2, SumAdmitted DEF SinceExpire
        <3>3. CounterType'
            BY <2>1, <2>2, <2>3, <3>2
        <3>4. WindowInv'
            <4>1. Capped(counter.n) + 1 = Capped(Count) /\ Capped(counter.n) \in Nat
                BY <1>3, <2>1, <2>6, CountFollows DEF Capped
            <4>2. SumFunction(admitted) \in Nat
                BY SumOfAll
            <4>3. WINDOW - counter.ttl - 1 \in Int
                BY <2>2
            <4>4. counter.ttl > 0 =>
                    /\ SumFunctionOnSet(admitted, SinceExpire(counter.ttl)) \in Nat
                    /\ SumFunctionOnSet(admitted', SinceExpire(counter.ttl)) \in Nat
                BY <2>2, <3>2, <4>3, SumOfFirst DEF SinceExpire
            <4>. QED
                BY <1>3, <2>2, <3>2, <4>1, <4>2, <4>4 DEF WindowInv
        <3>. QED
            BY <2>4, <3>3, <3>4
    <2>. QED
        BY <2>5, <2>6
<1>. QED
    BY <1>2, <1>3

LEMMA EXPIREHolds ==
    ASSUME IInv, NEW r \in Requests, EXPIRE(r)
    PROVE  IInv'
<1>. USE ReadApiAssumption DEF IInv, CounterType
<1>1. /\ counter # NoKey /\ counter.ttl = 0
      /\ \A s \in Requests : pc[s] = "expire" => s = r
    BY DEF EXPIRE, ExpireInv
<1>2. /\ counter' = [counter EXCEPT !.ttl = WINDOW]
      /\ pc' = [pc EXCEPT ![r] = "lookup"]
      /\ admitted' = [admitted EXCEPT ![0] = @ + 1]
    BY <1>1 DEF EXPIRE, Decide, TooMany, Goto
<1>3. counter' # NoKey /\ counter'.n = counter.n /\ counter'.ttl = WINDOW
    BY <1>1, <1>2
<1>4. /\ admitted' \in [Ages -> Nat]
      /\ SumFunction(admitted') = SumFunction(admitted) + 1
    <2>1. -1 \in Int /\ -1 < WINDOW
        OBVIOUS
    <2>. QED
        BY <1>2, <2>1, SumAdmitted
<1>5. CounterType'
    BY <1>1, <1>2, <1>4 DEF Places
<1>6. ExpireInv'
    BY <1>1, <1>2 DEF ExpireInv
<1>7. WindowInv'
    <2>1. SinceExpire(WINDOW) = {}
        BY DEF SinceExpire
    <2>2. SumFunctionOnSet(admitted', SinceExpire(WINDOW)) = 0
        BY <2>1, SumEmpty
    <2>3. Capped(counter.n) \in Nat
        BY <1>1 DEF Capped
    <2>. QED
        BY <1>1, <1>3, <1>4, <2>2, <2>3 DEF WindowInv
<1>. QED
    BY <1>5, <1>6, <1>7

LEMMA TickHolds ==
    ASSUME IInv, Tick
    PROVE  IInv'
<1>. USE ReadApiAssumption DEF IInv, CounterType
<1>1. counter' = Older(counter) /\ pc' = pc
    BY DEF Tick
<1>2. /\ admitted' \in [Ages -> Nat]
      /\ SumFunction(admitted') = SumFunctionOnSet(admitted, 0 .. WINDOW - 2)
      /\ \A m \in Ages :
            SumFunctionOnSet(admitted', 0 .. m) = SumFunctionOnSet(admitted, 0 .. m - 1)
    BY TickSums DEF Tick
<1>3. /\ SumFunction(admitted') \in Nat /\ SumFunction(admitted) \in Nat
      /\ SumFunction(admitted') <= SumFunction(admitted)
    <2>1. WINDOW - 2 \in Int /\ WINDOW - 2 < WINDOW
        OBVIOUS
    <2>. QED
        BY <1>2, <2>1, SumOfFirst, SumOfAll
<1>4. CASE counter = NoKey \/ counter.ttl = 0
    <2>1. counter' = counter
        BY <1>1, <1>4 DEF Older
    <2>2. CounterType' /\ ExpireInv'
        BY <1>1, <1>2, <2>1 DEF ExpireInv
    <2>3. counter # NoKey => Capped(counter.n) \in Nat
        BY DEF Capped
    <2>4. WindowInv'
        BY <1>3, <1>4, <2>1, <2>3 DEF WindowInv
    <2>. QED
        BY <2>2, <2>4
<1>5. CASE counter # NoKey /\ counter.ttl = 1
    <2>1. counter' = NoKey
        BY <1>1, <1>5 DEF Older
    <2>2. CounterType' /\ ExpireInv'
        BY <1>1, <1>2, <1>5, <2>1 DEF ExpireInv
    <2>3. SinceExpire(counter.ttl) = 0 .. WINDOW - 2
        BY <1>5 DEF SinceExpire
    <2>4. SumFunction(admitted') <= Capped(counter.n) /\ Capped(counter.n) <= LIMIT
          /\ Capped(counter.n) \in Nat
        BY <1>2, <1>5, <2>3 DEF WindowInv, Capped
    <2>5. WindowInv'
        BY <1>3, <2>1, <2>4 DEF WindowInv
    <2>. QED
        BY <2>2, <2>5
<1>6. CASE counter # NoKey /\ counter.ttl > 1
    <2>1. counter' = [counter EXCEPT !.ttl = @ - 1]
        BY <1>1, <1>6 DEF Older
    <2>2. /\ counter' # NoKey /\ counter'.n = counter.n /\ counter'.ttl = counter.ttl - 1
          /\ counter'.ttl \in 1 .. WINDOW
        BY <1>6, <2>1
    <2>3. CounterType' /\ ExpireInv'
        BY <1>1, <1>2, <1>6, <2>1 DEF ExpireInv
    <2>4. WINDOW - counter.ttl \in Ages
        BY <1>6 DEF Ages
    <2>5. SumFunctionOnSet(admitted', 0 .. WINDOW - counter.ttl)
            = SumFunctionOnSet(admitted, 0 .. WINDOW - counter.ttl - 1)
        BY <1>2, <2>4
    <2>6. SinceExpire(counter'.ttl) = 0 .. WINDOW - counter.ttl
        BY <1>6, <2>2 DEF SinceExpire
    <2>7. Capped(counter.n) \in Nat
        BY <1>6 DEF Capped
    <2>8. SumFunctionOnSet(admitted', SinceExpire(counter'.ttl)) <= Capped(counter.n)
        BY <1>6, <2>5, <2>6 DEF WindowInv, SinceExpire
    <2>9. WindowInv'
        BY <1>3, <1>6, <2>2, <2>7, <2>8 DEF WindowInv
    <2>. QED
        BY <2>3, <2>9
<1>. QED
    BY <1>4, <1>5, <1>6

\* A step of no request into or out of EXPIRE, and none of the limiter's.
LEMMA OthersHold ==
    ASSUME IInv, UNCHANGED <<counter, admitted>>, pc' \in [Requests -> Places],
           \A r \in Requests : pc'[r] = "expire" => pc[r] = "expire"
    PROVE  IInv'
<1>1. CounterType' /\ WindowInv'
    BY DEF IInv, CounterType, WindowInv
<1>2. ExpireInv'
    BY DEF IInv, ExpireInv
<1>. QED
    BY <1>1, <1>2 DEF IInv

LEMMA NextHolds ==
    ASSUME IInv, [Next]_vars
    PROVE  IInv'
<1>. USE DEF IInv, CounterType
<1>1. ASSUME NEW r \in Requests, INCR(r)
      PROVE  IInv'
    BY <1>1, INCRHolds
<1>2. ASSUME NEW r \in Requests, EXPIRE(r)
      PROVE  IInv'
    BY <1>2, EXPIREHolds
<1>3. ASSUME NEW r \in Requests, Hit(r) \/ Miss(r) \/ get_commitments(r) \/ Fill(r) \/ CallFails(r)
      PROVE  IInv'
    <2>1. UNCHANGED <<counter, admitted>>
        BY <1>3 DEF Hit, Miss, get_commitments, Fill, CallFails
    <2>2. /\ pc' \in [Requests -> Places]
          /\ \A s \in Requests : pc'[s] = "expire" => pc[s] = "expire"
        BY <1>3 DEF Hit, Miss, get_commitments, Fill, CallFails, Goto, Places
    <2>. QED
        BY <2>1, <2>2, OthersHold
<1>4. ASSUME SaveDeposit \/ invalidate_pool \/ UNCHANGED vars
      PROVE  IInv'
    <2>1. UNCHANGED <<counter, admitted, pc>>
        BY <1>4 DEF SaveDeposit, invalidate_pool, vars
    <2>. QED
        BY <2>1, OthersHold
<1>5. ASSUME Tick
      PROVE  IInv'
    BY <1>5, TickHolds
<1>6. ASSUME Crash
      PROVE  IInv'
    <2>1. UNCHANGED <<counter, admitted>> /\ pc' = [r \in Requests |-> "idle"]
        BY <1>6 DEF Crash
    <2>. QED
        BY <2>1, OthersHold DEF Places
<1>. QED
    BY <1>1, <1>2, <1>3, <1>4, <1>5, <1>6 DEF Next, Proceed

LEMMA Invariance == Spec => []IInv
<1>. QED
    BY InitHolds, NextHolds, PTL DEF Spec

-----------------------------------------------------------------------------
(***************************************************************************)
(* The result.                                                             *)
(***************************************************************************)

\* At every moment the requests let through in the last WINDOW ticks are at
\* most twice the limit, for any limit, any window and any number of requests,
\* also when EXPIRE is late, fails or is lost in a restart (cache.rs:183-194).
THEOREM WindowBoundHolds == Spec => []WindowBound
<1>1. IInv => WindowBound
    <2>. SUFFICES ASSUME IInv PROVE WindowBound
        OBVIOUS
    <2>1. SumFunction(admitted) \in Nat
        BY SumOfAll DEF IInv, CounterType
    <2>2. CASE counter = NoKey
        BY <2>1, <2>2, ReadApiAssumption DEF IInv, WindowInv, WindowBound
    <2>3. CASE counter # NoKey
        <3>1. /\ counter.ttl \in Nat
              /\ Capped(counter.n) \in Nat /\ Capped(counter.n) <= LIMIT
            BY <2>3, ReadApiAssumption DEF IInv, CounterType, Capped
        <3>2. SumFunction(admitted) <= LIMIT + Capped(counter.n)
            BY <2>1, <2>3, <3>1, ReadApiAssumption DEF IInv, WindowInv
        <3>. QED
            BY <2>1, <3>1, <3>2, ReadApiAssumption DEF WindowBound
    <2>. QED
        BY <2>2, <2>3
<1>. QED
    BY <1>1, Invariance, PTL
=============================================================================
