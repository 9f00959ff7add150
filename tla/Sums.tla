-------------------------------- MODULE Sums --------------------------------
(***************************************************************************)
(* Facts that do not depend on a model.                                    *)
(*                                                                         *)
(* Induction over the numbers up to a bound (UpTo), for what is defined by *)
(* a recursive function.                                                   *)
(*                                                                         *)
(* SumFunctionOnSet, the sum of a function over a finite set, takes the    *)
(* elements in the order CHOOSE gives them; what a proof needs is that any *)
(* of them can be taken first.                                             *)
(*                                                                         *)
(* Both inductions are by minimal counterexample.                          *)
(***************************************************************************)
EXTENDS Integers, Functions, FiniteSetTheorems, WellFoundedInduction, TLAPS

-----------------------------------------------------------------------------
(***************************************************************************)
(* Induction up to a bound, over a set that holds 0 and the successor of   *)
(* each of its members below the bound.                                    *)
(***************************************************************************)

\* A non-empty set of naturals has a least member.
LEMMA Least ==
    ASSUME NEW T, T \subseteq Nat, T # {}
    PROVE  \E x \in T : \A y \in T : x <= y
<1>1. IsWellFoundedOn(OpToRel(<, Nat), Nat)
    BY NatLessThanWellFounded
<1>2. PICK x \in T : \A y \in T : ~ (<<y, x>> \in OpToRel(<, Nat))
    BY <1>1, WFMin
<1>3. ASSUME NEW y \in T
      PROVE  x <= y
    <2>1. ~ (y < x)
        BY <1>2 DEF OpToRel
    <2>. QED
        BY <2>1
<1>. QED
    BY <1>3

LEMMA UpTo ==
    ASSUME NEW n \in Nat, NEW S, 0 \in S,
           \A k \in 0 .. n : k < n /\ k \in S => k + 1 \in S
    PROVE  \A k \in 0 .. n : k \in S
<1>. DEFINE T == {k \in 0 .. n : k \notin S}
<1>. SUFFICES ASSUME T # {} PROVE FALSE
    OBVIOUS
<1>1. PICK x \in T : \A y \in T : x <= y
    <2>1. T \subseteq Nat
        OBVIOUS
    <2>. HIDE DEF T
    <2>. QED
        BY <2>1, Least
<1>2. x # 0 /\ x - 1 \in 0 .. n /\ x - 1 < n
    OBVIOUS
<1>3. x - 1 \in S
    BY <1>1, <1>2
<1>4. (x - 1) + 1 \in S
    BY <1>2, <1>3
<1>. QED
    BY <1>4

-----------------------------------------------------------------------------
(***************************************************************************)
(* Sums.                                                                   *)
(***************************************************************************)

\* The element a sum takes first.
First(s) == CHOOSE x \in s : TRUE

\* g sums f over each subset of S.
IsSum(g, f, S) ==
    g = [s \in SUBSET S |->
            IF s = {} THEN 0 ELSE f[First(s)] + g[s \ {First(s)}]]

LEMMA FirstIn ==
    ASSUME NEW s, s # {}
    PROVE  First(s) \in s
BY DEF First

\* A set of finite sets has a minimal element.
LEMMA MinimalSet ==
    ASSUME NEW S, IsFiniteSet(S), NEW B, B \subseteq SUBSET S, B # {}
    PROVE  \E T \in B : \A U \in B : U \subseteq T => U = T
<1>1. IsWellFoundedOn(StrictSubsetOrdering(S), SUBSET S)
    BY FS_StrictSubsetOrderingWellFounded, FS_FiniteSubsetsOfFinite
<1>2. PICK T \in B : \A U \in B : ~ (<<U, T>> \in StrictSubsetOrdering(S))
    BY <1>1, WFMin
<1>3. ASSUME NEW U \in B, U \subseteq T
      PROVE  U = T
    <2>1. <<U, T>> \in (SUBSET S) \X (SUBSET S)
        OBVIOUS
    <2>. QED
        BY <1>2, <1>3, <2>1 DEF StrictSubsetOrdering
<1>. QED
    BY <1>3

\* Two functions that sum f agree on the sets both are defined for.
LEMMA SumUnique ==
    ASSUME NEW f, NEW S, NEW T, IsFiniteSet(S),
           NEW g, IsSum(g, f, S), NEW h, IsSum(h, f, T),
           NEW U \in SUBSET S, U \in SUBSET T
    PROVE  g[U] = h[U]
<1>. DEFINE B == {s \in SUBSET S : s \in SUBSET T /\ g[s] # h[s]}
<1>. SUFFICES ASSUME B # {} PROVE FALSE
    OBVIOUS
<1>1. PICK V \in B : \A s \in B : s \subseteq V => s = V
    <2>1. B \subseteq SUBSET S
        OBVIOUS
    <2>. HIDE DEF B
    <2>. QED
        BY <2>1, MinimalSet
<1>2. g[V] = IF V = {} THEN 0 ELSE f[First(V)] + g[V \ {First(V)}]
    BY DEF IsSum
<1>3. h[V] = IF V = {} THEN 0 ELSE f[First(V)] + h[V \ {First(V)}]
    BY DEF IsSum
<1>4. V # {}
    BY <1>2, <1>3
<1>5. V \ {First(V)} \notin B
    BY <1>1, <1>4, FirstIn
<1>6. g[V \ {First(V)}] = h[V \ {First(V)}]
    BY <1>5
<1>. QED
    BY <1>2, <1>3, <1>4, <1>6

\* A function that sums f exists, over any finite set.
LEMMA SumExists ==
    ASSUME NEW f, NEW S, IsFiniteSet(S)
    PROVE  \E g : IsSum(g, f, S)
<1>. DEFINE B == {s \in SUBSET S : ~ \E g : IsSum(g, f, s)}
            G(s) == CHOOSE g : IsSum(g, f, s)
<1>. SUFFICES ASSUME B # {} PROVE FALSE
    OBVIOUS
<1>1. PICK T \in B : \A s \in B : s \subseteq T => s = T
    <2>1. B \subseteq SUBSET S
        OBVIOUS
    <2>. HIDE DEF B
    <2>. QED
        BY <2>1, MinimalSet
<1>2. ASSUME NEW u \in SUBSET T, u # T
      PROVE  IsSum(G(u), f, u) /\ IsFiniteSet(u)
    <2>1. u \notin B /\ u \in SUBSET S
        BY <1>1, <1>2
    <2>2. IsFiniteSet(u)
        BY <2>1, FS_Subset
    <2>. QED
        BY <2>1, <2>2
<1>. DEFINE h == [s \in SUBSET T |->
                    IF s = {} THEN 0
                    ELSE f[First(s)] + G(s \ {First(s)})[s \ {First(s)}]]
<1>3. ASSUME NEW u \in SUBSET T, u # T
      PROVE  h[u] = G(u)[u]
    <2>1. CASE u = {}
        <3>1. IsSum(G(u), f, u) /\ u \in SUBSET u
            BY <1>2, <1>3
        <3>. HIDE DEF G
        <3>2. G(u)[u] = 0
            BY <2>1, <3>1 DEF IsSum
        <3>. QED
            BY <2>1, <3>2
    <2>2. CASE u # {}
        <3>. DEFINE v == u \ {First(u)}
        <3>1. v \in SUBSET u /\ v # T /\ v \in SUBSET T
            BY <2>2, FirstIn
        <3>2. IsSum(G(u), f, u) /\ IsFiniteSet(u) /\ IsSum(G(v), f, v) /\ v \in SUBSET v
            BY <1>2, <1>3, <3>1
        <3>3. G(u)[u] = f[First(u)] + G(u)[v]
            BY <2>2, <3>2 DEF IsSum
        <3>4. G(u)[v] = G(v)[v]
            <4>. HIDE DEF v, G
            <4>. QED
                BY <3>1, <3>2, SumUnique
        <3>5. h[u] = f[First(u)] + G(v)[v]
            BY <2>2
        <3>. QED
            BY <3>3, <3>4, <3>5
    <2>. QED
        BY <2>1, <2>2
<1>4. ASSUME NEW s \in SUBSET T
      PROVE  h[s] = IF s = {} THEN 0 ELSE f[First(s)] + h[s \ {First(s)}]
    <2>1. CASE s = {}
        BY <2>1
    <2>2. CASE s # {}
        <3>. DEFINE u == s \ {First(s)}
        <3>1. u \in SUBSET T /\ u # T
            BY <2>2, FirstIn
        <3>2. h[u] = G(u)[u]
            BY <1>3, <3>1
        <3>3. h[s] = f[First(s)] + G(u)[u]
            BY <2>2
        <3>. QED
            BY <2>2, <3>2, <3>3
    <2>. QED
        BY <2>1, <2>2
<1>5. h = [s \in SUBSET T |-> h[s]]
    OBVIOUS
<1>. HIDE DEF h, G, B
<1>6. IsSum(h, f, T)
    BY <1>4, <1>5 DEF IsSum
<1>. QED
    BY <1>1, <1>6 DEF B

\* The sum over S is what a function that sums f has at S.
LEMMA SumIs ==
    ASSUME NEW f, NEW S, IsFiniteSet(S), NEW g, IsSum(g, f, S)
    PROVE  SumFunctionOnSet(f, S) = g[S]
<1>1. SumFunctionOnSet(f, S) = (CHOOSE i : IsSum(i, f, S))[S]
    BY DEF SumFunctionOnSet, FoldFunctionOnSet, MapThenFoldSet, IsSum, First
<1>2. IsSum((CHOOSE i : IsSum(i, f, S)), f, S)
    BY SumExists
<1>. QED
    BY <1>1, <1>2, SumUnique

\* The equations of a sum.
LEMMA SumEmpty ==
    ASSUME NEW f
    PROVE  SumFunctionOnSet(f, {}) = 0
<1>1. IsFiniteSet({})
    BY FS_EmptySet
<1>2. PICK g : IsSum(g, f, {})
    BY <1>1, SumExists
<1>3. g[{}] = 0
    BY <1>2 DEF IsSum
<1>. QED
    BY <1>1, <1>2, <1>3, SumIs

LEMMA SumFirst ==
    ASSUME NEW f, NEW S, IsFiniteSet(S), S # {}
    PROVE  SumFunctionOnSet(f, S)
              = f[First(S)] + SumFunctionOnSet(f, S \ {First(S)})
<1>. DEFINE T == S \ {First(S)}
<1>1. PICK g : IsSum(g, f, S)
    BY SumExists
<1>2. IsFiniteSet(T) /\ T \in SUBSET S
    BY FS_Subset
<1>3. PICK h : IsSum(h, f, T)
    BY <1>2, SumExists
<1>4. g[T] = h[T]
    BY <1>1, <1>2, <1>3, SumUnique
<1>5. SumFunctionOnSet(f, T) = h[T] /\ SumFunctionOnSet(f, S) = g[S]
    BY <1>1, <1>2, <1>3, SumIs
<1>6. g[S] = f[First(S)] + g[T]
    BY <1>1 DEF IsSum
<1>. QED
    BY <1>4, <1>5, <1>6

\* A sum of integers is an integer, and any element can be taken first.
LEMMA SumTakes ==
    ASSUME NEW f, NEW S, IsFiniteSet(S), \A x \in S : f[x] \in Int
    PROVE  /\ SumFunctionOnSet(f, S) \in Int
           /\ \A y \in S : SumFunctionOnSet(f, S) = f[y] + SumFunctionOnSet(f, S \ {y})
<1>. DEFINE Good(s) ==
                /\ SumFunctionOnSet(f, s) \in Int
                /\ \A y \in s : SumFunctionOnSet(f, s) = f[y] + SumFunctionOnSet(f, s \ {y})
            B == {s \in SUBSET S : ~ Good(s)}
<1>. SUFFICES ASSUME B # {} PROVE FALSE
    OBVIOUS
<1>1. PICK T \in B : \A s \in B : s \subseteq T => s = T
    <2>1. B \subseteq SUBSET S
        OBVIOUS
    <2>. HIDE DEF B
    <2>. QED
        BY <2>1, MinimalSet
<1>2. IsFiniteSet(T) /\ T \subseteq S
    BY FS_Subset
<1>3. \A s \in SUBSET T : s # T => Good(s)
    BY <1>1, <1>2
<1>4. T # {}
    BY SumEmpty
<1>. DEFINE x == First(T)
<1>5. /\ x \in T
      /\ SumFunctionOnSet(f, T) = f[x] + SumFunctionOnSet(f, T \ {x})
      /\ SumFunctionOnSet(f, T \ {x}) \in Int
    BY <1>2, <1>3, <1>4, FirstIn, SumFirst
<1>. HIDE DEF x
<1>6. ASSUME NEW y \in T
      PROVE  SumFunctionOnSet(f, T) = f[y] + SumFunctionOnSet(f, T \ {y})
    <2>1. CASE y = x
        BY <1>5, <2>1
    <2>2. CASE y # x
        <3>1. SumFunctionOnSet(f, T \ {x}) = f[y] + SumFunctionOnSet(f, (T \ {x}) \ {y})
            BY <1>3, <1>5, <2>2
        <3>2. SumFunctionOnSet(f, T \ {y}) = f[x] + SumFunctionOnSet(f, (T \ {y}) \ {x})
            BY <1>3, <1>5, <2>2
        <3>3. (T \ {x}) \ {y} = (T \ {y}) \ {x}
            OBVIOUS
        <3>4. SumFunctionOnSet(f, (T \ {x}) \ {y}) \in Int
            BY <1>3, <1>5
        <3>5. f[x] \in Int /\ f[y] \in Int
            BY <1>2, <1>5
        <3>. DEFINE rest == SumFunctionOnSet(f, (T \ {x}) \ {y})
                    sum  == SumFunctionOnSet(f, T)
                    noY  == SumFunctionOnSet(f, T \ {y})
        <3>6. /\ sum = f[x] + (f[y] + rest)
              /\ noY = f[x] + rest
              /\ rest \in Int
            BY <1>5, <3>1, <3>2, <3>3, <3>4
        <3>. HIDE DEF Good, B, rest, sum, noY
        <3>7. sum = f[y] + noY
            BY <3>5, <3>6
        <3>. QED
            BY <3>7 DEF sum, noY
    <2>. QED
        BY <2>1, <2>2
<1>7. SumFunctionOnSet(f, T) \in Int
    BY <1>2, <1>5
<1>. QED
    BY <1>6, <1>7

\* A sum of naturals is a natural.
LEMMA SumNat ==
    ASSUME NEW f, NEW S, IsFiniteSet(S), \A x \in S : f[x] \in Nat
    PROVE  SumFunctionOnSet(f, S) \in Nat
<1>. DEFINE B == {s \in SUBSET S : SumFunctionOnSet(f, s) \notin Nat}
<1>. SUFFICES ASSUME B # {} PROVE FALSE
    OBVIOUS
<1>1. PICK T \in B : \A s \in B : s \subseteq T => s = T
    <2>1. B \subseteq SUBSET S
        OBVIOUS
    <2>. HIDE DEF B
    <2>. QED
        BY <2>1, MinimalSet
<1>2. IsFiniteSet(T) /\ T \subseteq S
    BY FS_Subset
<1>3. T # {}
    BY SumEmpty
<1>4. /\ First(T) \in T
      /\ SumFunctionOnSet(f, T) = f[First(T)] + SumFunctionOnSet(f, T \ {First(T)})
    BY <1>2, <1>3, FirstIn, SumFirst
<1>5. SumFunctionOnSet(f, T \ {First(T)}) \in Nat
    BY <1>1, <1>2, <1>4
<1>6. f[First(T)] \in Nat
    BY <1>2, <1>4
<1>7. SumFunctionOnSet(f, T) \notin Nat
    OBVIOUS
<1>. HIDE DEF B
<1>. QED
    BY <1>4, <1>5, <1>6, <1>7

\* Functions that agree on S have the same sum over S.
LEMMA SumAgree ==
    ASSUME NEW f, NEW g, NEW S, IsFiniteSet(S), \A x \in S : f[x] = g[x]
    PROVE  SumFunctionOnSet(f, S) = SumFunctionOnSet(g, S)
<1>. DEFINE B == {s \in SUBSET S : SumFunctionOnSet(f, s) # SumFunctionOnSet(g, s)}
<1>. SUFFICES ASSUME B # {} PROVE FALSE
    OBVIOUS
<1>1. PICK T \in B : \A s \in B : s \subseteq T => s = T
    <2>1. B \subseteq SUBSET S
        OBVIOUS
    <2>. HIDE DEF B
    <2>. QED
        BY <2>1, MinimalSet
<1>2. IsFiniteSet(T) /\ T \subseteq S
    BY FS_Subset
<1>3. T # {}
    BY SumEmpty
<1>4. /\ First(T) \in T
      /\ SumFunctionOnSet(f, T) = f[First(T)] + SumFunctionOnSet(f, T \ {First(T)})
      /\ SumFunctionOnSet(g, T) = g[First(T)] + SumFunctionOnSet(g, T \ {First(T)})
    BY <1>2, <1>3, FirstIn, SumFirst
<1>5. SumFunctionOnSet(f, T \ {First(T)}) = SumFunctionOnSet(g, T \ {First(T)})
    BY <1>1, <1>2, <1>4
<1>. QED
    BY <1>2, <1>4, <1>5

\* One more summand, for an element that was not there.
LEMMA SumAdd ==
    ASSUME NEW f, NEW S, IsFiniteSet(S), NEW y, y \notin S,
           \A x \in S \cup {y} : f[x] \in Int
    PROVE  SumFunctionOnSet(f, S \cup {y}) = SumFunctionOnSet(f, S) + f[y]
<1>. DEFINE T == S \cup {y}
<1>1. IsFiniteSet(T) /\ T \ {y} = S /\ y \in T
    BY FS_AddElement
<1>2. SumFunctionOnSet(f, S) \in Int /\ f[y] \in Int
    BY SumTakes
<1>. HIDE DEF T
<1>3. SumFunctionOnSet(f, T) = f[y] + SumFunctionOnSet(f, S)
    BY <1>1, SumTakes DEF T
<1>4. SumFunctionOnSet(f, T) = SumFunctionOnSet(f, S) + f[y]
    BY <1>2, <1>3
<1>. QED
    BY <1>4 DEF T

\* A summand is at most the sum of naturals it is in.
LEMMA SumBounds ==
    ASSUME NEW f, NEW S, IsFiniteSet(S), NEW y \in S, \A x \in S : f[x] \in Nat
    PROVE  f[y] <= SumFunctionOnSet(f, S)
<1>1. SumFunctionOnSet(f, S) = f[y] + SumFunctionOnSet(f, S \ {y})
    BY SumTakes
<1>2. SumFunctionOnSet(f, S \ {y}) \in Nat
    <2>1. IsFiniteSet(S \ {y})
        BY FS_Subset
    <2>. QED
        BY <2>1, SumNat
<1>. QED
    BY <1>1, <1>2

\* A sum of natural numbers over a part is at most the sum over the whole.
LEMMA SumPart ==
    ASSUME NEW f, NEW S, IsFiniteSet(S), NEW T \in SUBSET S, \A x \in S : f[x] \in Nat
    PROVE  SumFunctionOnSet(f, T) <= SumFunctionOnSet(f, S)
<1>. DEFINE B == {s \in SUBSET S :
                    T \subseteq s /\ ~ (SumFunctionOnSet(f, T) <= SumFunctionOnSet(f, s))}
<1>. SUFFICES ASSUME B # {} PROVE FALSE
    OBVIOUS
<1>1. PICK U \in B : \A s \in B : s \subseteq U => s = U
    <2>1. B \subseteq SUBSET S
        OBVIOUS
    <2>. HIDE DEF B
    <2>. QED
        BY <2>1, MinimalSet
<1>2. IsFiniteSet(U) /\ U \subseteq S /\ IsFiniteSet(T)
    BY FS_Subset
<1>3. SumFunctionOnSet(f, T) \in Nat
    BY <1>2, SumNat
<1>4. U # T
    BY <1>3
<1>5. PICK y \in U : y \notin T
    BY <1>4
<1>6. U \ {y} \notin B
    BY <1>1
<1>7. SumFunctionOnSet(f, T) <= SumFunctionOnSet(f, U \ {y})
    BY <1>5, <1>6
<1>8. SumFunctionOnSet(f, U) = f[y] + SumFunctionOnSet(f, U \ {y})
    BY <1>2, SumTakes
<1>9. IsFiniteSet(U \ {y}) /\ f[y] \in Nat
    BY <1>2, FS_Subset
<1>10. SumFunctionOnSet(f, U \ {y}) \in Nat
    BY <1>2, <1>9, SumNat
<1>11. SumFunctionOnSet(f, T) <= SumFunctionOnSet(f, U)
    BY <1>3, <1>7, <1>8, <1>9, <1>10
<1>. QED
    BY <1>11

\* One term grows by one.
LEMMA SumBump ==
    ASSUME NEW f, NEW g, NEW S, IsFiniteSet(S), NEW y \in S,
           \A x \in S : f[x] \in Int,
           g[y] = f[y] + 1, \A x \in S \ {y} : g[x] = f[x]
    PROVE  SumFunctionOnSet(g, S) = SumFunctionOnSet(f, S) + 1
<1>1. IsFiniteSet(S \ {y})
    BY FS_Subset
<1>2. SumFunctionOnSet(g, S \ {y}) = SumFunctionOnSet(f, S \ {y})
    BY <1>1, SumAgree
<1>3. \A x \in S : g[x] \in Int
    OBVIOUS
<1>4. SumFunctionOnSet(f, S) = f[y] + SumFunctionOnSet(f, S \ {y})
    BY SumTakes
<1>5. SumFunctionOnSet(g, S) = g[y] + SumFunctionOnSet(g, S \ {y})
    BY <1>3, SumTakes
<1>6. SumFunctionOnSet(f, S \ {y}) \in Int
    BY <1>1, SumTakes
<1>. QED
    BY <1>2, <1>4, <1>5, <1>6

\* The sum of the same terms at other places.
LEMMA SumMoved ==
    ASSUME NEW f, NEW g, NEW S, IsFiniteSet(S), NEW P, NEW h \in Bijection(S, P),
           \A x \in S : f[x] \in Int,
           \A x \in S : g[h[x]] = f[x]
    PROVE  SumFunctionOnSet(g, P) = SumFunctionOnSet(f, S)
<1>. DEFINE Image(s) == {h[x] : x \in s}
            B == {s \in SUBSET S : SumFunctionOnSet(g, Image(s)) # SumFunctionOnSet(f, s)}
<1>. SUFFICES ASSUME B # {} PROVE FALSE
    <2>1. Image(S) = P
        BY DEF Bijection, Surjection
    <2>. QED
        BY <2>1
<1>1. PICK T \in B : \A s \in B : s \subseteq T => s = T
    <2>1. B \subseteq SUBSET S
        OBVIOUS
    <2>. HIDE DEF B
    <2>. QED
        BY <2>1, MinimalSet
<1>2. IsFiniteSet(T) /\ T \subseteq S
    BY FS_Subset
<1>3. T # {}
    <2>1. SUFFICES ASSUME T = {} PROVE FALSE
        OBVIOUS
    <2>2. Image(T) = {}
        BY <2>1
    <2>. QED
        BY <2>1, <2>2, SumEmpty
<1>4. PICK y \in T : TRUE
    BY <1>3
<1>5. T \ {y} \notin B
    BY <1>1
<1>6. SumFunctionOnSet(g, Image(T \ {y})) = SumFunctionOnSet(f, T \ {y})
    BY <1>2, <1>5
<1>7. Image(T) \ {h[y]} = Image(T \ {y})
    BY <1>2 DEF Bijection, Injection, IsInjective
<1>8. IsFiniteSet(Image(T))
    <2>. DEFINE m == [x \in T |-> h[x]]
    <2>1. m \in Surjection(T, Image(T))
        BY DEF Surjection
    <2>. HIDE DEF m, Image
    <2>. QED
        BY <1>2, <2>1, FS_Surjection
<1>9. (\A z \in Image(T) : g[z] \in Int) /\ h[y] \in Image(T)
    BY <1>2
<1>10. SumFunctionOnSet(g, Image(T)) = g[h[y]] + SumFunctionOnSet(g, Image(T) \ {h[y]})
    <2>. HIDE DEF Image
    <2>. QED
        BY <1>8, <1>9, SumTakes
<1>11. SumFunctionOnSet(f, T) = f[y] + SumFunctionOnSet(f, T \ {y})
    BY <1>2, SumTakes
<1>12. g[h[y]] = f[y]
    BY <1>2
<1>13. SumFunctionOnSet(g, Image(T)) = SumFunctionOnSet(f, T)
    <2>. HIDE DEF Image, B
    <2>. QED
        BY <1>6, <1>7, <1>10, <1>11, <1>12
<1>. QED
    BY <1>13

\* A sum of zeros.
LEMMA SumZero ==
    ASSUME NEW f, NEW S, IsFiniteSet(S), \A x \in S : f[x] = 0
    PROVE  SumFunctionOnSet(f, S) = 0
<1>. DEFINE B == {s \in SUBSET S : SumFunctionOnSet(f, s) # 0}
<1>. SUFFICES ASSUME B # {} PROVE FALSE
    OBVIOUS
<1>1. PICK T \in B : \A s \in B : s \subseteq T => s = T
    <2>1. B \subseteq SUBSET S
        OBVIOUS
    <2>. HIDE DEF B
    <2>. QED
        BY <2>1, MinimalSet
<1>2. IsFiniteSet(T) /\ T \subseteq S
    BY FS_Subset
<1>3. T # {}
    BY SumEmpty
<1>4. PICK y \in T : TRUE
    BY <1>3
<1>5. T \ {y} \notin B
    BY <1>1
<1>6. SumFunctionOnSet(f, T \ {y}) = 0
    BY <1>2, <1>5
<1>7. SumFunctionOnSet(f, T) = f[y] + SumFunctionOnSet(f, T \ {y})
    BY <1>2, SumTakes
<1>. QED
    BY <1>2, <1>6, <1>7
=============================================================================
