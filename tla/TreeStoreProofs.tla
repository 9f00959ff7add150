-------------------------- MODULE TreeStoreProofs --------------------------
(***************************************************************************)
(* Proofs about the incremental Merkle tree of the backend (TreeStore).    *)
(*                                                                         *)
(*   TwoToDef .. SpotHalves       powers of two and the place of a leaf's  *)
(*                                ancestor on each level                   *)
(*   TreeDef .. PutLevel          the whole tree: its nodes, the empty     *)
(*                                ones, what one more leaf changes         *)
(*   ProofFolds                   a proof cut from a whole tree folds into *)
(*                                its root                                 *)
(*   InvInit .. InvStep           the inductive invariant, by action       *)
(*   TypeCorrect, StoreIsCutHolds, SizeCommitsHolds, ProofVerifies,        *)
(*   BuiltProofVerifies           the theorems                             *)
(*                                                                         *)
(* Recursion over levels is met by induction over a set (Sums, UpTo).      *)
(***************************************************************************)
EXTENDS TreeStore, Sums, SequenceTheorems, TLAPS

-----------------------------------------------------------------------------
(***************************************************************************)
(* The inductive invariant.                                                *)
(***************************************************************************)

\* The hash of an empty subtree whose top is on level d.
EmptyHash(d) == Trees[0][d][0]

WriterShape ==
    writer = [pc |-> writer.pc, d |-> writer.d, leaf |-> writer.leaf,
              current_level |-> writer.current_level]

ReaderShape ==
    reader = [pc |-> reader.pc, d |-> reader.d, leaf |-> reader.leaf,
              proof |-> reader.proof, is_even |-> reader.is_even,
              root |-> reader.root, stored |-> reader.stored,
              undisturbed |-> reader.undisturbed]

Shape ==
    /\ WriterShape
    /\ ReaderShape
    /\ DOMAIN level = Levels
    /\ DOMAIN empty = Levels
    /\ Size <= stored

\* Until there is a root: the levels up to the writer's are those of the empty
\* tree, nothing is counted and nothing is served.
Creating ==
    /\ size = Missing /\ stored = 0 /\ phase = "starting"
    /\ writer.pc \in {"none", "init_level", "init_root"}
    /\ writer.pc # "none" =>
        /\ writer.pc = "init_level" <=> writer.d < DEPTH
        /\ writer.current_level = <<EmptyHash(writer.d)>>
        /\ \A i \in 0 .. writer.d :
               empty[i] = EmptyHash(i) /\ level[i] = LevelAfter(0, i)

\* Levels below k are those of the tree with the next commitment, which Postgres
\* has already, the others those of the tree with `size` leaves.
Cut(k) ==
    /\ k > 0 => Size < stored
    /\ \A d \in Levels : level[d] = LevelAfter(IF d < k THEN Size + 1 ELSE Size, d)
    /\ \/ root = RootOf(Trees[Size])
       \/ k = DEPTH + 1 /\ root = RootOf(Trees[Size + 1])

\* The call in progress is at or below the cut, on the next leaf.
WriterAtCut(k) ==
    /\ writer.pc \in {"none", "init_size", "size", "level", "commit"}
    /\ writer.pc = "init_size" => size = Missing
    /\ writer.pc = "size" => writer.d = 0
    /\ writer.pc = "level" =>
        /\ writer.leaf = Size
        /\ k > writer.d
        /\ writer.current_level = LevelAfter(Size + 1, writer.d)
    /\ writer.pc = "commit" =>
        /\ writer.leaf = Size
        /\ k = DEPTH + 1
        /\ root = RootOf(Trees[Size + 1])

Kept ==
    /\ \A d \in Levels : empty[d] = EmptyHash(d)
    /\ \E k \in 0 .. DEPTH + 1 : Cut(k) /\ WriterAtCut(k)

Store == IF root = Missing THEN Creating ELSE Kept

\* The indexer adds the leaf it has just saved, no other.
AddsTheLast ==
    phase = "serving" /\ writer.pc \in {"size", "level", "commit"}
        => writer.leaf + 1 = stored

\* What the reader has of the tree with n leaves.
HasRead(n) ==
    /\ \A i \in 1 .. reader.d :
        /\ reader.proof[i] = Trees[n][i - 1][Sibling(reader.leaf \div TwoTo[i - 1])]
        /\ reader.is_even[i] = IsEven(reader.leaf \div TwoTo[i - 1])
    /\ reader.pc = "done" => reader.root = RootOf(Trees[n])

ReaderInv ==
    reader.pc # "idle" =>
        /\ phase = "serving"
        /\ reader.leaf \in Nat /\ reader.leaf < Size
        /\ reader.stored \in Nat /\ reader.stored <= stored
        /\ reader.pc = "done" => reader.d = DEPTH
        /\ reader.proof = [i \in 1 .. reader.d |-> reader.proof[i]]
        /\ reader.is_even = [i \in 1 .. reader.d |-> reader.is_even[i]]
        /\ reader.undisturbed \in BOOLEAN
        \* a call that started after the reader came with a deposit
        /\ reader.undisturbed /\ writer.pc # "none" => reader.stored < stored
        /\ reader.undisturbed /\ reader.stored = Size => HasRead(Size)

IInv ==
    /\ TypeOK
    /\ Shape
    /\ Store
    /\ AddsTheLast
    /\ ReaderInv

-----------------------------------------------------------------------------
(***************************************************************************)
(* Powers of two, and the place of a leaf's ancestor on each level.        *)
(***************************************************************************)

LEMMA TwoToDef ==
    TwoTo = [d \in Levels |-> IF d = 0 THEN 1 ELSE 2 * TwoTo[d - 1]]
<1>. DEFINE Is(f, m)   == f = [d \in 0 .. m |-> IF d = 0 THEN 1 ELSE 2 * f[d - 1]]
            S          == {m \in Levels : \E f : Is(f, m)}
            P(f)       == Is(f, DEPTH)
<1>. USE DepthAssumption
<1>1. 0 \in S
    <2>1. Is([d \in 0 .. 0 |-> 1], 0)
        OBVIOUS
    <2>. HIDE DEF Is
    <2>. QED
        BY <2>1 DEF Levels
<1>2. ASSUME NEW m \in 0 .. DEPTH, m < DEPTH, m \in S
      PROVE  m + 1 \in S
    <2>1. PICK f : Is(f, m)
        BY <1>2
    <2>. DEFINE g == [d \in 0 .. m + 1 |-> IF d = m + 1 THEN 2 * f[m] ELSE f[d]]
    <2>2. ASSUME NEW d \in 0 .. m + 1
          PROVE  g[d] = IF d = 0 THEN 1 ELSE 2 * g[d - 1]
        <3>1. CASE d = m + 1
            BY <3>1
        <3>2. CASE d # m + 1
            BY <2>1, <3>2
        <3>. QED
            BY <3>1, <3>2
    <2>3. Is(g, m + 1)
        BY <2>2
    <2>4. m + 1 \in Levels
        BY <1>2 DEF Levels
    <2>. HIDE DEF Is, g
    <2>. QED
        BY <2>3, <2>4
<1>3. DEPTH \in S
    <2>. HIDE DEF S
    <2>. QED
        BY <1>1, <1>2, UpTo
<1>4. PICK g : P(g)
    BY <1>3
<1>5. TwoTo = CHOOSE f : P(f)
    BY DEF TwoTo, Levels
<1>6. P(TwoTo)
    <2>. HIDE DEF P
    <2>. QED
        BY <1>4, <1>5
<1>. QED
    BY <1>6 DEF Levels

LEMMA TwoToFacts ==
    /\ TwoTo[0] = 1
    /\ \A d \in 0 .. DEPTH : d < DEPTH => TwoTo[d + 1] = 2 * TwoTo[d]
    /\ \A d \in Levels : TwoTo[d] \in Nat /\ TwoTo[d] > 0
<1>. USE DepthAssumption
<1>1. TwoTo[0] = 1
    BY TwoToDef DEF Levels
<1>2. ASSUME NEW d \in 0 .. DEPTH, d < DEPTH
      PROVE  TwoTo[d + 1] = 2 * TwoTo[d]
    <2>1. d + 1 \in Levels /\ d + 1 # 0 /\ (d + 1) - 1 = d
        BY <1>2 DEF Levels
    <2>. QED
        BY <2>1, TwoToDef
<1>. DEFINE S == {d \in Levels : TwoTo[d] \in Nat /\ TwoTo[d] > 0}
<1>3. 0 \in S
    BY <1>1 DEF Levels
<1>4. ASSUME NEW k \in 0 .. DEPTH, k < DEPTH, k \in S
      PROVE  k + 1 \in S
    <2>1. k + 1 \in Levels
        BY <1>4 DEF Levels
    <2>2. TwoTo[k + 1] = 2 * TwoTo[k]
        BY <1>2, <1>4
    <2>. QED
        BY <1>4, <2>1, <2>2
<1>5. \A k \in Levels : k \in S
    <2>. HIDE DEF S
    <2>. QED
        BY <1>3, <1>4, UpTo DEF Levels
<1>. QED
    BY <1>1, <1>2, <1>5

\* The place of the ancestor of leaf n on level d.
Spot(n, d) == n \div TwoTo[d]

LEMMA Halve ==
    ASSUME NEW n \in Nat, NEW p \in Nat, p > 0
    PROVE  /\ n \div p \in Nat
           /\ n \div (2 * p) = (n \div p) \div 2
           /\ ((n + 1) + p - 1) \div p = (n \div p) + 1
           /\ (0 + p - 1) \div p = 0
OBVIOUS

LEMMA SpotFacts ==
    ASSUME NEW n \in Nat
    PROVE  /\ Spot(n, 0) = n
           /\ \A d \in Levels : Spot(n, d) \in Nat
           /\ \A d \in 0 .. DEPTH : d < DEPTH => Spot(n, d + 1) = Spot(n, d) \div 2
<1>. USE DepthAssumption
<1>1. Spot(n, 0) = n
    BY TwoToFacts DEF Spot
<1>2. ASSUME NEW d \in Levels
      PROVE  Spot(n, d) \in Nat
    BY TwoToFacts, Halve DEF Spot
<1>3. ASSUME NEW d \in 0 .. DEPTH, d < DEPTH
      PROVE  Spot(n, d + 1) = Spot(n, d) \div 2
    <2>1. TwoTo[d + 1] = 2 * TwoTo[d] /\ TwoTo[d] \in Nat /\ TwoTo[d] > 0
        BY <1>3, TwoToFacts DEF Levels
    <2>2. n \div (2 * TwoTo[d]) = (n \div TwoTo[d]) \div 2
        BY <2>1, Halve
    <2>. QED
        BY <2>1, <2>2 DEF Spot
<1>. QED
    BY <1>1, <1>2, <1>3

\* An ancestor is a node of its level.
LEMMA SpotBound ==
    ASSUME NEW n \in Nat, n < TwoTo[DEPTH]
    PROVE  \A d \in Levels : Spot(n, d) < TwoTo[DEPTH - d]
<1>. USE DepthAssumption
<1>. DEFINE S == {d \in Levels : Spot(n, d) < TwoTo[DEPTH - d]}
<1>1. 0 \in S
    BY SpotFacts DEF Levels
<1>2. ASSUME NEW k \in 0 .. DEPTH, k < DEPTH, k \in S
      PROVE  k + 1 \in S
    <2>1. k + 1 \in Levels /\ k \in Levels /\ DEPTH - (k + 1) \in 0 .. DEPTH
            /\ DEPTH - (k + 1) < DEPTH /\ (DEPTH - (k + 1)) + 1 = DEPTH - k
        BY <1>2 DEF Levels
    <2>2. Spot(n, k + 1) = Spot(n, k) \div 2 /\ Spot(n, k) \in Nat
        BY <1>2, <2>1, SpotFacts
    <2>. DEFINE q == DEPTH - (k + 1)
    <2>3. TwoTo[q + 1] = 2 * TwoTo[q] /\ TwoTo[q] \in Nat
        <3>. HIDE DEF q
        <3>1. q \in 0 .. DEPTH /\ q < DEPTH
            BY <2>1 DEF q
        <3>. QED
            BY <3>1, TwoToFacts DEF Levels
    <2>4. TwoTo[DEPTH - k] = 2 * TwoTo[DEPTH - (k + 1)]
        BY <2>1, <2>3
    <2>5. Spot(n, k) < 2 * TwoTo[q]
        BY <1>2, <2>4
    <2>. HIDE DEF q
    <2>6. Spot(n, k) \div 2 < TwoTo[q]
        BY <2>2, <2>3, <2>5
    <2>. QED
        BY <2>1, <2>2, <2>6 DEF q
<1>3. \A k \in Levels : k \in S
    <2>. HIDE DEF S
    <2>. QED
        BY <1>1, <1>2, UpTo DEF Levels
<1>. QED
    BY <1>3

\* The next leaf's ancestor is the same node or the next one.
LEMMA SpotNext ==
    ASSUME NEW n \in Nat
    PROVE  \A d \in Levels :
               Spot(n, d) <= Spot(n + 1, d) /\ Spot(n + 1, d) <= Spot(n, d) + 1
<1>. USE DepthAssumption
<1>. DEFINE m == n + 1
            S == {d \in Levels : Spot(n, d) <= Spot(m, d) /\ Spot(m, d) <= Spot(n, d) + 1}
<1>0. m \in Nat /\ m = n + 1
    OBVIOUS
<1>. HIDE DEF m
<1>1. 0 \in S
    BY <1>0, SpotFacts DEF Levels
<1>2. ASSUME NEW k \in 0 .. DEPTH, k < DEPTH, k \in S
      PROVE  k + 1 \in S
    <2>1. k + 1 \in Levels /\ k \in Levels
        BY <1>2 DEF Levels
    <2>2. Spot(n, k + 1) = Spot(n, k) \div 2 /\ Spot(n, k) \in Nat
        BY <1>2, <2>1, SpotFacts
    <2>3. Spot(m, k + 1) = Spot(m, k) \div 2 /\ Spot(m, k) \in Nat
        BY <1>0, <1>2, <2>1, SpotFacts
    <2>4. Spot(n, k) <= Spot(m, k) /\ Spot(m, k) <= Spot(n, k) + 1
        BY <1>2
    <2>. DEFINE a == Spot(n, k)
                b == Spot(m, k)
    <2>5. a \div 2 <= b \div 2 /\ b \div 2 <= (a \div 2) + 1
        <3>1. a \in Nat /\ b \in Nat /\ a <= b /\ b <= a + 1
            BY <2>2, <2>3, <2>4
        <3>. HIDE DEF a, b
        <3>. QED
            BY <3>1
    <2>. QED
        BY <2>1, <2>2, <2>3, <2>5
<1>3. \A k \in Levels : k \in S
    <2>. HIDE DEF S
    <2>. QED
        BY <1>1, <1>2, UpTo DEF Levels
<1>. QED
    BY <1>0, <1>3

-----------------------------------------------------------------------------
(***************************************************************************)
(* The whole tree.                                                         *)
(***************************************************************************)

Bottom(c) ==
    [k \in 0 .. TwoTo[DEPTH] - 1 |-> IF k < Len(c) THEN c[k + 1] ELSE EMPTY_LEAF]

Above(nodes, d) ==
    [k \in 0 .. TwoTo[DEPTH - d] - 1 |-> Hash(nodes[2 * k], nodes[2 * k + 1])]

LEMMA BuildTreeDef ==
    ASSUME NEW c
    PROVE  buildTree(c) = [d \in Levels |-> IF d = 0 THEN Bottom(c)
                                            ELSE Above(buildTree(c)[d - 1], d)]
<1>. DEFINE Is(f, m)   == f = [d \in 0 .. m |-> IF d = 0 THEN Bottom(c)
                                                ELSE Above(f[d - 1], d)]
            S          == {m \in Levels : \E f : Is(f, m)}
            P(f)       == Is(f, DEPTH)
<1>. USE DepthAssumption
<1>1. 0 \in S
    <2>1. Is([d \in 0 .. 0 |-> Bottom(c)], 0)
        OBVIOUS
    <2>. HIDE DEF Is
    <2>. QED
        BY <2>1 DEF Levels
<1>2. ASSUME NEW m \in 0 .. DEPTH, m < DEPTH, m \in S
      PROVE  m + 1 \in S
    <2>1. PICK f : Is(f, m)
        BY <1>2
    <2>. DEFINE g == [d \in 0 .. m + 1 |-> IF d = m + 1 THEN Above(f[m], m + 1)
                                                        ELSE f[d]]
    <2>2. ASSUME NEW d \in 0 .. m + 1
          PROVE  g[d] = IF d = 0 THEN Bottom(c) ELSE Above(g[d - 1], d)
        <3>1. CASE d = m + 1
            BY <3>1
        <3>2. CASE d # m + 1
            BY <2>1, <3>2
        <3>. QED
            BY <3>1, <3>2
    <2>3. Is(g, m + 1)
        BY <2>2
    <2>4. m + 1 \in Levels
        BY <1>2 DEF Levels
    <2>. HIDE DEF Is, g
    <2>. QED
        BY <2>3, <2>4
<1>3. DEPTH \in S
    <2>. HIDE DEF S
    <2>. QED
        BY <1>1, <1>2, UpTo
<1>4. PICK g : P(g)
    BY <1>3
<1>5. buildTree(c) = CHOOSE f : P(f)
    BY DEF buildTree, Levels, Bottom, Above
<1>6. P(buildTree(c))
    <2>. HIDE DEF P
    <2>. QED
        BY <1>4, <1>5
<1>. QED
    BY <1>6 DEF Levels

LeafCount == Len(Leaves)

LEMMA LeafCountNat == LeafCount \in Nat /\ LeafCount <= TwoTo[DEPTH]
<1>. DEFINE S == {Leaves[i] : i \in DOMAIN Leaves}
<1>1. Leaves \in Seq(S)
    BY LeavesAssumption
<1>2. Len(Leaves) \in Nat
    <2>. HIDE DEF S
    <2>. QED
        BY <1>1
<1>. QED
    BY <1>2, LeavesAssumption DEF LeafCount

LEMMA Prefix ==
    ASSUME NEW n \in 0 .. LeafCount
    PROVE  /\ Len(SubSeq(Leaves, 1, n)) = n
           /\ \A k \in 1 .. n : SubSeq(Leaves, 1, n)[k] = Leaves[k]
<1>. DEFINE S == {Leaves[i] : i \in DOMAIN Leaves}
<1>1. Leaves \in Seq(S)
    BY LeavesAssumption
<1>2. DOMAIN Leaves = 1 .. LeafCount
    <2>. HIDE DEF S
    <2>. QED
        BY <1>1 DEF LeafCount
<1>3. n \in Int /\ n \in Nat /\ n <= LeafCount
    BY LeafCountNat
<1>4. \A i \in 1 .. n : Leaves[i] \in S
    BY <1>2, <1>3, LeafCountNat
<1>5. /\ Len(SubSeq(Leaves, 1, n)) = IF 1 <= n THEN n - 1 + 1 ELSE 0
      /\ \A i \in 1 .. n - 1 + 1 : SubSeq(Leaves, 1, n)[i] = Leaves[1 + i - 1]
    <2>. HIDE DEF S
    <2>. QED
        BY <1>3, <1>4, SubSeqProperties
<1>. QED
    BY <1>3, <1>5

LEMMA TreeBottom ==
    ASSUME NEW n \in 0 .. LeafCount, NEW k \in 0 .. TwoTo[DEPTH] - 1
    PROVE  Trees[n][0][k] = IF k < n THEN Leaves[k + 1] ELSE EMPTY_LEAF
<1>. DEFINE c == SubSeq(Leaves, 1, n)
<1>. USE DepthAssumption
<1>1. Trees[n] = buildTree(c)
    BY DEF Trees, LeafCount
<1>2. Len(c) = n /\ \A i \in 1 .. n : c[i] = Leaves[i]
    BY Prefix
<1>. HIDE DEF c
<1>3. buildTree(c)[0] = Bottom(c)
    BY BuildTreeDef DEF Levels
<1>4. Bottom(c)[k] = IF k < Len(c) THEN c[k + 1] ELSE EMPTY_LEAF
    BY DEF Bottom
<1>5. k < n => k + 1 \in 1 .. n
    BY LeafCountNat, TwoToFacts DEF Levels
<1>. QED
    BY <1>1, <1>2, <1>3, <1>4, <1>5

LEMMA TreeAbove ==
    ASSUME NEW n \in 0 .. LeafCount, NEW d \in 0 .. DEPTH, d < DEPTH,
           NEW k \in 0 .. TwoTo[DEPTH - (d + 1)] - 1
    PROVE  Trees[n][d + 1][k] = Hash(Trees[n][d][2 * k], Trees[n][d][2 * k + 1])
<1>. DEFINE c == SubSeq(Leaves, 1, n)
            e == d + 1
<1>. USE DepthAssumption
<1>1. Trees[n] = buildTree(c)
    BY DEF Trees, LeafCount
<1>. HIDE DEF c
<1>2. e \in Levels /\ e # 0 /\ e - 1 = d
    BY DEF Levels
<1>. HIDE DEF e
<1>3. buildTree(c)[e] = Above(buildTree(c)[d], e)
    BY <1>2, BuildTreeDef
<1>4. k \in 0 .. TwoTo[DEPTH - e] - 1
    BY DEF e
<1>5. Above(buildTree(c)[d], e)[k] = Hash(buildTree(c)[d][2 * k], buildTree(c)[d][2 * k + 1])
    BY <1>4 DEF Above
<1>. QED
    BY <1>1, <1>3, <1>5 DEF e

\* The places on level d.
Places(d) == 0 .. TwoTo[DEPTH - d] - 1

LEMMA PlaceFacts ==
    /\ Places(0) = 0 .. TwoTo[DEPTH] - 1
    /\ \A d \in Levels : 0 \in Places(d) /\ Places(d) \subseteq Nat
    /\ \A d \in 0 .. DEPTH : d < DEPTH =>
        /\ \A k \in Places(d + 1) : 2 * k \in Places(d) /\ 2 * k + 1 \in Places(d)
        /\ \A k \in Places(d) : k \div 2 \in Places(d + 1) /\ Sibling(k) \in Places(d)
<1>. USE DepthAssumption
<1>1. Places(0) = 0 .. TwoTo[DEPTH] - 1
    BY DEF Places
<1>2. ASSUME NEW d \in Levels
      PROVE  0 \in Places(d) /\ Places(d) \subseteq Nat
    <2>1. DEPTH - d \in Levels
        BY DEF Levels
    <2>2. TwoTo[DEPTH - d] \in Nat /\ TwoTo[DEPTH - d] > 0
        BY <2>1, TwoToFacts
    <2>. QED
        BY <2>2 DEF Places
<1>3. ASSUME NEW d \in 0 .. DEPTH, d < DEPTH
      PROVE  /\ \A k \in Places(d + 1) : 2 * k \in Places(d) /\ 2 * k + 1 \in Places(d)
             /\ \A k \in Places(d) : k \div 2 \in Places(d + 1) /\ Sibling(k) \in Places(d)
    <2>. DEFINE q == DEPTH - (d + 1)
                p == TwoTo[q]
    <2>1. q \in 0 .. DEPTH /\ q < DEPTH /\ q + 1 = DEPTH - d
        BY <1>3
    <2>. HIDE DEF q
    <2>2. p \in Nat /\ TwoTo[q + 1] = 2 * p
        BY <2>1, TwoToFacts DEF Levels
    <2>. HIDE DEF p
    <2>3. Places(d) = 0 .. 2 * p - 1 /\ Places(d + 1) = 0 .. p - 1
        BY <2>1, <2>2 DEF Places, q, p
    <2>4. \A k \in 0 .. p - 1 : 2 * k \in 0 .. 2 * p - 1 /\ 2 * k + 1 \in 0 .. 2 * p - 1
        BY <2>2
    <2>5. \A k \in 0 .. 2 * p - 1 : k \div 2 \in 0 .. p - 1
        BY <2>2
    <2>6. \A k \in 0 .. 2 * p - 1 : Sibling(k) \in 0 .. 2 * p - 1
        BY <2>2 DEF Sibling
    <2>. QED
        BY <2>3, <2>4, <2>5, <2>6
<1>. QED
    BY <1>1, <1>2, <1>3

LEMMA EmptyNodes ==
    \A d \in Levels : \A j \in Places(d) : Trees[0][d][j] = EmptyHash(d)
<1>. USE DepthAssumption
<1>. DEFINE S == {d \in Levels : \A j \in Places(d) : Trees[0][d][j] = EmptyHash(d)}
<1>0. 0 \in 0 .. LeafCount
    BY LeafCountNat
<1>1. 0 \in S
    <2>1. \A j \in Places(0) : Trees[0][0][j] = EMPTY_LEAF
        <3>1. ASSUME NEW j \in 0 .. TwoTo[DEPTH] - 1
              PROVE  Trees[0][0][j] = EMPTY_LEAF
            <4>1. j \in Nat
                BY TwoToFacts DEF Levels
            <4>. QED
                BY <1>0, <4>1, TreeBottom
        <3>. QED
            BY <3>1, PlaceFacts
    <2>2. 0 \in Places(0)
        BY PlaceFacts DEF Levels
    <2>. QED
        BY <2>1, <2>2 DEF EmptyHash, Levels
<1>2. ASSUME NEW k \in 0 .. DEPTH, k < DEPTH, k \in S
      PROVE  k + 1 \in S
    <2>1. k + 1 \in Levels
        BY <1>2 DEF Levels
    <2>2. ASSUME NEW j \in Places(k + 1)
          PROVE  Trees[0][k + 1][j] = Hash(EmptyHash(k), EmptyHash(k))
        <3>1. 2 * j \in Places(k) /\ 2 * j + 1 \in Places(k)
            BY <1>2, PlaceFacts
        <3>2. Trees[0][k + 1][j] = Hash(Trees[0][k][2 * j], Trees[0][k][2 * j + 1])
            BY <1>0, <1>2, TreeAbove DEF Places
        <3>. QED
            BY <1>2, <3>1, <3>2
    <2>3. 0 \in Places(k + 1)
        BY <2>1, PlaceFacts
    <2>. QED
        BY <2>1, <2>2, <2>3 DEF EmptyHash
<1>3. \A k \in Levels : k \in S
    <2>. HIDE DEF S
    <2>. QED
        BY <1>1, <1>2, UpTo DEF Levels
<1>. QED
    BY <1>3

LEMMA EmptyHashes ==
    /\ EmptyHash(0) = EMPTY_LEAF
    /\ \A d \in 0 .. DEPTH :
           d < DEPTH => EmptyHash(d + 1) = Hash(EmptyHash(d), EmptyHash(d))
<1>. USE DepthAssumption
<1>0. 0 \in 0 .. LeafCount
    BY LeafCountNat
<1>1. EmptyHash(0) = EMPTY_LEAF
    <2>1. 0 \in 0 .. TwoTo[DEPTH] - 1
        BY TwoToFacts DEF Levels
    <2>. QED
        BY <1>0, <2>1, TreeBottom DEF EmptyHash
<1>2. ASSUME NEW d \in 0 .. DEPTH, d < DEPTH
      PROVE  EmptyHash(d + 1) = Hash(EmptyHash(d), EmptyHash(d))
    <2>1. d + 1 \in Levels /\ d \in Levels
        BY <1>2 DEF Levels
    <2>2. 0 \in Places(d + 1)
        BY <2>1, PlaceFacts
    <2>3. Trees[0][d + 1][0] = Hash(Trees[0][d][2 * 0], Trees[0][d][2 * 0 + 1])
        BY <1>0, <1>2, <2>2, TreeAbove DEF Places
    <2>4. 2 * 0 \in Places(d) /\ 2 * 0 + 1 \in Places(d)
        BY <1>2, <2>2, PlaceFacts
    <2>. QED
        BY <2>1, <2>3, <2>4, EmptyNodes DEF EmptyHash
<1>. QED
    BY <1>1, <1>2

\* Right of the last leaf's ancestors the tree is empty.
LEMMA BeyondLast ==
    ASSUME NEW n \in 0 .. LeafCount, n < LeafCount
    PROVE  \A d \in Levels : \A j \in Places(d) :
               j > Spot(n, d) => Trees[n + 1][d][j] = EmptyHash(d)
<1>. USE DepthAssumption
<1>. DEFINE m == n + 1
            S == {d \in Levels : \A j \in Places(d) :
                                     j > Spot(n, d) => Trees[m][d][j] = EmptyHash(d)}
<1>0. m \in 0 .. LeafCount /\ m = n + 1 /\ n \in Nat
    BY LeafCountNat
<1>. HIDE DEF m
<1>1. 0 \in S
    <2>1. ASSUME NEW j \in Places(0), j > n
          PROVE  Trees[m][0][j] = EMPTY_LEAF
        <3>1. j \in 0 .. TwoTo[DEPTH] - 1 /\ j \in Nat
            BY PlaceFacts, TwoToFacts DEF Levels
        <3>2. ~ (j < m)
            BY <1>0, <2>1, <3>1
        <3>. QED
            BY <1>0, <3>1, <3>2, TreeBottom
    <2>. QED
        BY <1>0, <2>1, SpotFacts, EmptyHashes DEF Levels
<1>2. ASSUME NEW k \in 0 .. DEPTH, k < DEPTH, k \in S
      PROVE  k + 1 \in S
    <2>1. k + 1 \in Levels /\ k \in Levels
        BY <1>2 DEF Levels
    <2>2. ASSUME NEW j \in Places(k + 1), j > Spot(n, k + 1)
          PROVE  Trees[m][k + 1][j] = EmptyHash(k + 1)
        <3>1. 2 * j \in Places(k) /\ 2 * j + 1 \in Places(k) /\ j \in Nat
            BY <1>2, <2>1, PlaceFacts
        <3>2. Trees[m][k + 1][j] = Hash(Trees[m][k][2 * j], Trees[m][k][2 * j + 1])
            BY <1>0, <1>2, TreeAbove DEF Places
        <3>3. Spot(n, k + 1) = Spot(n, k) \div 2 /\ Spot(n, k) \in Nat
            BY <1>0, <1>2, <2>1, SpotFacts
        <3>4. 2 * j > Spot(n, k) /\ 2 * j + 1 > Spot(n, k)
            BY <2>2, <3>1, <3>3
        <3>. QED
            BY <1>2, <3>1, <3>2, <3>4, EmptyHashes
    <2>. QED
        BY <2>1, <2>2
<1>3. \A k \in Levels : k \in S
    <2>. HIDE DEF S
    <2>. QED
        BY <1>1, <1>2, UpTo DEF Levels
<1>. QED
    BY <1>0, <1>3

\* One more leaf changes its ancestors and no other node.
LEMMA SameNodes ==
    ASSUME NEW n \in 0 .. LeafCount, n < LeafCount
    PROVE  \A d \in Levels : \A j \in Places(d) :
               j # Spot(n, d) => Trees[n + 1][d][j] = Trees[n][d][j]
<1>. USE DepthAssumption
<1>. DEFINE m == n + 1
            S == {d \in Levels : \A j \in Places(d) :
                                     j # Spot(n, d) => Trees[m][d][j] = Trees[n][d][j]}
<1>0. m \in 0 .. LeafCount /\ m = n + 1 /\ n \in Nat
    BY LeafCountNat
<1>. HIDE DEF m
<1>1. 0 \in S
    <2>1. ASSUME NEW j \in Places(0), j # n
          PROVE  Trees[m][0][j] = Trees[n][0][j]
        <3>1. j \in 0 .. TwoTo[DEPTH] - 1 /\ j \in Nat
            BY PlaceFacts, TwoToFacts DEF Levels
        <3>2. j < m <=> j < n
            BY <1>0, <2>1, <3>1
        <3>. QED
            BY <1>0, <3>1, <3>2, TreeBottom
    <2>. QED
        BY <1>0, <2>1, SpotFacts DEF Levels
<1>2. ASSUME NEW k \in 0 .. DEPTH, k < DEPTH, k \in S
      PROVE  k + 1 \in S
    <2>1. k + 1 \in Levels /\ k \in Levels
        BY <1>2 DEF Levels
    <2>2. ASSUME NEW j \in Places(k + 1), j # Spot(n, k + 1)
          PROVE  Trees[m][k + 1][j] = Trees[n][k + 1][j]
        <3>1. 2 * j \in Places(k) /\ 2 * j + 1 \in Places(k) /\ j \in Nat
            BY <1>2, <2>1, PlaceFacts
        <3>2. Trees[m][k + 1][j] = Hash(Trees[m][k][2 * j], Trees[m][k][2 * j + 1])
            BY <1>0, <1>2, TreeAbove DEF Places
        <3>3. Trees[n][k + 1][j] = Hash(Trees[n][k][2 * j], Trees[n][k][2 * j + 1])
            BY <1>0, <1>2, TreeAbove DEF Places
        <3>4. Spot(n, k + 1) = Spot(n, k) \div 2 /\ Spot(n, k) \in Nat
            BY <1>0, <1>2, <2>1, SpotFacts
        <3>5. 2 * j # Spot(n, k) /\ 2 * j + 1 # Spot(n, k)
            BY <2>2, <3>1, <3>4
        <3>. QED
            BY <1>2, <3>1, <3>2, <3>3, <3>5
    <2>. QED
        BY <2>1, <2>2
<1>3. \A k \in Levels : k \in S
    <2>. HIDE DEF S
    <2>. QED
        BY <1>1, <1>2, UpTo DEF Levels
<1>. QED
    BY <1>0, <1>3

-----------------------------------------------------------------------------
(***************************************************************************)
(* The levels the backend keeps.                                           *)
(***************************************************************************)

\* How many nodes a level has, with n leaves.
Width(n, d) == IF n = 0 THEN 1 ELSE Spot(n - 1, d) + 1

LEMMA LevelIs ==
    ASSUME NEW n \in 0 .. LeafCount, NEW d \in Levels
    PROVE  /\ Width(n, d) \in Nat /\ Width(n, d) > 0
           /\ LevelAfter(n, d) = [k \in 1 .. Width(n, d) |-> Trees[n][d][k - 1]]
           /\ Len(LevelAfter(n, d)) = Width(n, d)
           /\ \A k \in 1 .. Width(n, d) : LevelAfter(n, d)[k] = Trees[n][d][k - 1]
<1>. DEFINE p == TwoTo[d]
            w == Width(n, d)
            nodes == (n + p - 1) \div p
<1>1. p \in Nat /\ p > 0 /\ n \in Nat
    BY TwoToFacts, LeafCountNat
<1>2. w \in Nat /\ w > 0
    BY <1>1, SpotFacts DEF Width
<1>3. w = IF nodes = 0 THEN 1 ELSE nodes
    <2>1. CASE n = 0
        <3>. HIDE DEF p
        <3>1. nodes = 0
            BY <1>1, <2>1, Halve
        <3>. QED
            BY <2>1, <3>1 DEF Width
    <2>2. CASE n # 0
        <3>. DEFINE m == n - 1
        <3>1. m \in Nat /\ n = m + 1
            BY <1>1, <2>2
        <3>2. ((m + 1) + p - 1) \div p = (m \div p) + 1 /\ m \div p \in Nat
            <4>. HIDE DEF m, p
            <4>. QED
                BY <1>1, <3>1, Halve
        <3>3. w = Spot(m, d) + 1
            BY <2>2 DEF Width
        <3>4. Spot(m, d) = m \div p
            BY DEF Spot
        <3>5. nodes = (m \div p) + 1
            <4>. HIDE DEF m, p
            <4>. QED
                BY <3>1, <3>2
        <3>. HIDE DEF m, p, nodes, w
        <3>. QED
            BY <3>2, <3>3, <3>4, <3>5
    <2>. QED
        BY <2>1, <2>2
<1>4. LevelAfter(n, d) = [k \in 1 .. w |-> Trees[n][d][k - 1]]
    <2>1. LevelAfter(n, d)
            = [k \in 1 .. (IF nodes = 0 THEN 1 ELSE nodes) |-> Trees[n][d][k - 1]]
        BY DEF LevelAfter
    <2>. HIDE DEF w, nodes
    <2>. QED
        BY <1>3, <2>1
<1>. HIDE DEF w
<1>5. Len(LevelAfter(n, d)) = w /\ \A k \in 1 .. w : LevelAfter(n, d)[k] = Trees[n][d][k - 1]
    BY <1>2, <1>4
<1>. QED
    BY <1>2, <1>4, <1>5 DEF w

\* A node is read the same from the kept level and from the whole one.
LEMMA AtIs ==
    ASSUME NEW n \in 0 .. LeafCount, NEW d \in Levels, NEW j \in Places(d),
           empty[d] = EmptyHash(d)
    PROVE  At(LevelAfter(n, d), j, d) = Trees[n][d][j]
<1>1. EmptyHash(d) # Missing
    BY MissingAssumption, LeafCountNat DEF LeafCount, EmptyHash
<1>2. OrElse(empty[d], EMPTY_LEAF) = EmptyHash(d)
    BY <1>1 DEF OrElse
<1>3. j \in Nat
    BY PlaceFacts
<1>4. CASE j < Width(n, d)
    <2>1. j + 1 \in 1 .. Width(n, d) /\ (j + 1) - 1 = j
        BY <1>3, <1>4, LevelIs
    <2>. QED
        BY <1>4, <2>1, LevelIs DEF At
<1>5. CASE ~ (j < Width(n, d))
    <2>1. At(LevelAfter(n, d), j, d) = EmptyHash(d)
        BY <1>2, <1>5, LevelIs DEF At
    <2>2. CASE n = 0
        BY <2>1, <2>2, EmptyNodes
    <2>3. CASE n # 0
        <3>. DEFINE m == n - 1
        <3>1. m \in 0 .. LeafCount /\ m < LeafCount /\ n = m + 1 /\ m \in Nat
            BY <2>3, LeafCountNat
        <3>2. j > Spot(m, d)
            <4>1. Width(n, d) = Spot(m, d) + 1
                BY <2>3 DEF Width
            <4>2. Spot(m, d) \in Nat
                BY <3>1, SpotFacts
            <4>. QED
                BY <1>3, <1>5, <4>1, <4>2
        <3>. HIDE DEF m
        <3>3. Trees[m + 1][d][j] = EmptyHash(d)
            BY <3>1, <3>2, BeyondLast
        <3>. QED
            BY <2>1, <3>1, <3>3
    <2>. QED
        BY <2>2, <2>3
<1>6. Width(n, d) \in Nat
    BY LevelIs
<1>. QED
    BY <1>4, <1>5

LEMMA ParentIs ==
    ASSUME NEW n \in 0 .. LeafCount, n < LeafCount, NEW d \in 0 .. DEPTH, d < DEPTH,
           empty[d] = EmptyHash(d)
    PROVE  ParentOf(LevelAfter(n + 1, d), Spot(n, d), d)
               = Trees[n + 1][d + 1][Spot(n, d + 1)]
<1>. DEFINE m == n + 1
            s == Spot(n, d)
            t == Spot(n, d + 1)
<1>. USE DepthAssumption
<1>1. m \in 0 .. LeafCount /\ n \in Nat /\ n < TwoTo[DEPTH] /\ TwoTo[DEPTH] \in Nat
    BY LeafCountNat, TwoToFacts DEF Levels
<1>2. d \in Levels /\ d + 1 \in Levels
    BY DEF Levels
<1>3. s \in Nat /\ t = s \div 2
    BY <1>1, <1>2, SpotFacts
<1>4. s \in Places(d)
    <2>1. s < TwoTo[DEPTH - d]
        BY <1>1, <1>2, SpotBound
    <2>2. TwoTo[DEPTH - d] \in Nat
        BY <1>2, TwoToFacts DEF Levels
    <2>. HIDE DEF s
    <2>. QED
        BY <1>3, <2>1, <2>2 DEF Places
<1>5. t \in Places(d + 1) /\ Sibling(s) \in Places(d)
    BY <1>3, <1>4, PlaceFacts
<1>6. Trees[m][d + 1][t] = Hash(Trees[m][d][2 * t], Trees[m][d][2 * t + 1])
    <2>. HIDE DEF m, t
    <2>. QED
        BY <1>1, <1>5, TreeAbove DEF Places
<1>7. /\ At(LevelAfter(m, d), s, d) = Trees[m][d][s]
      /\ At(LevelAfter(m, d), Sibling(s), d) = Trees[m][d][Sibling(s)]
    <2>. HIDE DEF m, s
    <2>. QED
        BY <1>1, <1>2, <1>4, <1>5, AtIs
<1>8. \/ IsEven(s) /\ s = 2 * t /\ Sibling(s) = 2 * t + 1
      \/ ~ IsEven(s) /\ s = 2 * t + 1 /\ Sibling(s) = 2 * t
    <2>. HIDE DEF s, t
    <2>. QED
        BY <1>3 DEF IsEven, Sibling
<1>. HIDE DEF m, s, t
<1>9. ParentOf(LevelAfter(m, d), s, d) = Trees[m][d + 1][t]
    BY <1>6, <1>7, <1>8 DEF ParentOf
<1>. QED
    BY <1>9 DEF m, s, t

\* vec is a sequence of w elements.
HasLength(vec, w) == vec = [k \in 1 .. w |-> vec[k]]

\* vec cut or grown to end with value at idx.
EndingWith(vec, idx, value) ==
    [k \in 1 .. idx + 1 |-> IF k = idx + 1 THEN value ELSE vec[k]]

LEMMA PutAtIs ==
    ASSUME NEW w \in Nat, NEW idx \in Nat, w = idx \/ w = idx + 1,
           NEW vec, HasLength(vec, w), NEW padding, NEW value
    PROVE  PutAt(vec, idx, padding, value) = EndingWith(vec, idx, value)
<1>. DEFINE S   == {vec[k] : k \in 1 .. w} \cup {padding}
            pad == [k \in 1 .. (idx + 1 - w) |-> padding]
            all == vec \o pad
<1>. USE DEF HasLength, EndingWith
<1>1. vec \in Seq(S) /\ Len(vec) = w
    <2>1. \A k \in 1 .. w : vec[k] \in S
        OBVIOUS
    <2>. HIDE DEF S
    <2>. QED
        BY <2>1
<1>2. pad \in Seq(S) /\ Len(pad) = idx + 1 - w
    <2>1. padding \in S /\ idx + 1 - w \in Nat
        OBVIOUS
    <2>. HIDE DEF S
    <2>. QED
        BY <2>1
<1>3. /\ all \in Seq(S) /\ Len(all) = idx + 1
      /\ \A k \in 1 .. w : all[k] = vec[k]
    <2>. HIDE DEF S, pad
    <2>. QED
        BY <1>1, <1>2, ConcatProperties
<1>4. DOMAIN all = 1 .. idx + 1
    <2>. HIDE DEF S, all
    <2>. QED
        BY <1>3
<1>5. PutAt(vec, idx, padding, value) = [all EXCEPT ![idx + 1] = value]
    BY <1>1 DEF PutAt
<1>. HIDE DEF all
<1>6. [all EXCEPT ![idx + 1] = value]
          = [k \in 1 .. idx + 1 |-> IF k = idx + 1 THEN value ELSE all[k]]
    BY <1>4
<1>7. \A k \in 1 .. idx + 1 : k # idx + 1 => all[k] = vec[k]
    BY <1>3
<1>. QED
    BY <1>5, <1>6, <1>7

\* Writing the new leaf's ancestor turns a level without it, or with it from a
\* call that was cut short, into the level of the tree with that leaf.
LEMMA PutLevel ==
    ASSUME NEW n \in 0 .. LeafCount, n < LeafCount, NEW d \in Levels,
           NEW m, m = n \/ m = n + 1, NEW padding
    PROVE  PutAt(LevelAfter(m, d), Spot(n, d), padding, Trees[n + 1][d][Spot(n, d)])
               = LevelAfter(n + 1, d)
<1>. DEFINE s     == Spot(n, d)
            next  == n + 1
            w     == Width(m, d)
            vec   == LevelAfter(m, d)
            value == Trees[next][d][s]
<1>. USE DepthAssumption
<1>1. /\ next \in 0 .. LeafCount /\ m \in 0 .. LeafCount /\ n \in Nat
      /\ n < TwoTo[DEPTH] /\ TwoTo[DEPTH] \in Nat
    BY LeafCountNat, TwoToFacts DEF Levels
<1>2. s \in Nat
    BY <1>1, SpotFacts
<1>3. Width(next, d) = s + 1
    BY <1>1 DEF Width
<1>4. w \in Nat /\ vec = [k \in 1 .. w |-> Trees[m][d][k - 1]]
            /\ \A k \in 1 .. w : vec[k] = Trees[m][d][k - 1]
    BY <1>1, LevelIs
<1>5. w = s \/ w = s + 1
    <2>1. CASE m = n + 1
        BY <1>3, <2>1
    <2>2. CASE m = n /\ n = 0
        <3>1. s = 0
            <4>1. TwoTo[d] \in Nat /\ TwoTo[d] > 0
                BY TwoToFacts
            <4>2. 0 \div TwoTo[d] = 0
                BY <4>1
            <4>. QED
                BY <2>2, <4>2 DEF Spot
        <3>. QED
            BY <2>2, <3>1 DEF Width
    <2>3. CASE m = n /\ n # 0
        <3>. DEFINE l == n - 1
        <3>1. l \in Nat /\ n = l + 1
            BY <1>1, <2>3
        <3>2. w = Spot(l, d) + 1
            BY <2>3 DEF Width
        <3>. HIDE DEF l
        <3>3. Spot(l, d) \in Nat /\ Spot(l, d) <= Spot(l + 1, d)
                /\ Spot(l + 1, d) <= Spot(l, d) + 1
            BY <3>1, SpotFacts, SpotNext
        <3>4. s = Spot(l + 1, d)
            BY <3>1
        <3>. HIDE DEF s, w
        <3>. QED
            BY <1>2, <3>2, <3>3, <3>4
    <2>. QED
        BY <2>1, <2>2, <2>3
<1>6. HasLength(vec, w)
    BY <1>4 DEF HasLength
<1>7. PutAt(vec, s, padding, value) = EndingWith(vec, s, value)
    <2>. HIDE DEF s, w, vec, value
    <2>. QED
        BY <1>2, <1>4, <1>5, <1>6, PutAtIs
<1>8. ASSUME NEW k \in 1 .. s + 1
      PROVE  (IF k = s + 1 THEN value ELSE vec[k]) = Trees[next][d][k - 1]
    <2>1. CASE k = s + 1
        BY <1>2, <2>1
    <2>2. CASE k # s + 1
        <3>1. k \in 1 .. w /\ k - 1 \in Nat /\ k - 1 < s
            <4>. HIDE DEF s, w
            <4>. QED
                BY <1>2, <1>4, <1>5, <2>2
        <3>2. vec[k] = Trees[m][d][k - 1]
            BY <1>4, <3>1
        <3>3. k - 1 \in Places(d)
            <4>1. s < TwoTo[DEPTH - d]
                BY <1>1, SpotBound
            <4>2. TwoTo[DEPTH - d] \in Nat
                BY TwoToFacts DEF Levels
            <4>. HIDE DEF s
            <4>. QED
                BY <1>2, <3>1, <4>1, <4>2 DEF Places
        <3>4. k - 1 # s
            <4>. HIDE DEF s
            <4>. QED
                BY <1>2, <3>1
        <3>5. Trees[n + 1][d][k - 1] = Trees[n][d][k - 1]
            BY <3>3, <3>4, SameNodes
        <3>. QED
            BY <2>2, <3>2, <3>5
    <2>. QED
        BY <2>1, <2>2
<1>9. LevelAfter(next, d) = [k \in 1 .. s + 1 |-> Trees[next][d][k - 1]]
    <2>. HIDE DEF s, next
    <2>. QED
        BY <1>1, <1>3, LevelIs
<1>10. PutAt(vec, s, padding, value) = LevelAfter(next, d)
    <2>. HIDE DEF s, next, vec, value
    <2>. QED
        BY <1>7, <1>8, <1>9 DEF EndingWith
<1>. QED
    BY <1>10

-----------------------------------------------------------------------------
(***************************************************************************)
(* A proof cut from a whole tree folds into its root.                      *)
(***************************************************************************)

\* What the circuit has after each level.
Folded(f, leaf, path, is_even) ==
    f = [d \in Levels |-> IF d = 0 THEN leaf
                          ELSE IF is_even[d] THEN Hash(f[d - 1], path[d])
                                             ELSE Hash(path[d], f[d - 1])]

LEMMA FoldDef ==
    ASSUME NEW leaf, NEW path, NEW is_even
    PROVE  \E f : /\ Folded(f, leaf, path, is_even)
                  /\ compute_merkle_root(leaf, path, is_even) = f[DEPTH]
<1>. DEFINE Turn(v, d) == IF is_even[d] THEN Hash(v, path[d]) ELSE Hash(path[d], v)
            Is(f, m)   == f = [d \in 0 .. m |-> IF d = 0 THEN leaf ELSE Turn(f[d - 1], d)]
            S          == {m \in Levels : \E f : Is(f, m)}
            P(f)       == Is(f, DEPTH)
<1>. USE DepthAssumption
<1>0. compute_merkle_root(leaf, path, is_even) = (CHOOSE f : P(f))[DEPTH]
    BY DEF compute_merkle_root, Levels
<1>00. \A f : P(f) => Folded(f, leaf, path, is_even)
    BY DEF Folded, Levels
<1>. HIDE DEF Turn
<1>1. 0 \in S
    <2>1. Is([d \in 0 .. 0 |-> leaf], 0)
        OBVIOUS
    <2>. HIDE DEF Is
    <2>. QED
        BY <2>1 DEF Levels
<1>2. ASSUME NEW m \in 0 .. DEPTH, m < DEPTH, m \in S
      PROVE  m + 1 \in S
    <2>1. PICK f : Is(f, m)
        BY <1>2
    <2>. DEFINE g == [d \in 0 .. m + 1 |-> IF d = m + 1 THEN Turn(f[m], m + 1) ELSE f[d]]
    <2>2. ASSUME NEW d \in 0 .. m + 1
          PROVE  g[d] = IF d = 0 THEN leaf ELSE Turn(g[d - 1], d)
        <3>1. CASE d = m + 1
            BY <3>1
        <3>2. CASE d # m + 1
            BY <2>1, <3>2
        <3>. QED
            BY <3>1, <3>2
    <2>3. Is(g, m + 1)
        BY <2>2
    <2>4. m + 1 \in Levels
        BY <1>2 DEF Levels
    <2>. HIDE DEF Is, g
    <2>. QED
        BY <2>3, <2>4
<1>3. DEPTH \in S
    <2>. HIDE DEF S
    <2>. QED
        BY <1>1, <1>2, UpTo
<1>4. PICK g : P(g)
    BY <1>3
<1>. HIDE DEF P
<1>5. P(CHOOSE f : P(f))
    BY <1>4
<1>. QED
    BY <1>0, <1>00, <1>5

LEMMA ProofFolds ==
    ASSUME NEW n \in 0 .. LeafCount, NEW l \in Nat, l < n,
           NEW path, NEW is_even,
           \A d \in 1 .. DEPTH :
               /\ path[d] = Trees[n][d - 1][Sibling(Spot(l, d - 1))]
               /\ is_even[d] = IsEven(Spot(l, d - 1))
    PROVE  compute_merkle_root(Leaves[l + 1], path, is_even) = RootOf(Trees[n])
<1>. USE DepthAssumption
<1>1. PICK f : /\ Folded(f, Leaves[l + 1], path, is_even)
               /\ compute_merkle_root(Leaves[l + 1], path, is_even) = f[DEPTH]
    BY FoldDef
<1>2. n \in Nat /\ l < TwoTo[DEPTH] /\ TwoTo[DEPTH] \in Nat
    BY LeafCountNat, TwoToFacts DEF Levels
<1>3. ASSUME NEW d \in Levels
      PROVE  Spot(l, d) \in Places(d) /\ Spot(l, d) \in Nat
    <2>1. Spot(l, d) < TwoTo[DEPTH - d] /\ Spot(l, d) \in Nat
        BY <1>2, SpotBound, SpotFacts
    <2>2. TwoTo[DEPTH - d] \in Nat
        BY TwoToFacts DEF Levels
    <2>. QED
        BY <2>1, <2>2 DEF Places
<1>. DEFINE S == {d \in Levels : f[d] = Trees[n][d][Spot(l, d)]}
<1>4. 0 \in S
    <2>1. f[0] = Leaves[l + 1]
        BY <1>1 DEF Folded, Levels
    <2>2. l \in 0 .. TwoTo[DEPTH] - 1
        BY <1>2
    <2>3. Trees[n][0][l] = Leaves[l + 1]
        BY <2>2, TreeBottom
    <2>. QED
        BY <2>1, <2>3, SpotFacts DEF Levels
<1>5. ASSUME NEW k \in 0 .. DEPTH, k < DEPTH, k \in S
      PROVE  k + 1 \in S
    <2>. DEFINE e == k + 1
                s == Spot(l, k)
                t == Spot(l, e)
    <2>1. /\ e \in Levels /\ k \in Levels /\ e # 0 /\ e - 1 = k /\ e \in 1 .. DEPTH
          /\ e = k + 1
        BY <1>5 DEF Levels
    <2>2. t = s \div 2 /\ s \in Nat /\ s \in Places(k)
        BY <1>3, <1>5, <2>1, SpotFacts
    <2>3. t \in Places(k + 1)
        BY <1>5, <2>2, PlaceFacts
    <2>. HIDE DEF e, s, t
    <2>4. Trees[n][k + 1][t] = Hash(Trees[n][k][2 * t], Trees[n][k][2 * t + 1])
        BY <1>5, <2>3, TreeAbove DEF Places
    <2>5. f[e] = IF is_even[e] THEN Hash(f[k], path[e]) ELSE Hash(path[e], f[k])
        BY <1>1, <2>1 DEF Folded
    <2>6. f[k] = Trees[n][k][s]
        BY <1>5 DEF s
    <2>7. path[e] = Trees[n][k][Sibling(s)] /\ is_even[e] = IsEven(s)
        BY <2>1 DEF s
    <2>8. \/ IsEven(s) /\ s = 2 * t /\ Sibling(s) = 2 * t + 1
          \/ ~ IsEven(s) /\ s = 2 * t + 1 /\ Sibling(s) = 2 * t
        BY <2>2 DEF IsEven, Sibling
    <2>9. f[e] = Trees[n][e][t]
        BY <2>1, <2>4, <2>5, <2>6, <2>7, <2>8
    <2>. QED
        BY <2>1, <2>9 DEF e, t
<1>6. \A k \in Levels : k \in S
    <2>. HIDE DEF S
    <2>. QED
        BY <1>4, <1>5, UpTo DEF Levels
<1>7. f[DEPTH] = Trees[n][DEPTH][Spot(l, DEPTH)]
    BY <1>6 DEF Levels
<1>8. Spot(l, DEPTH) = 0
    <2>1. Spot(l, DEPTH) < TwoTo[DEPTH - DEPTH] /\ Spot(l, DEPTH) \in Nat
        BY <1>2, SpotBound, SpotFacts DEF Levels
    <2>2. DEPTH - DEPTH = 0 /\ TwoTo[0] = 1
        BY TwoToFacts
    <2>. QED
        BY <2>1, <2>2
<1>. QED
    BY <1>1, <1>7, <1>8 DEF RootOf

-----------------------------------------------------------------------------
(***************************************************************************)
(* Facts the steps share.                                                  *)
(***************************************************************************)

LEMMA SizeIs ==
    ASSUME TypeOK
    PROVE  /\ Size \in 0 .. LeafCount
           /\ stored \in 0 .. LeafCount
           /\ size = Missing => Size = 0
           /\ size # Missing => Size = size
BY LeafCountNat DEF TypeOK, Size, OrElse, LeafCount

LEMMA NumberSet ==
    ASSUME NEW n \in Nat
    PROVE  n # Missing /\ OrElse(n, 0) = n
BY MissingAssumption DEF OrElse

LEMMA LevelSet ==
    ASSUME NEW n \in 0 .. LeafCount, NEW d \in Levels, NEW default
    PROVE  /\ LevelAfter(n, d) # Missing
           /\ OrElse(LevelAfter(n, d), default) = LevelAfter(n, d)
<1>1. LevelAfter(n, d) # Missing
    BY MissingAssumption DEF LeafCount
<1>. QED
    BY <1>1 DEF OrElse

LEMMA RootSet ==
    ASSUME NEW n \in 0 .. LeafCount, NEW default
    PROVE  /\ RootOf(Trees[n]) # Missing
           /\ OrElse(RootOf(Trees[n]), default) = RootOf(Trees[n])
<1>1. DEPTH \in Levels
    BY DepthAssumption DEF Levels
<1>2. RootOf(Trees[n]) # Missing
    BY <1>1, MissingAssumption DEF LeafCount, RootOf
<1>. QED
    BY <1>2 DEF OrElse

LEMMA EmptyLevelIs ==
    ASSUME NEW d \in Levels
    PROVE  /\ LevelAfter(0, d) = <<EmptyHash(d)>>
           /\ <<EmptyHash(d)>>[1] = EmptyHash(d)
<1>1. LevelAfter(0, d) = [k \in 1 .. 1 |-> Trees[0][d][k - 1]]
    <2>1. Width(0, d) = 1
        BY DEF Width
    <2>2. 0 \in 0 .. LeafCount
        BY LeafCountNat
    <2>. QED
        BY <2>1, <2>2, LevelIs
<1>2. [k \in 1 .. 1 |-> Trees[0][d][k - 1]] = <<Trees[0][d][0]>>
    OBVIOUS
<1>. QED
    BY <1>1, <1>2 DEF EmptyHash

\* The top of a level of a tree with a leaf, or of the empty tree, is its root.
LEMMA TopIs ==
    ASSUME NEW n \in 0 .. LeafCount
    PROVE  LevelAfter(n, DEPTH)[1] = RootOf(Trees[n])
<1>1. DEPTH \in Levels
    BY DepthAssumption DEF Levels
<1>2. 1 \in 1 .. Width(n, DEPTH)
    BY <1>1, LevelIs
<1>3. LevelAfter(n, DEPTH)[1] = Trees[n][DEPTH][1 - 1]
    BY <1>1, <1>2, LevelIs
<1>. QED
    BY <1>3 DEF RootOf

\* The reader is left alone by the steps of the others.
LEMMA ReaderKeeps ==
    ASSUME TypeOK, ReaderInv, reader' = reader, phase' = phase,
           stored' \in Nat, stored <= stored', Size' \in Nat, Size <= Size',
           phase = "serving" /\ writer'.pc # "none"
               => writer.pc # "none" \/ stored < stored',
           phase = "serving" /\ Size' # Size => writer.pc # "none" /\ Size' = stored
    PROVE  ReaderInv'
<1>. SUFFICES ASSUME reader.pc # "idle"
              PROVE  ReaderInv'
    BY DEF ReaderInv
<1>1. /\ phase = "serving"
      /\ reader.leaf \in Nat /\ reader.leaf < Size
      /\ reader.stored \in Nat /\ reader.stored <= stored
      /\ reader.pc = "done" => reader.d = DEPTH
      /\ reader.proof = [i \in 1 .. reader.d |-> reader.proof[i]]
      /\ reader.is_even = [i \in 1 .. reader.d |-> reader.is_even[i]]
      /\ reader.undisturbed \in BOOLEAN
      /\ reader.undisturbed /\ writer.pc # "none" => reader.stored < stored
      /\ reader.undisturbed /\ reader.stored = Size => HasRead(Size)
    BY DEF ReaderInv
<1>2. Size \in Nat /\ stored \in Nat
    BY SizeIs, LeafCountNat
<1>3. reader.leaf < Size' /\ reader.stored <= stored'
    BY <1>1, <1>2
<1>4. reader.undisturbed /\ writer'.pc # "none" => reader.stored < stored'
    BY <1>1, <1>2
<1>5. ASSUME reader.undisturbed, reader.stored = Size'
      PROVE  HasRead(Size)'
    <2>1. Size' = Size
        BY <1>1, <1>2, <1>5
    <2>2. HasRead(Size)
        BY <1>1, <1>5, <2>1
    <2>. QED
        BY <2>1, <2>2 DEF HasRead
<1>. QED
    BY <1>1, <1>3, <1>4, <1>5 DEF ReaderInv

\* Ending a call, or starting one, without touching Redis keeps the cut.
LEMMA KeptKeeps ==
    ASSUME TypeOK, Kept, UNCHANGED redis, stored' \in Nat, stored <= stored',
           writer'.pc = "none" \/ (writer'.pc = "size" /\ writer'.d = 0)
    PROVE  Kept'
<1>1. PICK k \in 0 .. DEPTH + 1 : Cut(k)
    BY DEF Kept
<1>2. Size' = Size /\ Size \in Nat /\ stored \in Nat
    BY SizeIs, LeafCountNat DEF redis, Size, OrElse
<1>3. Cut(k)'
    BY <1>1, <1>2 DEF Cut, redis
<1>4. WriterAtCut(k)'
    BY DEF WriterAtCut
<1>. QED
    BY <1>3, <1>4 DEF Kept, redis

LEMMA InvInit == Init => IInv
<1>. SUFFICES ASSUME Init PROVE IInv
    OBVIOUS
<1>. USE DEF Init
<1>1. Size = 0 /\ 0 \in Levels
    BY DepthAssumption DEF Size, OrElse, Levels
<1>2. TypeOK
    BY <1>1, LeafCountNat DEF TypeOK, NoCall, Idle, LeafCount
<1>3. Shape
    BY <1>1 DEF Shape, WriterShape, ReaderShape, NoCall, Idle
<1>4. Store
    BY DEF Store, Creating, NoCall
<1>. QED
    BY <1>2, <1>3, <1>4 DEF IInv, AddsTheLast, ReaderInv, NoCall, Idle

-----------------------------------------------------------------------------
(***************************************************************************)
(* The steps of startup.                                                   *)
(***************************************************************************)

\* While the tree is being created nothing is read.
LEMMA NoReader ==
    ASSUME ReaderInv, phase = "starting"
    PROVE  reader.pc = "idle"
BY DEF ReaderInv

LEMMA StepWriteEmpty ==
    ASSUME IInv, root = Missing, NEW d \in Levels, WriteEmptyLevel(d, EmptyHash(d)),
           \A i \in 0 .. d : i < d => empty[i] = EmptyHash(i) /\ level[i] = LevelAfter(0, i)
    PROVE  IInv'
<1>. USE DepthAssumption
<1>1. TypeOK /\ Shape /\ Creating /\ ReaderInv
    BY DEF IInv, Store
<1>2. /\ writer'.pc = IF d = DEPTH THEN "init_root" ELSE "init_level"
      /\ writer'.d = d /\ writer'.leaf = writer.leaf
      /\ writer'.current_level = <<EmptyHash(d)>>
      /\ WriterShape'
    BY <1>1 DEF WriteEmptyLevel, Shape, WriterShape
<1>3. /\ UNCHANGED <<root, size, stored, phase, reader>>
      /\ empty' = [empty EXCEPT ![d] = EmptyHash(d)]
      /\ level' = [level EXCEPT ![d] = <<EmptyHash(d)>>]
    BY DEF WriteEmptyLevel
<1>4. Size' = Size
    BY <1>3 DEF Size, OrElse
<1>5. TypeOK'
    BY <1>1, <1>2, <1>3 DEF TypeOK
<1>6. Shape'
    BY <1>1, <1>2, <1>3, <1>4 DEF Shape, ReaderShape
<1>7. Store'
    <2>1. ASSUME NEW i \in 0 .. d
          PROVE  empty'[i] = EmptyHash(i) /\ level'[i] = LevelAfter(0, i)
        <3>1. i \in Levels
            BY DEF Levels
        <3>2. CASE i = d
            BY <1>1, <1>3, <3>1, <3>2, EmptyLevelIs DEF Shape
        <3>3. CASE i # d
            <4>1. i < d
                BY <3>3 DEF Levels
            <4>. QED
                BY <1>1, <1>3, <3>1, <3>3, <4>1 DEF Shape
        <3>. QED
            BY <3>2, <3>3
    <2>2. writer'.pc = "init_level" <=> writer'.d < DEPTH
        BY <1>2 DEF Levels
    <2>3. Creating'
        BY <1>1, <1>2, <1>3, <2>1, <2>2 DEF Creating
    <2>. QED
        BY <1>3, <2>3 DEF Store
<1>8. AddsTheLast' /\ ReaderInv'
    <2>1. phase' = "starting" /\ reader'.pc = "idle"
        BY <1>1, <1>3, NoReader DEF Creating
    <2>. QED
        BY <2>1 DEF AddsTheLast, ReaderInv
<1>. QED
    BY <1>5, <1>6, <1>7, <1>8 DEF IInv

LEMMA StepStartInit ==
    ASSUME IInv, StartInit
    PROVE  IInv'
<1>1. 0 \in Levels
    BY DepthAssumption DEF Levels
<1>2. root = Missing /\ WriteEmptyLevel(0, EmptyHash(0))
    BY EmptyHashes DEF StartInit
<1>3. \A i \in 0 .. 0 : i < 0 => empty[i] = EmptyHash(i) /\ level[i] = LevelAfter(0, i)
    OBVIOUS
<1>. QED
    BY <1>1, <1>2, <1>3, StepWriteEmpty

LEMMA StepInitLevel ==
    ASSUME IInv, InitLevel
    PROVE  IInv'
<1>. USE DepthAssumption
<1>1. writer.pc = "init_level" /\ writer.d \in Levels
    BY DEF InitLevel, IInv, TypeOK
<1>2. root = Missing /\ Creating
    BY <1>1 DEF IInv, Store, Kept, WriterAtCut
<1>3. /\ writer.d < DEPTH
      /\ writer.current_level = <<EmptyHash(writer.d)>>
      /\ \A i \in 0 .. writer.d : empty[i] = EmptyHash(i) /\ level[i] = LevelAfter(0, i)
    BY <1>1, <1>2 DEF Creating
<1>4. writer.current_level[1] = EmptyHash(writer.d)
    BY <1>1, <1>3, EmptyLevelIs
<1>5. writer.d + 1 \in Levels
    BY <1>1, <1>3 DEF Levels
<1>6. Hash(writer.current_level[1], writer.current_level[1]) = EmptyHash(writer.d + 1)
    BY <1>1, <1>3, <1>4, EmptyHashes DEF Levels
<1>7. WriteEmptyLevel(writer.d + 1, EmptyHash(writer.d + 1))
    BY <1>6 DEF InitLevel
<1>8. \A i \in 0 .. writer.d + 1 :
          i < writer.d + 1 => empty[i] = EmptyHash(i) /\ level[i] = LevelAfter(0, i)
    BY <1>1, <1>3 DEF Levels
<1>. DEFINE e == writer.d + 1
<1>. HIDE DEF e
<1>9. e \in Levels /\ WriteEmptyLevel(e, EmptyHash(e))
        /\ \A i \in 0 .. e : i < e => empty[i] = EmptyHash(i) /\ level[i] = LevelAfter(0, i)
    BY <1>5, <1>7, <1>8 DEF e
<1>. QED
    BY <1>2, <1>9, StepWriteEmpty

LEMMA StepInitRoot ==
    ASSUME IInv, InitRoot
    PROVE  IInv'
<1>. USE DepthAssumption
<1>0. DEPTH \in Levels /\ 0 \in 0 .. LeafCount /\ 0 \in 0 .. DEPTH + 1
    BY LeafCountNat DEF Levels
<1>1. writer.pc = "init_root" /\ writer.d \in Levels /\ TypeOK /\ Shape /\ ReaderInv
    BY DEF InitRoot, IInv, TypeOK
<1>2. root = Missing /\ Creating
    BY <1>1 DEF IInv, Store, Kept, WriterAtCut
<1>3. /\ writer.d = DEPTH
      /\ writer.current_level = <<EmptyHash(DEPTH)>>
      /\ \A i \in 0 .. DEPTH : empty[i] = EmptyHash(i) /\ level[i] = LevelAfter(0, i)
    <2>1. writer.d = DEPTH
        BY <1>1, <1>2 DEF Creating, Levels
    <2>. QED
        BY <1>1, <1>2, <2>1 DEF Creating
<1>4. root' = RootOf(Trees[0])
    BY <1>0, <1>3, EmptyLevelIs DEF InitRoot, RootOf, EmptyHash
<1>5. root' # Missing
    BY <1>0, <1>4, RootSet
<1>6. /\ writer'.pc = "init_size" /\ writer'.d = writer.d /\ writer'.leaf = writer.leaf
      /\ WriterShape'
    BY <1>1 DEF InitRoot, Shape, WriterShape
<1>7. UNCHANGED <<level, empty, size, stored, phase, reader>>
    BY DEF InitRoot
<1>8. Size' = Size /\ Size = 0 /\ size = Missing
    BY <1>1, <1>2, <1>7, SizeIs DEF Creating, Size, OrElse
<1>9. TypeOK'
    BY <1>1, <1>6, <1>7 DEF TypeOK
<1>10. Shape'
    BY <1>1, <1>6, <1>7, <1>8 DEF Shape, ReaderShape
<1>11. Kept'
    <2>1. Cut(0)'
        BY <1>3, <1>4, <1>7, <1>8 DEF Cut, Levels
    <2>2. WriterAtCut(0)'
        BY <1>6, <1>7, <1>8 DEF WriterAtCut
    <2>. QED
        BY <1>0, <1>3, <1>7, <2>1, <2>2 DEF Kept, Levels
<1>12. AddsTheLast' /\ ReaderInv'
    <2>1. phase' = "starting" /\ reader'.pc = "idle"
        BY <1>1, <1>2, <1>7, NoReader DEF Creating
    <2>. QED
        BY <2>1 DEF AddsTheLast, ReaderInv
<1>. QED
    BY <1>5, <1>9, <1>10, <1>11, <1>12 DEF IInv, Store

LEMMA StepInitSize ==
    ASSUME IInv, InitSize
    PROVE  IInv'
<1>. USE DepthAssumption
<1>1. writer.pc = "init_size" /\ TypeOK /\ Shape /\ ReaderInv
    BY DEF InitSize, IInv
<1>2. root # Missing /\ Kept
    BY <1>1 DEF IInv, Store, Creating
<1>3. PICK k \in 0 .. DEPTH + 1 : Cut(k) /\ WriterAtCut(k)
    BY <1>2 DEF Kept
<1>4. /\ UNCHANGED <<level, empty, root, stored, phase, reader>>
      /\ size' = 0 /\ writer' = NoCall
    BY DEF InitSize
<1>5. Size = 0 /\ Size' = 0
    BY <1>1, <1>3, <1>4, SizeIs, NumberSet DEF WriterAtCut, Size
<1>6. 0 \in Levels /\ stored \in Nat /\ writer'.pc = "none" /\ writer'.d = 0
        /\ writer'.leaf = 0
    BY <1>1, <1>4, LeafCountNat, SizeIs DEF Levels, NoCall
<1>7. TypeOK'
    <2>1. 0 \in 0 .. Len(Leaves)
        BY LeafCountNat DEF LeafCount
    <2>. QED
        BY <1>1, <1>4, <1>6, <2>1 DEF TypeOK
<1>8. Shape'
    BY <1>1, <1>4, <1>5 DEF Shape, WriterShape, ReaderShape, NoCall
<1>9. Cut(k)' /\ WriterAtCut(k)'
    BY <1>3, <1>4, <1>5, <1>6 DEF Cut, WriterAtCut
<1>10. Store'
    BY <1>2, <1>4, <1>9 DEF Store, Kept
<1>11. ReaderInv'
    BY <1>1, <1>4, <1>5, <1>6, ReaderKeeps
<1>. QED
    BY <1>6, <1>7, <1>8, <1>10, <1>11 DEF IInv, AddsTheLast

LEMMA StepStartSync ==
    ASSUME IInv, StartSync
    PROVE  IInv'
<1>1. TypeOK /\ Shape /\ ReaderInv /\ root # Missing /\ Kept
    BY DEF StartSync, IInv, Store
<1>2. /\ UNCHANGED <<redis, stored, phase, reader>>
      /\ phase = "starting" /\ stored > Size
      /\ writer' = [NoCall EXCEPT !.pc = "size", !.leaf = Size]
    BY DEF StartSync, CallAddLeaf, NeedsSync
<1>3. writer'.pc = "size" /\ writer'.d = 0 /\ writer'.leaf = Size /\ WriterShape'
    BY <1>2 DEF NoCall, WriterShape
<1>4. /\ Size' = Size /\ Size \in Nat /\ stored \in Nat /\ 0 \in Levels
      /\ UNCHANGED <<level, empty, root, size>>
    BY <1>1, <1>2, SizeIs, LeafCountNat, DepthAssumption DEF redis, Size, OrElse, Levels
<1>5. TypeOK'
    BY <1>1, <1>2, <1>3, <1>4 DEF TypeOK
<1>6. Shape'
    BY <1>1, <1>2, <1>3, <1>4 DEF Shape, ReaderShape
<1>7. Kept'
    BY <1>1, <1>2, <1>3, <1>4, KeptKeeps
<1>8. AddsTheLast' /\ ReaderInv'
    BY <1>1, <1>2, NoReader DEF AddsTheLast, ReaderInv
<1>. QED
    BY <1>1, <1>4, <1>5, <1>6, <1>7, <1>8 DEF IInv, Store

LEMMA StepServe ==
    ASSUME IInv, Serve
    PROVE  IInv'
<1>1. TypeOK /\ Shape /\ ReaderInv /\ root # Missing /\ Kept
    BY DEF Serve, IInv, Store
<1>2. /\ UNCHANGED <<redis, stored, writer, reader>>
      /\ phase = "starting" /\ phase' = "serving" /\ writer.pc = "none"
    BY DEF Serve
<1>3. Size' = Size /\ UNCHANGED <<level, empty, root, size>>
    BY <1>2 DEF redis, Size, OrElse
<1>4. TypeOK'
    BY <1>1, <1>2, <1>3 DEF TypeOK
<1>5. Shape'
    BY <1>1, <1>2, <1>3 DEF Shape, ReaderShape, WriterShape
<1>6. Kept'
    <2>1. /\ TypeOK /\ Kept /\ UNCHANGED redis /\ stored' \in Nat /\ stored <= stored'
          /\ writer'.pc = "none"
        BY <1>1, <1>2, SizeIs, LeafCountNat
    <2>. QED
        BY <2>1, KeptKeeps
<1>7. AddsTheLast' /\ ReaderInv'
    BY <1>1, <1>2, NoReader DEF AddsTheLast, ReaderInv
<1>. QED
    BY <1>1, <1>3, <1>4, <1>5, <1>6, <1>7 DEF IInv, Store

LEMMA StepSaveDeposit ==
    ASSUME IInv, SaveDeposit
    PROVE  IInv'
<1>1. TypeOK /\ Shape /\ ReaderInv
    BY DEF IInv
<1>2. /\ UNCHANGED <<redis, phase, reader>>
      /\ phase = "serving" /\ stored' = stored + 1 /\ stored < LeafCount
      /\ writer.pc = "none"
      /\ writer' = [NoCall EXCEPT !.pc = "size", !.leaf = stored]
    BY DEF SaveDeposit, CallAddLeaf, LeafCount
<1>3. root # Missing /\ Kept
    BY <1>2 DEF IInv, Store, Creating
<1>4. writer'.pc = "size" /\ writer'.d = 0 /\ writer'.leaf = stored /\ WriterShape'
    BY <1>2 DEF NoCall, WriterShape
<1>5. /\ Size' = Size /\ Size \in Nat /\ stored \in Nat /\ 0 \in Levels
      /\ UNCHANGED <<level, empty, root, size>>
      /\ stored' \in 0 .. LeafCount /\ stored' \in Nat /\ stored <= stored'
    BY <1>1, <1>2, SizeIs, LeafCountNat, DepthAssumption DEF redis, Size, OrElse, Levels
<1>6. TypeOK'
    BY <1>1, <1>2, <1>4, <1>5 DEF TypeOK, LeafCount
<1>7. Shape'
    BY <1>1, <1>2, <1>4, <1>5 DEF Shape, ReaderShape
<1>8. Kept'
    BY <1>1, <1>2, <1>3, <1>4, <1>5, KeptKeeps
<1>9. AddsTheLast'
    BY <1>2, <1>4 DEF AddsTheLast
<1>10. ReaderInv'
    BY <1>1, <1>2, <1>5, ReaderKeeps
<1>. QED
    BY <1>3, <1>5, <1>6, <1>7, <1>8, <1>9, <1>10 DEF IInv, Store

-----------------------------------------------------------------------------
(***************************************************************************)
(* The steps of add_leaf.                                                  *)
(***************************************************************************)

\* A call that ends leaves the store as it is.
LEMMA StepEnds ==
    ASSUME IInv, writer' = NoCall, UNCHANGED <<redis, stored, phase, reader>>
    PROVE  IInv'
<1>1. TypeOK /\ Shape /\ ReaderInv /\ Store
    BY DEF IInv
<1>2. writer'.pc = "none" /\ writer'.d = 0 /\ writer'.leaf = 0 /\ WriterShape'
    BY DEF NoCall, WriterShape
<1>3. /\ Size' = Size /\ Size \in Nat /\ stored \in Nat /\ 0 \in Levels
      /\ UNCHANGED <<level, empty, root, size>>
    BY <1>1, SizeIs, LeafCountNat, DepthAssumption DEF redis, Size, OrElse, Levels
<1>4. TypeOK'
    BY <1>1, <1>2, <1>3 DEF TypeOK
<1>5. Shape'
    BY <1>1, <1>2, <1>3 DEF Shape, ReaderShape
<1>6. CASE root = Missing
    <2>1. Creating'
        BY <1>1, <1>2, <1>3, <1>6 DEF Store, Creating
    <2>. QED
        BY <1>1, <1>2, <1>3, <1>4, <1>5, <1>6, <2>1, ReaderKeeps DEF IInv, Store, AddsTheLast
<1>7. CASE root # Missing
    <2>1. Kept'
        BY <1>1, <1>2, <1>3, <1>7, KeptKeeps DEF Store
    <2>. QED
        BY <1>1, <1>2, <1>3, <1>4, <1>5, <1>7, <2>1, ReaderKeeps DEF IInv, Store, AddsTheLast
<1>. QED
    BY <1>6, <1>7

LEMMA StepCrash ==
    ASSUME IInv, Crash
    PROVE  IInv'
<1>1. TypeOK /\ Shape /\ Store
    BY DEF IInv
<1>2. /\ UNCHANGED <<redis, stored>>
      /\ phase' = "starting" /\ writer' = NoCall /\ reader' = Idle
    BY DEF Crash
<1>3. /\ writer'.pc = "none" /\ writer'.d = 0 /\ writer'.leaf = 0 /\ WriterShape'
      /\ reader'.pc = "idle" /\ reader'.d = 0 /\ reader'.proof = << >> /\ ReaderShape'
    BY <1>2 DEF NoCall, WriterShape, Idle, ReaderShape
<1>4. /\ Size' = Size /\ Size \in Nat /\ stored \in Nat /\ 0 \in Levels
      /\ UNCHANGED <<level, empty, root, size>>
    BY <1>1, <1>2, SizeIs, LeafCountNat, DepthAssumption DEF redis, Size, OrElse, Levels
<1>5. TypeOK'
    BY <1>1, <1>2, <1>3, <1>4 DEF TypeOK
<1>6. Shape'
    BY <1>1, <1>2, <1>3, <1>4 DEF Shape
<1>7. Store'
    <2>1. CASE root = Missing
        BY <1>1, <1>2, <1>3, <1>4, <2>1 DEF Store, Creating
    <2>2. CASE root # Missing
        BY <1>1, <1>2, <1>3, <1>4, <2>2, KeptKeeps DEF Store
    <2>. QED
        BY <2>1, <2>2
<1>. QED
    BY <1>2, <1>3, <1>5, <1>6, <1>7 DEF IInv, AddsTheLast, ReaderInv

\* Writing level d for the next leaf, at or below the cut, moves the cut above d.
LEMMA CutRaised ==
    ASSUME NEW k \in 0 .. DEPTH + 1, Cut(k), NEW d \in Levels, d <= k,
           Size \in Nat, Size < stored, DOMAIN level = Levels,
           level' = [level EXCEPT ![d] = LevelAfter(Size + 1, d)],
           UNCHANGED <<root, size, stored>>
    PROVE  \E c \in 0 .. DEPTH + 1 : c > d /\ Cut(c)'
<1>. USE DepthAssumption
<1>. DEFINE c == IF k = d THEN d + 1 ELSE k
<1>1. c \in 0 .. DEPTH + 1 /\ c > d /\ k <= c
    BY DEF Levels
<1>2. Size' = Size
    BY DEF Size, OrElse
<1>3. ASSUME NEW e \in Levels
      PROVE  level'[e] = LevelAfter(IF e < c THEN Size + 1 ELSE Size, e)
    <2>1. CASE e = d
        BY <1>1, <2>1
    <2>2. CASE e # d
        <3>1. level'[e] = level[e]
            BY <2>2
        <3>2. e < c <=> e < k
            BY <2>2 DEF Levels
        <3>3. level[e] = LevelAfter(IF e < k THEN Size + 1 ELSE Size, e)
            BY DEF Cut
        <3>. QED
            BY <3>1, <3>2, <3>3
    <2>. QED
        BY <2>1, <2>2
<1>4. \/ root = RootOf(Trees[Size])
      \/ c = DEPTH + 1 /\ root = RootOf(Trees[Size + 1])
    <2>1. k = DEPTH + 1 => c = DEPTH + 1
        BY DEF Levels
    <2>. QED
        BY <2>1 DEF Cut
<1>. HIDE DEF c
<1>5. Cut(c)'
    BY <1>2, <1>3, <1>4 DEF Cut
<1>. QED
    BY <1>1, <1>5

\* What a call in progress knows.
LEMMA Calling ==
    ASSUME IInv, writer.pc \in {"size", "level", "commit"}
    PROVE  /\ TypeOK /\ Shape /\ AddsTheLast /\ ReaderInv
           /\ root # Missing /\ Kept
           /\ Size \in Nat /\ stored \in Nat /\ stored <= LeafCount
           /\ writer.leaf \in Nat /\ writer.leaf < stored
           /\ Size < stored => Size + 1 \in 0 .. LeafCount /\ Size < LeafCount
                               /\ Size \in 0 .. LeafCount
<1>1. TypeOK /\ Shape /\ AddsTheLast /\ ReaderInv /\ Store
    BY DEF IInv
<1>2. root # Missing /\ Kept
    BY <1>1 DEF Store, Creating
<1>3. Size \in Nat /\ stored \in Nat /\ stored <= LeafCount
    BY <1>1, SizeIs, LeafCountNat
<1>4. writer.leaf \in Nat /\ writer.leaf < stored
    BY <1>1 DEF TypeOK
<1>. QED
    BY <1>1, <1>2, <1>3, <1>4, LeafCountNat

\* A step of the loop that writes level d for the next leaf.
LEMMA StepWriteLevel ==
    ASSUME IInv, writer.pc = "size" \/ writer.pc = "level",
           writer.leaf = Size,
           NEW d \in Levels, NEW k \in 0 .. DEPTH + 1, Cut(k), d <= k,
           level' = [level EXCEPT ![d] = LevelAfter(Size + 1, d)],
           writer'.pc = "level", writer'.d = d, writer'.leaf = writer.leaf,
           writer'.current_level = LevelAfter(Size + 1, d), WriterShape',
           UNCHANGED <<empty, root, size, stored, phase, reader>>
    PROVE  IInv'
<1>1. /\ TypeOK /\ Shape /\ AddsTheLast /\ ReaderInv /\ root # Missing /\ Kept
      /\ Size \in Nat /\ stored \in Nat /\ writer.leaf < stored
    BY Calling
<1>2. Size' = Size /\ Size < stored
    BY <1>1 DEF Size, OrElse
<1>3. TypeOK'
    BY <1>1 DEF TypeOK
<1>4. Shape'
    BY <1>1, <1>2 DEF Shape, ReaderShape
<1>5. PICK c \in 0 .. DEPTH + 1 : c > d /\ Cut(c)'
    BY <1>1, <1>2, CutRaised DEF Shape
<1>6. WriterAtCut(c)'
    BY <1>2, <1>5 DEF WriterAtCut
<1>7. Store'
    BY <1>1, <1>5, <1>6 DEF Store, Kept
<1>8. AddsTheLast'
    BY <1>1 DEF AddsTheLast
<1>9. ReaderInv'
    BY <1>1, <1>2, ReaderKeeps
<1>. QED
    BY <1>3, <1>4, <1>7, <1>8, <1>9 DEF IInv

LEMMA StepAddLeafLevel0 ==
    ASSUME IInv, AddLeafLevel0
    PROVE  IInv'
<1>. USE DepthAssumption
<1>. DEFINE n == Size
<1>1. /\ writer.pc = "size" /\ writer.leaf = n
      /\ UNCHANGED <<empty, root, size, stored, phase, reader>>
    BY DEF AddLeafLevel0, IsNextLeaf
<1>2. /\ TypeOK /\ Shape /\ Kept
      /\ n \in Nat /\ stored \in Nat /\ stored <= LeafCount /\ n < stored
      /\ n \in 0 .. LeafCount /\ n + 1 \in 0 .. LeafCount /\ n < LeafCount
    BY <1>1, Calling
<1>3. PICK k \in 0 .. DEPTH + 1 : Cut(k) /\ WriterAtCut(k)
    BY <1>2 DEF Kept
<1>4. writer.d = 0 /\ 0 \in Levels /\ 0 <= k
    BY <1>1, <1>3 DEF WriterAtCut, Levels
<1>. DEFINE m == IF 0 < k THEN n + 1 ELSE n
<1>5. level[0] = LevelAfter(m, 0) /\ m \in 0 .. LeafCount /\ (m = n \/ m = n + 1)
    BY <1>2, <1>3, <1>4 DEF Cut
<1>. HIDE DEF m
<1>6. OrElse(level[0], <<EMPTY_LEAF>>) = LevelAfter(m, 0)
    BY <1>4, <1>5, LevelSet
<1>7. Leaves[n + 1] = Trees[n + 1][0][Spot(n, 0)] /\ Spot(n, 0) = n
    <2>. HIDE DEF n
    <2>1. n \in 0 .. TwoTo[DEPTH] - 1 /\ n < n + 1
        BY <1>2, LeafCountNat, TwoToFacts DEF Levels
    <2>2. Trees[n + 1][0][n] = Leaves[n + 1]
        BY <1>2, <2>1, TreeBottom
    <2>. QED
        BY <1>2, <2>2, SpotFacts
<1>8. PutAt(LevelAfter(m, 0), n, EMPTY_LEAF, Leaves[n + 1]) = LevelAfter(n + 1, 0)
    <2>. HIDE DEF n
    <2>1. PutAt(LevelAfter(m, 0), Spot(n, 0), EMPTY_LEAF, Trees[n + 1][0][Spot(n, 0)])
              = LevelAfter(n + 1, 0)
        BY <1>2, <1>4, <1>5, PutLevel
    <2>. QED
        BY <1>7, <2>1
<1>9. /\ level' = [level EXCEPT ![0] = LevelAfter(n + 1, 0)]
      /\ writer' = [writer EXCEPT !.pc = "level", !.current_level = LevelAfter(n + 1, 0)]
    BY <1>1, <1>6, <1>8 DEF AddLeafLevel0
<1>10. /\ writer'.pc = "level" /\ writer'.d = 0 /\ writer'.leaf = writer.leaf
       /\ writer'.current_level = LevelAfter(n + 1, 0) /\ WriterShape'
    BY <1>2, <1>4, <1>9 DEF Shape, WriterShape
<1>. QED
    BY <1>1, <1>3, <1>4, <1>9, <1>10, StepWriteLevel

LEMMA StepAddLeafLevel ==
    ASSUME IInv, AddLeafLevel
    PROVE  IInv'
<1>. USE DepthAssumption
<1>. DEFINE n == Size
            d == writer.d
            e == d + 1
            idx == writer.leaf \div TwoTo[d]
<1>1. /\ writer.pc = "level" /\ d < DEPTH
      /\ UNCHANGED <<empty, root, size, stored, phase, reader>>
    BY DEF AddLeafLevel
<1>2. /\ TypeOK /\ Shape /\ Kept
      /\ n \in Nat /\ stored \in Nat /\ stored <= LeafCount
      /\ writer.leaf < stored /\ d \in Levels
    BY <1>1, Calling DEF TypeOK
<1>3. PICK k \in 0 .. DEPTH + 1 : Cut(k) /\ WriterAtCut(k)
    BY <1>2 DEF Kept
<1>4. writer.leaf = n /\ k > d /\ writer.current_level = LevelAfter(n + 1, d)
    BY <1>1, <1>3 DEF WriterAtCut
<1>5. n \in 0 .. LeafCount /\ n + 1 \in 0 .. LeafCount /\ n < LeafCount
    BY <1>1, <1>2, <1>4, Calling
<1>6. /\ d \in 0 .. DEPTH /\ e \in Levels /\ e <= k
      /\ empty[d] = EmptyHash(d)
    BY <1>1, <1>2, <1>4 DEF Kept, Levels
<1>. DEFINE m == IF e < k THEN n + 1 ELSE n
<1>7. level[e] = LevelAfter(m, e) /\ m \in 0 .. LeafCount /\ (m = n \/ m = n + 1)
    BY <1>3, <1>5, <1>6 DEF Cut
<1>. HIDE DEF m
<1>8. OrElse(level[e], <<EMPTY_LEAF>>) = LevelAfter(m, e)
    BY <1>6, <1>7, LevelSet
<1>9. idx = Spot(n, d) /\ idx \div 2 = Spot(n, e)
    <2>1. idx = Spot(n, d)
        BY <1>4 DEF Spot
    <2>. HIDE DEF idx, d, n
    <2>2. Spot(n, d + 1) = Spot(n, d) \div 2
        BY <1>1, <1>2, <1>6, SpotFacts
    <2>. QED
        BY <2>1, <2>2
<1>10. ParentOf(writer.current_level, idx, d) = Trees[n + 1][e][Spot(n, e)]
    <2>. HIDE DEF idx, n, d
    <2>1. ParentOf(LevelAfter(n + 1, d), Spot(n, d), d) = Trees[n + 1][d + 1][Spot(n, d + 1)]
        BY <1>1, <1>5, <1>6, ParentIs
    <2>. QED
        BY <1>4, <1>9, <2>1
<1>. DEFINE padding == OrElse(empty[e], EMPTY_LEAF)
<1>11. PutAt(OrElse(level[e], <<EMPTY_LEAF>>), idx \div 2, padding,
             ParentOf(writer.current_level, idx, d)) = LevelAfter(n + 1, e)
    <2>. HIDE DEF idx, n, d, e, padding
    <2>1. PutAt(LevelAfter(m, e), Spot(n, e), padding, Trees[n + 1][e][Spot(n, e)])
              = LevelAfter(n + 1, e)
        BY <1>5, <1>6, <1>7, PutLevel
    <2>. QED
        BY <1>8, <1>9, <1>10, <2>1
<1>12. /\ level' = [level EXCEPT ![e] = LevelAfter(n + 1, e)]
       /\ writer' = [writer EXCEPT !.d = e, !.current_level = LevelAfter(n + 1, e)]
    BY <1>11 DEF AddLeafLevel
<1>. HIDE DEF e
<1>13. /\ writer'.pc = "level" /\ writer'.d = e /\ writer'.leaf = writer.leaf
       /\ writer'.current_level = LevelAfter(n + 1, e) /\ WriterShape'
    BY <1>1, <1>2, <1>12 DEF Shape, WriterShape
<1>. QED
    BY <1>1, <1>3, <1>4, <1>6, <1>12, <1>13, StepWriteLevel

LEMMA StepAddLeafRoot ==
    ASSUME IInv, AddLeafRoot
    PROVE  IInv'
<1>. USE DepthAssumption
<1>. DEFINE n == Size
<1>1. /\ writer.pc = "level" /\ writer.d = DEPTH
      /\ UNCHANGED <<level, empty, size, stored, phase, reader>>
      /\ root' = writer.current_level[1]
      /\ writer' = [writer EXCEPT !.pc = "commit"]
    BY DEF AddLeafRoot
<1>2. /\ TypeOK /\ Shape /\ Kept /\ AddsTheLast /\ ReaderInv
      /\ n \in Nat /\ stored \in Nat /\ stored <= LeafCount /\ writer.leaf < stored
    BY <1>1, Calling
<1>3. PICK k \in 0 .. DEPTH + 1 : Cut(k) /\ WriterAtCut(k)
    BY <1>2 DEF Kept
<1>4. writer.leaf = n /\ k > DEPTH /\ writer.current_level = LevelAfter(n + 1, DEPTH)
    BY <1>1, <1>3 DEF WriterAtCut
<1>5. k = DEPTH + 1 /\ n + 1 \in 0 .. LeafCount
    BY <1>1, <1>2, <1>4, Calling
<1>6. root' = RootOf(Trees[n + 1])
    <2>. HIDE DEF n
    <2>. QED
        BY <1>1, <1>4, <1>5, TopIs
<1>7. root' # Missing
    <2>. HIDE DEF n
    <2>. QED
        BY <1>5, <1>6, RootSet
<1>8. /\ writer'.pc = "commit" /\ writer'.d = writer.d /\ writer'.leaf = writer.leaf
      /\ WriterShape'
    BY <1>1, <1>2 DEF Shape, WriterShape
<1>9. Size' = n
    BY <1>1 DEF Size, OrElse
<1>10. TypeOK'
    BY <1>1, <1>2, <1>8 DEF TypeOK
<1>11. Shape'
    BY <1>1, <1>2, <1>8, <1>9 DEF Shape, ReaderShape
<1>12. Kept'
    <2>1. Cut(k)'
        BY <1>1, <1>3, <1>5, <1>6, <1>9 DEF Cut
    <2>2. WriterAtCut(k)'
        BY <1>4, <1>5, <1>6, <1>8, <1>9 DEF WriterAtCut
    <2>. QED
        BY <1>1, <1>2, <2>1, <2>2 DEF Kept
<1>13. AddsTheLast'
    BY <1>1, <1>2, <1>8 DEF AddsTheLast
<1>14. ReaderInv'
    BY <1>1, <1>2, <1>9, ReaderKeeps
<1>. QED
    BY <1>7, <1>10, <1>11, <1>12, <1>13, <1>14 DEF IInv, Store

\* The call that ends well leaves the tree with the next leaf, whole.
LEMMA Commits ==
    ASSUME IInv, AddLeafSize
    PROVE  /\ Size' = Size + 1 /\ Size + 1 \in 0 .. LeafCount
           /\ writer.leaf = Size /\ Size < stored
           /\ root' = RootOf(Trees[Size'])
           /\ \A d \in Levels : level'[d] = LevelAfter(Size', d)
<1>. USE DepthAssumption
<1>1. writer.pc = "commit" /\ size' = Size + 1 /\ UNCHANGED <<level, root>>
    BY DEF AddLeafSize
<1>2. Kept /\ Size \in Nat /\ stored \in Nat /\ writer.leaf < stored
    BY <1>1, Calling
<1>3. PICK k \in 0 .. DEPTH + 1 : Cut(k) /\ WriterAtCut(k)
    BY <1>2 DEF Kept
<1>4. writer.leaf = Size /\ k = DEPTH + 1 /\ root = RootOf(Trees[Size + 1])
    BY <1>1, <1>3 DEF WriterAtCut
<1>5. Size < stored /\ Size + 1 \in 0 .. LeafCount
    BY <1>1, <1>2, <1>4, Calling
<1>6. Size' = Size + 1
    <2>. DEFINE n == Size
    <2>1. OrElse(n + 1, 0) = n + 1
        <3>. HIDE DEF n
        <3>1. n + 1 \in Nat
            BY <1>2 DEF n
        <3>. QED
            BY <3>1, NumberSet
    <2>. QED
        BY <1>1, <2>1 DEF Size
<1>7. \A d \in Levels : level[d] = LevelAfter(Size + 1, d)
    <2>1. \A d \in Levels : d < k
        BY <1>4 DEF Levels
    <2>. QED
        BY <1>3, <2>1 DEF Cut
<1>. QED
    BY <1>1, <1>4, <1>5, <1>6, <1>7

LEMMA StepAddLeafSize ==
    ASSUME IInv, AddLeafSize
    PROVE  IInv'
<1>. USE DepthAssumption
<1>1. /\ writer.pc = "commit" /\ size' = Size + 1 /\ writer' = NoCall
      /\ UNCHANGED <<level, empty, root, stored, phase, reader>>
    BY DEF AddLeafSize
<1>2. /\ TypeOK /\ Shape /\ Kept /\ AddsTheLast /\ ReaderInv /\ root # Missing
      /\ Size \in Nat /\ stored \in Nat /\ writer.leaf < stored
    BY <1>1, Calling
<1>3. /\ Size' = Size + 1 /\ Size + 1 \in 0 .. LeafCount
      /\ writer.leaf = Size /\ Size < stored
      /\ root' = RootOf(Trees[Size'])
      /\ \A d \in Levels : level'[d] = LevelAfter(Size', d)
    BY Commits
<1>4. writer'.pc = "none" /\ writer'.d = 0 /\ writer'.leaf = 0 /\ WriterShape' /\ 0 \in Levels
    BY <1>1 DEF NoCall, WriterShape, Levels
<1>5. TypeOK'
    BY <1>1, <1>2, <1>3, <1>4 DEF TypeOK, LeafCount
<1>6. Shape'
    BY <1>1, <1>2, <1>3, <1>4 DEF Shape, ReaderShape
<1>7. Kept'
    <2>1. 0 \in 0 .. DEPTH + 1 /\ \A d \in Levels : ~ (d < 0)
        BY DEF Levels
    <2>2. Cut(0)'
        BY <1>3, <2>1 DEF Cut
    <2>3. WriterAtCut(0)'
        BY <1>4 DEF WriterAtCut
    <2>. QED
        BY <1>1, <1>2, <2>1, <2>2, <2>3 DEF Kept
<1>8. AddsTheLast'
    BY <1>4 DEF AddsTheLast
<1>9. ReaderInv'
    <2>1. phase = "serving" => Size' = stored
        BY <1>1, <1>2, <1>3 DEF AddsTheLast
    <2>. QED
        BY <1>1, <1>2, <1>3, <1>4, <2>1, ReaderKeeps
<1>. QED
    BY <1>1, <1>2, <1>5, <1>6, <1>7, <1>8, <1>9 DEF IInv, Store

-----------------------------------------------------------------------------
(***************************************************************************)
(* The steps of get_proof.                                                 *)
(***************************************************************************)

\* A step of the reader keeps what the others rely on.
LEMMA WritersKeep ==
    ASSUME IInv, UNCHANGED <<redis, stored, phase, writer>>
    PROVE  /\ Store' /\ AddsTheLast' /\ Size' = Size /\ WriterShape'
           /\ UNCHANGED <<level, empty, root, size>>
<1>1. Store /\ AddsTheLast /\ WriterShape
    BY DEF IInv, Shape
<1>2. Size' = Size /\ UNCHANGED <<level, empty, root, size>>
    BY DEF redis, Size, OrElse
<1>3. Store'
    <2>1. CASE root = Missing
        BY <1>1, <1>2, <2>1 DEF Store, Creating
    <2>2. CASE root # Missing
        <3>1. \A k : Cut(k) => Cut(k)'
            BY <1>2 DEF Cut
        <3>2. \A k : WriterAtCut(k) => WriterAtCut(k)'
            BY <1>2 DEF WriterAtCut
        <3>. QED
            BY <1>1, <1>2, <2>2, <3>1, <3>2 DEF Store, Kept
    <2>. QED
        BY <2>1, <2>2
<1>. QED
    BY <1>1, <1>2, <1>3 DEF AddsTheLast, WriterShape

LEMMA StepGetProof ==
    ASSUME IInv, NEW leaf_index \in 0 .. Len(Leaves) - 1, GetProof(leaf_index)
    PROVE  IInv'
<1>1. /\ phase = "serving" /\ leaf_index < Size
      /\ reader' = [Idle EXCEPT !.pc = "reading", !.leaf = leaf_index, !.stored = stored,
                                !.undisturbed = (writer.pc = "none")]
      /\ UNCHANGED <<redis, stored, phase, writer>>
    BY DEF GetProof
<1>2. TypeOK /\ Shape
    BY DEF IInv
<1>3. /\ Store' /\ AddsTheLast' /\ Size' = Size /\ WriterShape'
      /\ UNCHANGED <<level, empty, root, size>>
    BY <1>1, WritersKeep
<1>4. /\ reader'.pc = "reading" /\ reader'.d = 0 /\ reader'.leaf = leaf_index
      /\ reader'.proof = << >> /\ reader'.is_even = << >> /\ reader'.stored = stored
      /\ reader'.undisturbed = (writer.pc = "none") /\ ReaderShape'
    BY <1>1 DEF Idle, ReaderShape
<1>5. TypeOK'
    <2>1. 0 \in Levels
        BY DepthAssumption DEF Levels
    <2>. QED
        BY <1>1, <1>2, <1>3, <1>4, <2>1 DEF TypeOK
<1>6. Shape'
    BY <1>1, <1>2, <1>3, <1>4 DEF Shape
<1>7. ReaderInv'
    <2>1. leaf_index \in Nat /\ stored \in Nat
        BY <1>2, SizeIs, LeafCountNat DEF LeafCount
    <2>2. << >> = [i \in 1 .. 0 |-> << >>[i]]
        OBVIOUS
    <2>3. HasRead(Size)'
        BY <1>4 DEF HasRead
    <2>4. phase' = "serving" /\ reader'.leaf \in Nat /\ reader'.leaf < Size'
        BY <1>1, <1>3, <1>4, <2>1
    <2>5. reader'.stored \in Nat /\ reader'.stored <= stored' /\ reader'.pc # "done"
        BY <1>1, <1>4, <2>1
    <2>6. /\ reader'.proof = [i \in 1 .. reader'.d |-> reader'.proof[i]]
          /\ reader'.is_even = [i \in 1 .. reader'.d |-> reader'.is_even[i]]
        BY <1>4, <2>2
    <2>7. reader'.undisturbed \in BOOLEAN
        BY <1>4
    <2>8. ~ (reader'.undisturbed /\ writer'.pc # "none")
        BY <1>1, <1>4
    <2>. QED
        BY <2>3, <2>4, <2>5, <2>6, <2>7, <2>8 DEF ReaderInv
<1>. QED
    BY <1>3, <1>5, <1>6, <1>7 DEF IInv

\* What the reader finds when the tree has every deposit: no call has left it
\* half written.
LEMMA WholeAtRest ==
    ASSUME IInv, phase = "serving", Size = stored
    PROVE  /\ \A d \in Levels : level[d] = LevelAfter(Size, d) /\ empty[d] = EmptyHash(d)
           /\ root = RootOf(Trees[Size])
           /\ Size \in 0 .. LeafCount
<1>1. TypeOK /\ Store
    BY DEF IInv
<1>2. root # Missing /\ Kept
    BY <1>1 DEF Store, Creating
<1>3. Size \in 0 .. LeafCount /\ Size \in Nat
    BY <1>1, SizeIs, LeafCountNat
<1>4. PICK k \in 0 .. DEPTH + 1 : Cut(k)
    BY <1>2 DEF Kept
<1>5. k = 0
    BY <1>3, <1>4, DepthAssumption DEF Cut
<1>6. \A d \in Levels : ~ (d < k)
    BY <1>5, DepthAssumption DEF Levels
<1>7. \A d \in Levels : level[d] = LevelAfter(Size, d)
    BY <1>4, <1>6 DEF Cut
<1>8. root = RootOf(Trees[Size])
    BY <1>4, <1>5, DepthAssumption DEF Cut
<1>. QED
    BY <1>2, <1>3, <1>7, <1>8 DEF Kept

LEMMA AppendIs ==
    ASSUME NEW d \in Nat, NEW s, HasLength(s, d), NEW v
    PROVE  /\ HasLength(Append(s, v), d + 1)
           /\ Len(Append(s, v)) = d + 1
           /\ Append(s, v)[d + 1] = v
           /\ \A i \in 1 .. d : Append(s, v)[i] = s[i]
<1>. DEFINE S == {s[k] : k \in 1 .. d} \cup {v}
            t == Append(s, v)
<1>1. s \in Seq(S) /\ Len(s) = d
    <2>1. \A k \in 1 .. d : s[k] \in S
        OBVIOUS
    <2>. HIDE DEF S
    <2>. QED
        BY <2>1 DEF HasLength
<1>2. v \in S
    OBVIOUS
<1>3. /\ t \in Seq(S) /\ Len(t) = d + 1 /\ t[d + 1] = v
      /\ \A i \in 1 .. d : t[i] = s[i]
    <2>. HIDE DEF S
    <2>. QED
        BY <1>1, <1>2
<1>4. HasLength(t, d + 1)
    <2>. HIDE DEF S, t
    <2>. QED
        BY <1>3 DEF HasLength
<1>. QED
    BY <1>3, <1>4

LEMMA StepReadLevel ==
    ASSUME IInv, ReadLevel
    PROVE  IInv'
<1>. USE DepthAssumption
<1>. DEFINE d   == reader.d
            e   == d + 1
            idx == reader.leaf \div TwoTo[d]
            vec == OrElse(level[d], <<EMPTY_LEAF>>)
            sib == At(vec, Sibling(idx), d)
<1>1. /\ reader.pc = "reading" /\ d < DEPTH
      /\ reader' = [reader EXCEPT !.d = e,
                                  !.proof = Append(reader.proof, sib),
                                  !.is_even = Append(reader.is_even, IsEven(idx)),
                                  !.undisturbed = reader.undisturbed /\ Quiet]
      /\ UNCHANGED <<redis, stored, phase, writer>>
    BY DEF ReadLevel, ProofLength, SiblingPlace
<1>2. /\ TypeOK /\ Shape /\ ReaderInv /\ ReaderShape
    BY DEF IInv, Shape
<1>3. /\ Store' /\ AddsTheLast' /\ Size' = Size /\ WriterShape'
      /\ UNCHANGED <<level, empty, root, size>>
    BY <1>1, WritersKeep
<1>4. d \in Levels /\ e \in Levels /\ d \in 0 .. DEPTH /\ d \in Nat /\ e = d + 1
    BY <1>1, <1>2 DEF TypeOK, Levels
<1>5. /\ phase = "serving"
      /\ reader.leaf \in Nat /\ reader.leaf < Size
      /\ reader.stored \in Nat /\ reader.stored <= stored
      /\ HasLength(reader.proof, d) /\ HasLength(reader.is_even, d)
      /\ reader.undisturbed \in BOOLEAN
      /\ reader.undisturbed /\ writer.pc # "none" => reader.stored < stored
      /\ reader.undisturbed /\ reader.stored = Size => HasRead(Size)
    BY <1>1, <1>2 DEF ReaderInv, HasLength
<1>. HIDE DEF e, idx, sib
<1>6. /\ reader'.pc = "reading" /\ reader'.d = e /\ reader'.leaf = reader.leaf
      /\ reader'.proof = Append(reader.proof, sib)
      /\ reader'.is_even = Append(reader.is_even, IsEven(idx))
      /\ reader'.stored = reader.stored
      /\ reader'.undisturbed = (reader.undisturbed /\ Quiet)
      /\ ReaderShape'
    BY <1>1, <1>2 DEF ReaderShape
<1>7. /\ HasLength(reader'.proof, e) /\ Len(reader'.proof) = e
      /\ HasLength(reader'.is_even, e)
      /\ reader'.proof[e] = sib /\ reader'.is_even[e] = IsEven(idx)
      /\ \A i \in 1 .. d : /\ reader'.proof[i] = reader.proof[i]
                           /\ reader'.is_even[i] = reader.is_even[i]
    <2>1. /\ HasLength(reader'.proof, d + 1) /\ Len(reader'.proof) = d + 1
          /\ reader'.proof[d + 1] = sib
          /\ \A i \in 1 .. d : reader'.proof[i] = reader.proof[i]
        <3>. DEFINE s == reader.proof
        <3>1. HasLength(s, d) /\ d \in Nat /\ reader'.proof = Append(s, sib)
            BY <1>4, <1>5, <1>6
        <3>. HIDE DEF s, d
        <3>2. /\ HasLength(Append(s, sib), d + 1) /\ Len(Append(s, sib)) = d + 1
              /\ Append(s, sib)[d + 1] = sib
              /\ \A i \in 1 .. d : Append(s, sib)[i] = s[i]
            BY <3>1, AppendIs
        <3>. QED
            BY <3>1, <3>2 DEF s
    <2>2. /\ HasLength(reader'.is_even, d + 1)
          /\ reader'.is_even[d + 1] = IsEven(idx)
          /\ \A i \in 1 .. d : reader'.is_even[i] = reader.is_even[i]
        <3>. DEFINE s == reader.is_even
                    v == IsEven(idx)
        <3>1. HasLength(s, d) /\ d \in Nat /\ reader'.is_even = Append(s, v)
            BY <1>4, <1>5, <1>6
        <3>. HIDE DEF s, d, v
        <3>2. /\ HasLength(Append(s, v), d + 1) /\ Append(s, v)[d + 1] = v
              /\ \A i \in 1 .. d : Append(s, v)[i] = s[i]
            BY <3>1, AppendIs
        <3>. QED
            BY <3>1, <3>2 DEF s, v
    <2>. QED
        BY <1>4, <2>1, <2>2
<1>8. TypeOK'
    BY <1>1, <1>2, <1>3, <1>4, <1>6, <1>7 DEF TypeOK
<1>9. Shape'
    BY <1>1, <1>2, <1>3, <1>6 DEF Shape
<1>10. ASSUME reader'.undisturbed, reader'.stored = Size'
       PROVE  HasRead(Size)'
    <2>1. reader.undisturbed /\ Quiet /\ reader.stored = Size
        BY <1>3, <1>6, <1>10
    <2>2. Size = stored
        BY <2>1 DEF Quiet
    <2>3. /\ level[d] = LevelAfter(Size, d) /\ empty[d] = EmptyHash(d)
          /\ Size \in 0 .. LeafCount
        BY <1>4, <1>5, <2>2, WholeAtRest
    <2>4. vec = LevelAfter(Size, d)
        BY <1>4, <2>3, LevelSet
    <2>5. idx = Spot(reader.leaf, d)
        BY DEF idx, Spot
    <2>6. idx \in Places(d)
        <3>1. reader.leaf < TwoTo[DEPTH]
            BY <1>5, <2>3, LeafCountNat, TwoToFacts DEF Levels
        <3>2. Spot(reader.leaf, d) < TwoTo[DEPTH - d] /\ Spot(reader.leaf, d) \in Nat
            BY <1>4, <1>5, <3>1, SpotBound, SpotFacts
        <3>3. TwoTo[DEPTH - d] \in Nat
            BY <1>4, TwoToFacts DEF Levels
        <3>. QED
            BY <2>5, <3>2, <3>3 DEF Places
    <2>7. Sibling(idx) \in Places(d)
        BY <1>1, <1>4, <2>6, PlaceFacts
    <2>8. sib = Trees[Size][d][Sibling(idx)]
        <3>. DEFINE n == Size
        <3>1. n \in 0 .. LeafCount /\ vec = LevelAfter(n, d)
            BY <2>3, <2>4
        <3>. HIDE DEF n, vec
        <3>2. At(LevelAfter(n, d), Sibling(idx), d) = Trees[n][d][Sibling(idx)]
            BY <1>4, <2>3, <2>7, <3>1, AtIs
        <3>. QED
            BY <3>1, <3>2 DEF sib, n
    <2>9. HasRead(Size)
        BY <1>5, <2>1
    <2>10. ASSUME NEW i \in 1 .. e
           PROVE  /\ reader'.proof[i]
                         = Trees[Size'][i - 1][Sibling(reader'.leaf \div TwoTo[i - 1])]
                  /\ reader'.is_even[i] = IsEven(reader'.leaf \div TwoTo[i - 1])
        <3>1. CASE i = e
            <4>1. i - 1 = d
                BY <1>4, <3>1
            <4>2. reader'.leaf \div TwoTo[i - 1] = idx
                BY <1>6, <4>1 DEF idx
            <4>. QED
                BY <1>3, <1>7, <2>8, <3>1, <4>1, <4>2
        <3>2. CASE i # e
            <4>1. i \in 1 .. d
                BY <1>4, <3>2
            <4>2. /\ reader.proof[i]
                         = Trees[Size][i - 1][Sibling(reader.leaf \div TwoTo[i - 1])]
                  /\ reader.is_even[i] = IsEven(reader.leaf \div TwoTo[i - 1])
                BY <2>9, <4>1 DEF HasRead
            <4>. QED
                BY <1>3, <1>6, <1>7, <4>1, <4>2
        <3>. QED
            BY <3>1, <3>2
    <2>. QED
        BY <1>6, <2>10 DEF HasRead
<1>11. ReaderInv'
    <2>1. phase' = "serving" /\ reader'.leaf \in Nat /\ reader'.leaf < Size'
        BY <1>1, <1>3, <1>5, <1>6
    <2>2. reader'.stored \in Nat /\ reader'.stored <= stored' /\ reader'.pc # "done"
        BY <1>1, <1>5, <1>6
    <2>3. /\ reader'.proof = [i \in 1 .. reader'.d |-> reader'.proof[i]]
          /\ reader'.is_even = [i \in 1 .. reader'.d |-> reader'.is_even[i]]
        BY <1>6, <1>7 DEF HasLength
    <2>4. reader'.undisturbed \in BOOLEAN
        BY <1>6
    <2>5. ~ (reader'.undisturbed /\ writer'.pc # "none")
        BY <1>1, <1>6 DEF Quiet
    <2>. QED
        BY <1>10, <2>1, <2>2, <2>3, <2>4, <2>5 DEF ReaderInv
<1>. QED
    BY <1>3, <1>8, <1>9, <1>11 DEF IInv

LEMMA StepReadRoot ==
    ASSUME IInv, ReadRoot
    PROVE  IInv'
<1>. USE DepthAssumption
<1>1. /\ reader.pc = "reading" /\ reader.d = DEPTH
      /\ reader' = [reader EXCEPT !.pc = "done", !.root = OrElse(root, EMPTY_LEAF),
                                  !.undisturbed = reader.undisturbed /\ Quiet]
      /\ UNCHANGED <<redis, stored, phase, writer>>
    BY DEF ReadRoot, ProofLength
<1>2. TypeOK /\ Shape /\ ReaderInv /\ ReaderShape
    BY DEF IInv, Shape
<1>3. /\ Store' /\ AddsTheLast' /\ Size' = Size /\ WriterShape'
      /\ UNCHANGED <<level, empty, root, size>>
    BY <1>1, WritersKeep
<1>4. /\ phase = "serving"
      /\ reader.leaf \in Nat /\ reader.leaf < Size
      /\ reader.stored \in Nat /\ reader.stored <= stored
      /\ reader.proof = [i \in 1 .. reader.d |-> reader.proof[i]]
      /\ reader.is_even = [i \in 1 .. reader.d |-> reader.is_even[i]]
      /\ reader.undisturbed \in BOOLEAN
      /\ reader.undisturbed /\ reader.stored = Size => HasRead(Size)
    BY <1>1, <1>2 DEF ReaderInv
<1>5. /\ reader'.pc = "done" /\ reader'.d = reader.d /\ reader'.leaf = reader.leaf
      /\ reader'.proof = reader.proof /\ reader'.is_even = reader.is_even
      /\ reader'.root = OrElse(root, EMPTY_LEAF)
      /\ reader'.stored = reader.stored
      /\ reader'.undisturbed = (reader.undisturbed /\ Quiet)
      /\ ReaderShape'
    BY <1>1, <1>2 DEF ReaderShape
<1>6. TypeOK'
    BY <1>1, <1>2, <1>3, <1>5 DEF TypeOK
<1>7. Shape'
    BY <1>1, <1>2, <1>3, <1>5 DEF Shape
<1>8. ASSUME reader'.undisturbed, reader'.stored = Size'
      PROVE  HasRead(Size)'
    <2>1. reader.undisturbed /\ Quiet /\ reader.stored = Size
        BY <1>3, <1>5, <1>8
    <2>2. Size = stored
        BY <2>1 DEF Quiet
    <2>3. root = RootOf(Trees[Size]) /\ Size \in 0 .. LeafCount
        BY <1>4, <2>2, WholeAtRest
    <2>4. reader'.root = RootOf(Trees[Size'])
        <3>. DEFINE n == Size
        <3>1. n \in 0 .. LeafCount /\ root = RootOf(Trees[n])
            BY <2>3
        <3>. HIDE DEF n
        <3>2. OrElse(root, EMPTY_LEAF) = RootOf(Trees[n])
            BY <3>1, RootSet
        <3>. QED
            BY <1>3, <1>5, <3>2 DEF n
    <2>5. HasRead(Size)
        BY <1>4, <2>1
    <2>6. ASSUME NEW i \in 1 .. reader'.d
          PROVE  /\ reader'.proof[i]
                        = Trees[Size'][i - 1][Sibling(reader'.leaf \div TwoTo[i - 1])]
                 /\ reader'.is_even[i] = IsEven(reader'.leaf \div TwoTo[i - 1])
        <3>1. i \in 1 .. reader.d
            BY <1>5
        <3>2. /\ reader.proof[i]
                     = Trees[Size][i - 1][Sibling(reader.leaf \div TwoTo[i - 1])]
              /\ reader.is_even[i] = IsEven(reader.leaf \div TwoTo[i - 1])
            BY <2>5, <3>1 DEF HasRead
        <3>. QED
            BY <1>3, <1>5, <3>2
    <2>. QED
        BY <2>4, <2>6 DEF HasRead
<1>9. ReaderInv'
    <2>1. phase' = "serving" /\ reader'.leaf \in Nat /\ reader'.leaf < Size'
        BY <1>1, <1>3, <1>4, <1>5
    <2>2. reader'.stored \in Nat /\ reader'.stored <= stored' /\ reader'.d = DEPTH
        BY <1>1, <1>4, <1>5
    <2>3. /\ reader'.proof = [i \in 1 .. reader'.d |-> reader'.proof[i]]
          /\ reader'.is_even = [i \in 1 .. reader'.d |-> reader'.is_even[i]]
        BY <1>4, <1>5
    <2>4. reader'.undisturbed \in BOOLEAN
        BY <1>5
    <2>5. ~ (reader'.undisturbed /\ writer'.pc # "none")
        BY <1>1, <1>5 DEF Quiet
    <2>. QED
        BY <1>8, <2>1, <2>2, <2>3, <2>4, <2>5 DEF ReaderInv
<1>. QED
    BY <1>3, <1>6, <1>7, <1>9 DEF IInv

-----------------------------------------------------------------------------
(***************************************************************************)
(* The theorems.                                                           *)
(***************************************************************************)

LEMMA StepStutters ==
    ASSUME IInv, UNCHANGED vars
    PROVE  IInv'
<1>1. /\ UNCHANGED <<redis, stored, phase, writer>> /\ reader' = reader
      /\ TypeOK /\ Shape /\ ReaderInv
    BY DEF IInv, vars, redis
<1>2. /\ Store' /\ AddsTheLast' /\ Size' = Size /\ WriterShape'
      /\ UNCHANGED <<level, empty, root, size>>
    BY <1>1, WritersKeep
<1>3. TypeOK' /\ Shape'
    BY <1>1, <1>2 DEF TypeOK, Shape, ReaderShape
<1>4. Size \in Nat /\ stored \in Nat
    BY <1>1, SizeIs, LeafCountNat
<1>5. ReaderInv'
    BY <1>1, <1>2, <1>4, ReaderKeeps
<1>. QED
    BY <1>2, <1>3, <1>5 DEF IInv

LEMMA InvStep ==
    ASSUME IInv, [Next]_vars
    PROVE  IInv'
<1>1. CASE StartInit
    BY <1>1, StepStartInit
<1>2. CASE InitLevel
    BY <1>2, StepInitLevel
<1>3. CASE InitRoot
    BY <1>3, StepInitRoot
<1>4. CASE InitSize
    BY <1>4, StepInitSize
<1>5. CASE StartSync
    BY <1>5, StepStartSync
<1>6. CASE Serve
    BY <1>6, StepServe
<1>7. CASE AddLeafSkip
    BY <1>7, StepEnds DEF AddLeafSkip
<1>8. CASE AddLeafLevel0
    BY <1>8, StepAddLeafLevel0
<1>9. CASE AddLeafLevel
    BY <1>9, StepAddLeafLevel
<1>10. CASE AddLeafRoot
    BY <1>10, StepAddLeafRoot
<1>11. CASE AddLeafSize
    BY <1>11, StepAddLeafSize
<1>12. CASE SaveDeposit
    BY <1>12, StepSaveDeposit
<1>13. CASE \E leaf_index \in 0 .. (Len(Leaves) - 1) : GetProof(leaf_index)
    BY <1>13, StepGetProof
<1>14. CASE ReadLevel
    BY <1>14, StepReadLevel
<1>15. CASE ReadRoot
    BY <1>15, StepReadRoot
<1>16. CASE CallFails
    BY <1>16, StepEnds DEF CallFails
<1>17. CASE Crash
    BY <1>17, StepCrash
<1>18. CASE UNCHANGED vars
    BY <1>18, StepStutters
<1>. QED
    BY <1>1, <1>2, <1>3, <1>4, <1>5, <1>6, <1>7, <1>8, <1>9, <1>10, <1>11, <1>12,
       <1>13, <1>14, <1>15, <1>16, <1>17, <1>18 DEF Next, Startup, AddLeaf

THEOREM Invariant == Spec => []IInv
<1>1. Init => IInv
    BY InvInit
<1>2. IInv /\ [Next]_vars => IInv'
    BY InvStep
<1>. QED
    BY <1>1, <1>2, PTL DEF Spec

\* The store, the calls and the reader keep their types.
THEOREM TypeCorrect == Spec => []TypeOK
<1>1. IInv => TypeOK
    BY DEF IInv
<1>. QED
    BY <1>1, Invariant, PTL

\* Wherever calls failed and however often the backend stopped, Redis is a cut
\* between the trees of two consecutive sizes.
THEOREM StoreIsCutHolds == Spec => []StoreIsCut
<1>1. ASSUME IInv
      PROVE  StoreIsCut
    <2>. SUFFICES ASSUME root # Missing
                  PROVE  StoreIsCut
        BY DEF StoreIsCut
    <2>1. Kept /\ TypeOK
        BY <1>1 DEF IInv, Store
    <2>2. PICK k \in 0 .. DEPTH + 1 : Cut(k)
        BY <2>1 DEF Kept
    <2>3. Size < stored => Size < Len(Leaves)
        BY <2>1, SizeIs, LeafCountNat DEF LeafCount
    <2>. QED
        BY <2>2, <2>3 DEF Cut, StoreIsCut
<1>. QED
    BY <1>1, Invariant, PTL

\* The size counts a leaf only when the whole tree with it is in Redis.
THEOREM SizeCommitsHolds == Spec => SizeCommits
<1>. DEFINE Counts == Size' # Size =>
                /\ Size' = Size + 1
                /\ root' = RootOf(Trees[Size'])
                /\ \A d \in Levels : level'[d] = LevelAfter(Size', d)
<1>1. ASSUME IInv, [Next]_vars
      PROVE  Counts
    <2>1. CASE AddLeafSize
        BY <1>1, <2>1, Commits
    <2>2. CASE InitSize
        <3>1. writer.pc = "init_size" /\ size' = 0 /\ TypeOK /\ Store
            BY <1>1, <2>2 DEF InitSize, IInv
        <3>2. size = Missing
            BY <3>1 DEF Store, Creating, Kept, WriterAtCut
        <3>3. Size = 0 /\ Size' = 0
            BY <3>1, <3>2, SizeIs, NumberSet DEF Size
        <3>. QED
            BY <3>3
    <2>3. CASE ~ AddLeafSize /\ ~ InitSize
        <3>1. size' = size
            BY <1>1, <2>3
               DEF Next, Startup, AddLeaf, StartInit, InitLevel, WriteEmptyLevel,
                   InitRoot, StartSync, Serve, AddLeafSkip, AddLeafLevel0,
                   AddLeafLevel, AddLeafRoot, SaveDeposit, GetProof, ReadLevel,
                   ReadRoot, CallFails, Crash, redis, vars
        <3>. QED
            BY <3>1 DEF Size, OrElse
    <2>. QED
        BY <2>1, <2>2, <2>3
<1>. HIDE DEF Counts
<1>2. IInv /\ [Next]_vars => [Counts]_vars
    BY <1>1
<1>3. Spec => [][Counts]_vars
    BY <1>2, Invariant, PTL DEF Spec
<1>. QED
    BY <1>3 DEF SizeCommits, Counts

\* A proof read at rest from a tree that has every deposit is the one cut from a
\* whole tree, and the circuit folds it into the root read with it.
THEOREM ProofVerifies == Spec => []ProofVerifiesInSync
<1>1. ASSUME IInv
      PROVE  ProofVerifiesInSync
    <2>. DEFINE n == Size
                l == reader.leaf
    <2>. SUFFICES ASSUME reader.pc = "done", reader.undisturbed, reader.stored = Size
                  PROVE  /\ [proof |-> reader.proof, isEven |-> reader.is_even]
                               = buildProof(Trees[n], l)
                         /\ compute_merkle_root(Leaves[l + 1], reader.proof, reader.is_even)
                               = reader.root
        BY DEF ProofVerifiesInSync
    <2>1. /\ l \in Nat /\ l < n /\ reader.d = DEPTH
          /\ reader.proof = [i \in 1 .. DEPTH |-> reader.proof[i]]
          /\ reader.is_even = [i \in 1 .. DEPTH |-> reader.is_even[i]]
          /\ HasRead(n)
        BY <1>1 DEF IInv, ReaderInv
    <2>2. n \in 0 .. LeafCount
        BY <1>1, SizeIs DEF IInv
    <2>3. /\ \A i \in 1 .. DEPTH :
                 /\ reader.proof[i] = Trees[n][i - 1][Sibling(l \div TwoTo[i - 1])]
                 /\ reader.is_even[i] = IsEven(l \div TwoTo[i - 1])
          /\ reader.root = RootOf(Trees[n])
        BY <2>1 DEF HasRead
    <2>. HIDE DEF n, l
    <2>4. /\ reader.proof = [i \in 1 .. DEPTH |->
                                Trees[n][i - 1][Sibling(l \div TwoTo[i - 1])]]
          /\ reader.is_even = [i \in 1 .. DEPTH |-> IsEven(l \div TwoTo[i - 1])]
        BY <2>1, <2>3
    <2>5. [proof |-> reader.proof, isEven |-> reader.is_even] = buildProof(Trees[n], l)
        BY <2>4 DEF buildProof
    <2>6. compute_merkle_root(Leaves[l + 1], reader.proof, reader.is_even) = RootOf(Trees[n])
        <3>. DEFINE path  == reader.proof
                    sides == reader.is_even
        <3>1. \A d \in 1 .. DEPTH :
                  /\ path[d] = Trees[n][d - 1][Sibling(Spot(l, d - 1))]
                  /\ sides[d] = IsEven(Spot(l, d - 1))
            BY <2>3 DEF Spot
        <3>2. l \in Nat /\ l < n
            BY <2>1
        <3>. HIDE DEF path, sides
        <3>3. compute_merkle_root(Leaves[l + 1], path, sides) = RootOf(Trees[n])
            BY <2>2, <3>1, <3>2, ProofFolds
        <3>. QED
            BY <3>3 DEF path, sides
    <2>. QED
        BY <2>3, <2>5, <2>6
<1>. QED
    BY <1>1, Invariant, PTL

\* A proof the merkle service cuts for a leaf of a tree folds, in the circuit,
\* into the root of that tree (poseidon.js:63-78, merkle_tree.nr:3-24).
THEOREM BuiltProofVerifies ==
    \A n \in 0 .. Len(Leaves) : \A l \in 0 .. n - 1 :
        compute_merkle_root(Leaves[l + 1], buildProof(Trees[n], l).proof,
                            buildProof(Trees[n], l).isEven) = RootOf(Trees[n])
<1>. SUFFICES ASSUME NEW n \in 0 .. LeafCount, NEW l \in 0 .. n - 1
              PROVE  compute_merkle_root(Leaves[l + 1], buildProof(Trees[n], l).proof,
                                         buildProof(Trees[n], l).isEven)
                         = RootOf(Trees[n])
    BY DEF LeafCount
<1>. DEFINE path  == buildProof(Trees[n], l).proof
            sides == buildProof(Trees[n], l).isEven
<1>1. \A d \in 1 .. DEPTH :
          /\ path[d] = Trees[n][d - 1][Sibling(Spot(l, d - 1))]
          /\ sides[d] = IsEven(Spot(l, d - 1))
    BY DEF buildProof, Spot
<1>2. l \in Nat /\ l < n
    BY LeafCountNat
<1>. HIDE DEF path, sides
<1>3. compute_merkle_root(Leaves[l + 1], path, sides) = RootOf(Trees[n])
    BY <1>1, <1>2, ProofFolds
<1>. QED
    BY <1>3 DEF path, sides
=============================================================================
