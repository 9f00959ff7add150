----------------------------- MODULE MerkleTree -----------------------------
(***************************************************************************)
(* The Merkle tree of commitments, as the repository computes it in three  *)
(* places: the merkle service builds it whole (app/merkle/src/poseidon.js) *)
(* and cuts proofs from it, the circuit folds a proof into a root          *)
(* (app/circuits/withdrawal), and the backend keeps it incrementally       *)
(* (module TreeStore).  Poseidon2 is a constant operator.                  *)
(***************************************************************************)
EXTENDS Integers, Sequences

CONSTANTS
    DEPTH,
    EMPTY_LEAF,
    Hash(_, _)     \* poseidon2 of two field elements

ASSUME DepthAssumption == DEPTH \in Nat \ {0}

Levels == 0 .. DEPTH

\* 1 << d, doubled level by level.
TwoTo[d \in Levels] == IF d = 0 THEN 1 ELSE 2 * TwoTo[d - 1]

\* The sibling of a node and the side a node is on.
Sibling(idx) == IF idx % 2 = 0 THEN idx + 1 ELSE idx - 1
IsEven(idx) == idx % 2 = 0

\* buildTree: level d of the full tree over the commitments, as a function on
\* node positions; commitments beyond the last leaf are dropped.
buildTree(commitments) ==
    LET tree[d \in Levels] ==
            IF d = 0
            THEN [k \in 0 .. TwoTo[DEPTH] - 1 |->
                    IF k < Len(commitments) THEN commitments[k + 1] ELSE EMPTY_LEAF]
            ELSE [k \in 0 .. TwoTo[DEPTH - d] - 1 |->
                    Hash(tree[d - 1][2 * k], tree[d - 1][2 * k + 1])]
    IN  tree

RootOf(tree) == tree[DEPTH][0]

\* buildProof: the siblings on the way up, and the sides.
buildProof(tree, leafIndex) ==
    [proof  |-> [d \in 1 .. DEPTH |-> tree[d - 1][Sibling(leafIndex \div TwoTo[d - 1])]],
     isEven |-> [d \in 1 .. DEPTH |-> IsEven(leafIndex \div TwoTo[d - 1])]]

\* compute_merkle_root of the circuit: the leaf hashed with one sibling a level.
compute_merkle_root(leaf, path, is_even) ==
    LET current[d \in Levels] ==
            IF d = 0 THEN leaf
            ELSE IF is_even[d] THEN Hash(current[d - 1], path[d])
                               ELSE Hash(path[d], current[d - 1])
    IN  current[DEPTH]
=============================================================================
