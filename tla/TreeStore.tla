------------------------------ MODULE TreeStore ------------------------------
(***************************************************************************)
(* The incremental Merkle tree the backend keeps in Redis (tree.rs), its   *)
(* two writers and its reader:                                             *)
(*   - startup (main.rs) creates the empty tree if there is none and adds  *)
(*     the leaves Postgres has beyond the tree's size, before it serves;   *)
(*   - the indexer saves a deposit in Postgres, then calls add_leaf;       *)
(*   - an HTTP request calls get_proof.                                    *)
(* Every Redis write is a step.  The writers' reads are part of the step   *)
(* that uses them, since startup ends before the indexer starts and no     *)
(* other task writes these keys.  The reader reads one key per step.       *)
(*                                                                         *)
(* A step of add_leaf may fail (the hash service or Redis), which ends the *)
(* call where it is; a crash ends every task and restarts the backend.     *)
(* The commitments are those of the chain, in order: Leaves.               *)
(***************************************************************************)
EXTENDS MerkleTree

CONSTANTS
    Leaves,        \* the commitments that will be deposited, in order
    Missing,       \* a Redis key that is not set
    MaxFailures,   \* bound on failed calls
    MaxCrashes     \* bound on restarts

ASSUME LeavesAssumption ==
    /\ Leaves \in Seq({Leaves[i] : i \in DOMAIN Leaves})
    /\ Len(Leaves) <= TwoTo[DEPTH]

VARIABLES
    level,    \* tree:{pool}:level:{d}
    empty,    \* tree:{pool}:empty:{d}
    root,     \* tree:{pool}:root
    size,     \* tree:{pool}:size
    stored,   \* how many commitments Postgres has
    phase,    \* "starting" (main's sync) or "serving"
    writer,   \* the call in progress: its place, level, leaf and locals
    reader,   \* a get_proof call and what it has read
    failures, \* failed calls so far
    crashes   \* restarts so far

redis == <<level, empty, root, size>>
vars == <<level, empty, root, size, stored, phase, writer, reader, failures, crashes>>

-----------------------------------------------------------------------------
NoCall == [pc |-> "none", d |-> 0, leaf |-> 0, current_level |-> << >>]

Idle == [pc |-> "idle", d |-> 0, leaf |-> 0, proof |-> << >>, is_even |-> << >>,
         root |-> Missing, stored |-> 0, undisturbed |-> FALSE]

OrElse(value, default) == IF value = Missing THEN default ELSE value

\* get_tree_size(..).unwrap_or(0)
Size == OrElse(size, 0)

\* vec[idx] of a Redis level, or the empty hash of that level beyond its end.
At(vec, idx, d) ==
    IF idx < Len(vec) THEN vec[idx + 1] ELSE OrElse(empty[d], EMPTY_LEAF)

\* Grow vec until it has place idx, then write it.
PutAt(vec, idx, padding, value) ==
    LET padded == vec \o [k \in 1 .. (idx + 1 - Len(vec)) |-> padding]
    IN  [padded EXCEPT ![idx + 1] = value]

Init ==
    /\ level = [d \in Levels |-> Missing]
    /\ empty = [d \in Levels |-> Missing]
    /\ root = Missing
    /\ size = Missing
    /\ stored = 0
    /\ phase = "starting"
    /\ writer = NoCall
    /\ reader = Idle
    /\ failures = 0
    /\ crashes = 0

-----------------------------------------------------------------------------
(***************************************************************************)
(* init_empty_tree, called by main when there is neither a size nor a root.*)
(***************************************************************************)

\* The empty hash of level d and the level that holds it.
WriteEmptyLevel(d, hash) ==
    /\ empty' = [empty EXCEPT ![d] = hash]
    /\ level' = [level EXCEPT ![d] = <<hash>>]
    /\ writer' = [writer EXCEPT !.pc = IF d = DEPTH THEN "init_root" ELSE "init_level",
                                !.d = d,
                                !.current_level = <<hash>>]
    /\ UNCHANGED <<root, size, stored, phase, reader, failures, crashes>>

StartInit ==
    /\ phase = "starting"
    /\ writer.pc = "none"
    /\ Size = 0 /\ root = Missing
    /\ WriteEmptyLevel(0, EMPTY_LEAF)

InitLevel ==
    /\ writer.pc = "init_level"
    /\ LET current == writer.current_level[1]
       IN  WriteEmptyLevel(writer.d + 1, Hash(current, current))

InitRoot ==
    /\ writer.pc = "init_root"
    /\ root' = writer.current_level[1]
    /\ writer' = [writer EXCEPT !.pc = "init_size"]
    /\ UNCHANGED <<level, empty, size, stored, phase, reader, failures, crashes>>

InitSize ==
    /\ writer.pc = "init_size"
    /\ size' = 0
    /\ writer' = NoCall
    /\ UNCHANGED <<level, empty, root, stored, phase, reader, failures, crashes>>

-----------------------------------------------------------------------------
(***************************************************************************)
(* The callers of add_leaf.                                                *)
(***************************************************************************)

CallAddLeaf(leaf_index) ==
    writer' = [NoCall EXCEPT !.pc = "size", !.leaf = leaf_index]

\* Mutant: one missing leaf is not worth a sync.
NeedsSync_two == stored > Size + 1

\* main: db_commitments.len() > current_size
NeedsSync == stored > Size

\* main: for (leaf_index, commitment) in &db_commitments[current_size..]
StartSync ==
    /\ phase = "starting"
    /\ writer.pc = "none"
    /\ root # Missing
    /\ NeedsSync
    /\ CallAddLeaf(Size)
    /\ UNCHANGED <<redis, stored, phase, reader, failures, crashes>>

\* main: the tree is in sync, the indexer and the HTTP server start.
Serve ==
    /\ phase = "starting"
    /\ writer.pc = "none"
    /\ root # Missing
    /\ ~NeedsSync
    /\ phase' = "serving"
    /\ UNCHANGED <<redis, stored, writer, reader, failures, crashes>>

\* The indexer: save_deposit, then add_leaf for the same leaf.
SaveDeposit ==
    /\ phase = "serving"
    /\ writer.pc = "none"
    /\ stored < Len(Leaves)
    /\ stored' = stored + 1
    /\ CallAddLeaf(stored)
    /\ UNCHANGED <<redis, phase, reader, failures, crashes>>

-----------------------------------------------------------------------------
(***************************************************************************)
(* add_leaf.                                                               *)
(***************************************************************************)

\* Mutant: a leaf beyond the end is added too.
IsNextLeaf_beyond(leaf_index) == leaf_index >= Size

IsNextLeaf(leaf_index) == leaf_index = Size

\* A leaf other than the next one is left alone: added already, or skipped.
AddLeafSkip ==
    /\ writer.pc = "size"
    /\ ~IsNextLeaf(writer.leaf)
    /\ writer' = NoCall
    /\ UNCHANGED <<redis, stored, phase, reader, failures, crashes>>

\* The padded level 0 with the new leaf.
AddLeafLevel0 ==
    /\ writer.pc = "size"
    /\ IsNextLeaf(writer.leaf)
    /\ LET level0 == PutAt(OrElse(level[0], <<EMPTY_LEAF>>), writer.leaf,
                           EMPTY_LEAF, Leaves[writer.leaf + 1])
       IN  /\ level' = [level EXCEPT ![0] = level0]
           /\ writer' = [writer EXCEPT !.pc = "level",
                                       !.current_level = level0]
    /\ UNCHANGED <<empty, root, size, stored, phase, reader, failures, crashes>>

\* Mutant: the sibling is always on the right.
ParentOf_right(current_level, idx, d) ==
    Hash(At(current_level, idx, d), At(current_level, Sibling(idx), d))

\* The parent of the node at idx, its sibling taken from the level or empty.
ParentOf(current_level, idx, d) ==
    LET node    == At(current_level, idx, d)
        sibling == At(current_level, Sibling(idx), d)
    IN  IF IsEven(idx) THEN Hash(node, sibling) ELSE Hash(sibling, node)

\* One turn of the loop: hash the pair of level d, write level d + 1.
AddLeafLevel ==
    /\ writer.pc = "level"
    /\ writer.d < DEPTH
    /\ LET d          == writer.d
           idx        == writer.leaf \div TwoTo[d]
           parent     == ParentOf(writer.current_level, idx, d)
           next_level == PutAt(OrElse(level[d + 1], <<EMPTY_LEAF>>), idx \div 2,
                               OrElse(empty[d + 1], EMPTY_LEAF), parent)
       IN  /\ level' = [level EXCEPT ![d + 1] = next_level]
           /\ writer' = [writer EXCEPT !.d = d + 1, !.current_level = next_level]
    /\ UNCHANGED <<empty, root, size, stored, phase, reader, failures, crashes>>

AddLeafRoot ==
    /\ writer.pc = "level"
    /\ writer.d = DEPTH
    /\ root' = writer.current_level[1]
    /\ writer' = [writer EXCEPT !.pc = "commit"]
    /\ UNCHANGED <<level, empty, size, stored, phase, reader, failures, crashes>>

AddLeafSize ==
    /\ writer.pc = "commit"
    /\ size' = Size + 1
    /\ writer' = NoCall
    /\ UNCHANGED <<level, empty, root, stored, phase, reader, failures, crashes>>

\* The hash service or Redis fails: the call returns the error.  The indexer
\* logs it and goes on; at startup the process exits and is started again.
CallFails ==
    /\ failures < MaxFailures
    /\ writer.pc # "none"
    /\ writer' = NoCall
    /\ failures' = failures + 1
    /\ UNCHANGED <<redis, stored, phase, reader, crashes>>

\* The process stops anywhere; Redis and Postgres keep what was written.
Crash ==
    /\ crashes < MaxCrashes
    /\ crashes' = crashes + 1
    /\ phase' = "starting"
    /\ writer' = NoCall
    /\ reader' = Idle
    /\ UNCHANGED <<redis, stored, failures>>

-----------------------------------------------------------------------------
(***************************************************************************)
(* get_proof: one Redis read a step.  Two fields are history: `stored`, the*)
(* deposits saved when the call began, and `undisturbed`, that no add_leaf *)
(* ran during the call (each one comes with a deposit saved).              *)
(***************************************************************************)

GetProof(leaf_index) ==
    /\ phase = "serving"
    /\ reader.pc \in {"idle", "done"}
    /\ leaf_index < Size
    /\ reader' = [Idle EXCEPT !.pc = "reading", !.leaf = leaf_index,
                              !.stored = stored,
                              !.undisturbed = (writer.pc = "none")]
    /\ UNCHANGED <<redis, stored, phase, writer, failures, crashes>>

Quiet == writer.pc = "none" /\ stored = reader.stored

\* Mutant: the loop reads the root level too.
ProofLength_more == DEPTH + 1

ProofLength == DEPTH

\* Mutant: the sibling is looked up at the node's own place.
SiblingPlace_own(idx) == idx

SiblingPlace(idx) == Sibling(idx)

ReadLevel ==
    /\ reader.pc = "reading"
    /\ reader.d < ProofLength
    /\ LET d   == reader.d
           idx == reader.leaf \div TwoTo[d]
           vec == OrElse(level[d], <<EMPTY_LEAF>>)
       IN  reader' = [reader EXCEPT
                        !.d = d + 1,
                        !.proof = Append(@, At(vec, SiblingPlace(idx), d)),
                        !.is_even = Append(@, IsEven(idx)),
                        !.undisturbed = @ /\ Quiet]
    /\ UNCHANGED <<redis, stored, phase, writer, failures, crashes>>

ReadRoot ==
    /\ reader.pc = "reading"
    /\ reader.d = ProofLength
    /\ reader' = [reader EXCEPT !.pc = "done", !.root = OrElse(root, EMPTY_LEAF),
                                !.undisturbed = @ /\ Quiet]
    /\ UNCHANGED <<redis, stored, phase, writer, failures, crashes>>

-----------------------------------------------------------------------------
Startup == StartInit \/ InitLevel \/ InitRoot \/ InitSize \/ StartSync \/ Serve

AddLeaf == AddLeafSkip \/ AddLeafLevel0 \/ AddLeafLevel \/ AddLeafRoot \/ AddLeafSize

Next ==
    \/ Startup
    \/ AddLeaf
    \/ SaveDeposit
    \/ \E leaf_index \in 0 .. (Len(Leaves) - 1) : GetProof(leaf_index)
    \/ ReadLevel \/ ReadRoot
    \/ CallFails \/ Crash

\* A started call and the startup sequence run on; a deposit, a request, a
\* failure or a crash need never come.
Spec == Init /\ [][Next]_vars /\ WF_vars(Startup \/ AddLeaf)

-----------------------------------------------------------------------------
(***************************************************************************)
(* Properties.                                                             *)
(***************************************************************************)

\* The trees over the first n commitments, built whole.
Trees == [n \in 0 .. Len(Leaves) |-> buildTree(SubSeq(Leaves, 1, n))]

\* What level d holds when the tree has n leaves: the nodes above a leaf, and
\* one empty node when there is none.
LevelAfter(n, d) ==
    LET nodes == (n + TwoTo[d] - 1) \div TwoTo[d]
    IN  [k \in 1 .. (IF nodes = 0 THEN 1 ELSE nodes) |-> Trees[n][d][k - 1]]

\* A key that is set does not read as one that is not.
ASSUME MissingAssumption ==
    /\ Missing \notin Nat
    /\ \A n \in 0 .. Len(Leaves), d \in Levels :
           Missing \notin {Trees[n][d][0], LevelAfter(n, d)}

TypeOK ==
    /\ size \in 0 .. Len(Leaves) \cup {Missing}
    /\ stored \in 0 .. Len(Leaves)
    /\ phase \in {"starting", "serving"}
    /\ writer.pc \in {"none", "init_level", "init_root", "init_size",
                      "size", "level", "commit"}
    /\ writer.d \in Levels /\ writer.leaf \in Nat
    /\ writer.pc \in {"size", "level", "commit"} => writer.leaf < stored
    /\ reader.pc \in {"idle", "reading", "done"}
    /\ reader.d \in Levels /\ Len(reader.proof) = reader.d

\* Whatever calls failed and wherever the backend stopped, Redis holds a cut
\* between two trees: the levels below some level are those of the tree with
\* the next commitment, the others those of the tree with `size` leaves, each
\* node equal to the one a whole rebuild gives (tree.rs:63-194 against
\* poseidon.js:36-58).  This is what lets the next call repair it.
StoreIsCut ==
    root # Missing =>
        \E k \in 0 .. DEPTH + 1 :
            /\ k > 0 => Size < Len(Leaves)
            /\ \A d \in Levels :
                    level[d] = LevelAfter(IF d < k THEN Size + 1 ELSE Size, d)
            /\ \/ root = RootOf(Trees[Size])
               \/ k = DEPTH + 1 /\ root = RootOf(Trees[Size + 1])

\* The size moves by one, last, and only when every level and the root are
\* those of the whole tree: also when the call repaired what an earlier one had
\* left half written (tree.rs:186-188).
SizeCommits ==
    [][Size' # Size =>
        /\ Size' = Size + 1
        /\ root' = RootOf(Trees[Size'])
        /\ \A d \in Levels : level'[d] = LevelAfter(Size', d)]_vars

\* A proof read while no leaf is being added, from a tree that has all the
\* deposits, is the one the merkle service cuts from a whole tree, and it
\* verifies in the circuit against the root read with it (tree.rs:202-241,
\* poseidon.js:63-78, merkle_tree.nr:3-24).
ProofVerifiesInSync ==
    reader.pc = "done" /\ reader.undisturbed /\ reader.stored = Size =>
        /\ [proof |-> reader.proof, isEven |-> reader.is_even]
              = buildProof(Trees[Size], reader.leaf)
        /\ compute_merkle_root(Leaves[reader.leaf + 1], reader.proof, reader.is_even)
              = reader.root

\* Every deposit Postgres has when the backend starts reaches the tree, through
\* crashes and calls that failed before: startup adds what the tree lacks
\* (main.rs:309-330).
CatchesUp ==
    \A n \in 1 .. Len(Leaves) : phase = "starting" /\ stored = n ~> Size >= n
=============================================================================
