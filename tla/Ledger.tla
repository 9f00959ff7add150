------------------------------- MODULE Ledger -------------------------------
(***************************************************************************)
(* What the pool program promises its users, without its accounts: a       *)
(* growing history of roots, of which the last ROOT_HISTORY_SIZE are       *)
(* accepted, and a set of nullifiers that only grows, each spent against   *)
(* an accepted root.                                                       *)
(***************************************************************************)
EXTENDS Integers, Sequences

CONSTANTS Roots, EMPTY_ROOT, NullifierHashes, ROOT_HISTORY_SIZE, MAX_LEAVES

VARIABLES
    created,   \* the pool account exists
    history,   \* roots posted by deposits, oldest first
    spent      \* nullifier hashes paid out, each with the root it was paid against

vars == <<created, history, spent>>

\* The root that was current after i deposits.
RootAfter(i) == IF i \in 1 .. Len(history) THEN history[i] ELSE EMPTY_ROOT

\* Roots a withdrawal may name.
Accepted == {RootAfter(Len(history) - j) : j \in 0 .. (ROOT_HISTORY_SIZE - 1)}

Init == created = FALSE /\ history = << >> /\ spent = {}

Create ==
    /\ ~created
    /\ created' = TRUE
    /\ UNCHANGED <<history, spent>>

Post(root) ==
    /\ created
    /\ Len(history) < MAX_LEAVES
    /\ root # RootAfter(Len(history))
    /\ history' = Append(history, root)
    /\ UNCHANGED <<created, spent>>

Spend(nullifier_hash, root) ==
    /\ created
    /\ \A s \in spent : s.nullifier_hash # nullifier_hash
    /\ root \in Accepted
    /\ spent' = spent \cup {[nullifier_hash |-> nullifier_hash, root |-> root]}
    /\ UNCHANGED <<created, history>>

Next ==
    \/ Create
    \/ \E root \in Roots : Post(root)
    \/ \E nullifier_hash \in NullifierHashes, root \in Roots :
            Spend(nullifier_hash, root)

Spec == Init /\ [][Next]_vars
=============================================================================
