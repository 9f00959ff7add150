------------------------------- MODULE Mirror -------------------------------
(***************************************************************************)
(* What the indexer promises of its stores: they mirror the chain.  The    *)
(* events stored are events of the chain, each is stored once and stays,   *)
(* in any order; the tree takes the deposits' leaves in the order of the   *)
(* chain, each after it was stored.                                        *)
(***************************************************************************)
EXTENDS Integers, Sequences

VARIABLES
    chain,    \* the pool's transactions, oldest first
    stored,   \* the transactions whose event is stored
    leaves    \* how many leaves the tree has

HasEvent(t) == chain[t].kind # "other"

Init == chain = << >> /\ stored = {} /\ leaves = 0

Land ==
    /\ Len(chain') = Len(chain) + 1
    /\ chain = SubSeq(chain', 1, Len(chain))
    /\ UNCHANGED <<stored, leaves>>

Store ==
    /\ \E t \in 1 .. Len(chain) \ stored : HasEvent(t) /\ stored' = stored \cup {t}
    /\ UNCHANGED <<chain, leaves>>

AddLeaf ==
    /\ \E t \in stored : chain[t].kind = "deposit" /\ chain[t].leaf_index = leaves
    /\ leaves' = leaves + 1
    /\ UNCHANGED <<chain, stored>>

Spec == Init /\ [][Land \/ Store \/ AddLeaf]_<<chain, stored, leaves>>
=============================================================================
