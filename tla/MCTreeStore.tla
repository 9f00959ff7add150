----------------------------- MODULE MCTreeStore -----------------------------
(***************************************************************************)
(* Trees of depth 2 and 3 over distinct commitments.  A hash is the pair   *)
(* of what it hashes: two hashes are equal only if their inputs are.       *)
(***************************************************************************)
EXTENDS TreeStore

CONSTANTS c1, c2, c3, c4, c5

MCHash(left, right) == <<left, right>>

ThreeLeaves == <<c1, c2, c3>>
FourLeaves == <<c1, c2, c3, c4>>
FiveLeaves == <<c1, c2, c3, c4, c5>>
=============================================================================
