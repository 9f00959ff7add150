------------------------------ MODULE MCProver ------------------------------
(***************************************************************************)
(* Three requests and a failure or two.                                    *)
(***************************************************************************)
EXTENDS Prover, TLC

CONSTANTS r1, r2, r3

Three == {r1, r2, r3}

\* Requests differ in nothing but their name.
Symmetry == Permutations(Three)
=============================================================================
