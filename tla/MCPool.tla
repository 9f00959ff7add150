------------------------------- MODULE MCPool -------------------------------
(***************************************************************************)
(* A pool small enough for TLC: a ring of 3 roots that 5 deposits wrap     *)
(* around, two nullifiers, two recipients.                                 *)
(***************************************************************************)
EXTENDS Pool

CONSTANTS k1, k2, r1, r2, zero, n1, n2, c1, x1, x2

MCPubkeys == {k1, k2}
MCRoots == {zero, r1, r2}
MCReducedKey == [k \in Pubkeys |-> IF k = k1 THEN x1 ELSE x2]

\* The verifier accepts n1 for 2 lamports to k1 under any root a client may
\* have proved against, n2 for 3 lamports under r2 only, to either recipient.
MCProvable ==
    {<<root, n1, x1, 2>> : root \in Roots}
        \cup {<<r2, n2, x, 3>> : x \in {x1, x2}}
=============================================================================
