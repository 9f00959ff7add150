------------------------------ MODULE MCWire ------------------------------
(***************************************************************************)
(* Two wallets; a depositor may send any of three roots, one commitment    *)
(* and an amount below or at the minimum; two statements can be proved,    *)
(* about two nullifier hashes and two amounts.                             *)
(***************************************************************************)
EXTENDS Wire

CONSTANTS alice, bob, c1, empty, r1, r2, n1, n2

WalletSet == {alice, bob}
CommitmentSet == {c1}
RootSet == {empty, r1, r2}
NullifierHashSet == {n1, n2}
LamportSet == {1, 2}
StatementSet == {<<Word(r1), Word(n1), Key(bob), Number(2)>>,
                 <<Word(r1), Word(n2), Key(bob), Number(1)>>}
=============================================================================
