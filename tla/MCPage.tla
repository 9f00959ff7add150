------------------------------ MODULE MCPage ------------------------------
(***************************************************************************)
(* An extension with two accounts.                                         *)
(***************************************************************************)
EXTENDS Page

CONSTANTS alice, bob

TwoAccounts == {alice, bob}
=============================================================================
