------------------------------ MODULE MCReadApi ------------------------------
(***************************************************************************)
(* Two requests of one address at a time and a deposit or two.             *)
(***************************************************************************)
EXTENDS ReadApi

CONSTANTS r1, r2

Two == {r1, r2}
=============================================================================
