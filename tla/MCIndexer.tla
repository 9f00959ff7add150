------------------------------ MODULE MCIndexer ------------------------------
(***************************************************************************)
(* The indexer on short chains, where any call may fail.                   *)
(***************************************************************************)
EXTENDS Indexer

CONSTANT n1

OneNullifier == {n1}
=============================================================================
