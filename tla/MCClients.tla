----------------------------- MODULE MCClients -----------------------------
(***************************************************************************)
(* Two tabs, in one browser or in two, and two notes or three.  The ring   *)
(* has two slots, so that three deposits wrap it.                          *)
(***************************************************************************)
EXTENDS Clients

CONSTANTS t1, t2, b1, b2, n1, n2, n3

OneBrowser == [t \in Tabs |-> b1]
TwoBrowsers == [t \in Tabs |-> IF t = t1 THEN b1 ELSE b2]

\* Notes and the tabs of one browser are interchangeable.
Symmetry == Permutations({n1, n2, n3}) \cup Permutations({t1, t2})
=============================================================================
