-------------------------- MODULE MCCollectionLease --------------------------
(* Small instances of CollectionLease for TLC.                             *)
EXTENDS CollectionLease, TLC

CONSTANTS j1, j2, j3, t1, t2

\* Two jobs compete for one target, a third has another one.
TwoAndOne == (j1 :> t1) @@ (j2 :> t1) @@ (j3 :> t2)
=============================================================================
