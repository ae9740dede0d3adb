-------------------------- MODULE MCResumeLifecycle --------------------------
(* Small instances of ResumeLifecycle for TLC.                             *)
EXTENDS ResumeLifecycle, TLC

CONSTANTS r1, r2, e1, e2, w1, w2, alice, bob

TwoRequests == {r1, r2}

\* Every request and resume belongs to one owner.
OneOwner == [k \in Ids |-> alice]

\* One of the existing resumes is somebody else's.
TwoOwners == [k \in Ids |-> IF k = e2 THEN bob ELSE alice]

RequestSymmetry == Permutations(Requests)
=============================================================================
