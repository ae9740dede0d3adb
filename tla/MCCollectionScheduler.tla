------------------------ MODULE MCCollectionScheduler ------------------------
(* Two targets, collected one at a time: two profiles that ask for both, in *)
(* opposite orders, and a fallback of one.                                  *)
EXTENDS CollectionScheduler

MCQueries == [p \in {"p", "q"} |-> IF p = "p" THEN <<"a", "b">> ELSE <<"b", "a">>]
MCFallback == <<"a">>
=============================================================================
