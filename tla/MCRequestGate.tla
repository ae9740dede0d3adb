---------------------------- MODULE MCRequestGate ----------------------------
(* The proxy and the emergency address, one office with each network; a key  *)
(* set that grows, shrinks and is replaced.                                  *)
EXTENDS RequestGate

MCCovers == [n \in {"n1", "n2"} |-> IF n = "n1" THEN {"x"} ELSE {"y"}]
MCLimit == [g \in {"admin-security"} |-> 1]
MCSymmetry == Permutations(Requests) \cup Permutations(RuleIds) \cup Permutations(Tokens)
MCPublished == <<{"a"}, {"a", "b"}, {"b"}, {"c"}>>
=============================================================================
