--------------------------- MODULE MCCollectionRun ---------------------------
(***************************************************************************)
(* Two listings: the page of the first changes between forms, that of the  *)
(* second is complete.  Two runs share the Glassdoor collector.            *)
(***************************************************************************)
EXTENDS CollectionRun

MCAtOnce == [k \in Kinds |-> IF k = "glassdoor" THEN 2 ELSE 1]
MCSymmetry == Permutations(Runs)

NoBase == [min |-> Absent, max |-> Absent, exact |-> Absent]
Text(lo, hi, curr, k) ==
  [lo |-> lo, hi |-> hi, loK |-> FALSE, hiK |-> k, curr |-> curr, period |-> FALSE,
   ofYears |-> ~curr /\ ~k]

\* "1-3 years", "$120-160k"
Early == [core |-> CoreFields, years |-> <<Range2(1, 3)>>, base |-> NoBase,
          ranges |-> <<Text(120, 160, TRUE, TRUE)>>, singles |-> <<>>]
\* "5+ years", without a date
Edited == [core |-> CoreFields \ {"posted"}, years |-> <<Range2(5, Absent)>>, base |-> NoBase,
           ranges |-> <<Text(3, 5, FALSE, FALSE)>>, singles |-> <<>>]
\* Numbers in the wrong order
Structured == [core |-> {"company", "description"}, years |-> <<Range2(4, 2), Range2(99, Absent)>>,
               base |-> [min |-> 200, max |-> 100, exact |-> Absent],
               ranges |-> <<>>, singles |-> <<[amount |-> 90, k |-> TRUE, curr |-> TRUE, period |-> FALSE]>>]
Full == [core |-> CoreFields, years |-> <<>>, base |-> NoBase, ranges |-> <<>>, singles |-> <<>>]

MCOffers == [k \in Kinds |-> [l \in Listings |->
  CASE l = 2             -> {Full}
    [] k = "dice"        -> {Early, Structured}
    [] k = "glassdoor"   -> {Edited}
    [] OTHER             -> {Early, Edited}]]
MCScrapedPays == {NoRange, Range2(50, 60)}
=============================================================================
