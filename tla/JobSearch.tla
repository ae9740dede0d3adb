------------------------------ MODULE JobSearch ------------------------------
(***************************************************************************)
(* Searches with what their executions find: execute runs the functions of *)
(* Matching between the claim and the commit of SearchLifecycle.           *)
(***************************************************************************)
EXTENDS SearchLifecycle, Matching

\* Every search saves the best of the jobs that it may show, however the pool looks:
\* execute with the read, rules, scores and ranking, the scores being percentages
\* whatever the dates of the sources.  (A fact of the functions alone, looked at
\* once.)
SearchFindsBest ==
  Init => \A pool \in SUBSET Jobs, c \in Candidates, w \in Wishes :
            (w.remote = "remote") = c.remotePreferred => ResultsAreBest(pool, c, w, Today)
=============================================================================
