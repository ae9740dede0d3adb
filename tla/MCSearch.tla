------------------------------- MODULE MCSearch -------------------------------
(***************************************************************************)
(* Searches and their executions, and what an execution finds in small     *)
(* pools of jobs: a good match, one that asks for more years, one of a     *)
(* neighbouring role without dates, a remote one dated in the future, a    *)
(* twin of the first, one that is no longer listed and one that the words  *)
(* do not match.                                                           *)
(***************************************************************************)
EXTENDS JobSearch

MCJob == [id |-> 1, active |-> TRUE, listed |-> TRUE, named |-> TRUE, role |-> "backend",
          minYears |-> 2, skills |-> {"python", "sql"}, place |-> "here",
          remote |-> "on_site", posted |-> 18, seen |-> 18, sourceSeen |-> 17]
MCJobs ==
  {MCJob,
   [MCJob EXCEPT !.id = 2, !.minYears = 8, !.posted = 17, !.skills = {"python", "sql", "go", "rust"}],
   [MCJob EXCEPT !.id = 3, !.role = "fullstack", !.minYears = Unset, !.posted = Unset, !.skills = {}],
   [MCJob EXCEPT !.id = 4, !.remote = "remote", !.place = Unset, !.posted = 24, !.skills = {"python"}],
   [MCJob EXCEPT !.id = 5],
   [MCJob EXCEPT !.id = 6, !.listed = FALSE, !.posted = 20],
   [MCJob EXCEPT !.id = 7, !.named = FALSE, !.posted = 20]}
MCCandidates ==
  [role : {"backend", "frontend", "qa"}, years : {Unset, 3, 9}, skills : {{}, {"python"}, {"python", "sql"}},
   place : {Unset, "here"}, remotePreferred : BOOLEAN]
MCWishes == [remote : {Unset, "remote", "on_site", "hybrid"}, limit : {1, 2}]
=============================================================================
