------------------------------- MODULE Matching -------------------------------
(***************************************************************************)
(* What a search finds: the read of the canonical jobs, the eligibility    *)
(* rules, the score and the ranking of app/jobs/matching, as               *)
(* SearchExecutionService.execute applies them.                            *)
(*                                                                         *)
(* A job has an id (a number), the flags active, listed (it has an active  *)
(* source) and named (it matches the words, the location and the           *)
(* employment type of the search), a role family, minYears, skills, a      *)
(* place, a remote type, and the times at which it was posted, last seen,  *)
(* and last seen at the source that presents it.  Scores and times are     *)
(* whole numbers: a point has Scale parts, and so has a day.               *)
(***************************************************************************)
EXTENDS Integers, SequencesExt, FiniteSetsExt

CONSTANTS Unset,            \* None of Python
          CandidateLimit,   \* search_candidate_limit
          Jobs,             \* the jobs there may be
          Candidates,       \* profiles: role, years, skills, place, remotePreferred
          Wishes,           \* what a search asks for: remote type, limit
          Today,            \* the time of the search
          Scale             \* parts of a point and of a day, so many that scores are whole

ASSUME MatchingConstants ==
  /\ {CandidateLimit, Scale} \subseteq Nat \ {0} /\ Today \in Nat
  /\ IsFiniteSet(Jobs) /\ \A a, b \in Jobs : a.id = b.id => a = b
  /\ \A j \in Jobs : /\ {j.id, j.seen, j.sourceSeen} \subseteq Nat
                     /\ {j.posted, j.minYears} \subseteq Nat \cup {Unset}
                     /\ IsFiniteSet(j.skills)
                     /\ j.skills # {} => (30 * Scale) % Cardinality(j.skills) = 0
  /\ \A w \in Wishes : w.limit \in Nat

\* ROLE_COMPATIBILITY
Compatible(role) ==
  CASE role \in {"devops", "sre", "platform", "cloud"} -> {"devops", "sre", "platform", "cloud"}
    [] role = "backend"  -> {"backend", "software_engineering", "fullstack"}
    [] role = "frontend" -> {"frontend", "fullstack"}
    [] role \in {"fullstack", "software_engineering"} ->
         {"fullstack", "backend", "frontend", "software_engineering"}
    [] role \in {"data_science", "machine_learning"} -> {"data_science", "machine_learning"}
    [] OTHER -> {role}

is_eligible(candidate, job) ==
  /\ job.active
  /\ job.role \in Compatible(candidate.role)
  /\ candidate.years = Unset \/ job.minYears = Unset \/ candidate.years >= job.minYears

-----------------------------------------------------------------------------
SkillsScore(candidate, job) ==
  IF job.skills = {} THEN 0
  ELSE ((30 * Scale) \div Cardinality(job.skills)) * Cardinality(job.skills \cap candidate.skills)

ExperienceScore(candidate, job) ==
  IF job.minYears = Unset THEN 20 * Scale
  ELSE IF candidate.years # Unset /\ candidate.years >= job.minYears THEN 20 * Scale ELSE 0

LocationScore(candidate, job) ==
  IF \/ job.remote = "remote" /\ candidate.remotePreferred
     \/ candidate.place # Unset /\ candidate.place = job.place
  THEN 10 * Scale ELSE 0

\* Ten points less the days since it was posted, or else seen at its source; a date in
\* the future counts as today.
FreshnessScore(job, now) ==
  LET time == IF job.posted # Unset THEN job.posted ELSE job.sourceSeen
  IN Max({0, 10 * Scale - Max({0, now - time})})

score_job(candidate, job, now) ==
  (IF job.role \in Compatible(candidate.role) THEN 30 * Scale ELSE 0)
    + SkillsScore(candidate, job) + ExperienceScore(candidate, job)
    + LocationScore(candidate, job) + FreshnessScore(job, now)

-----------------------------------------------------------------------------
\* The members of S in the order of the relation R: ORDER BY, sorted.
InOrder(S, R) ==
  CHOOSE s \in [1 .. Cardinality(S) -> S] :
    \A i, j \in DOMAIN s : i < j => <<s[i], s[j]>> \in R

FirstN(s, n) == SubSeq(s, 1, Min({n, Len(s)}))

\* ORDER BY posted_at DESC NULLS LAST, last_seen_at DESC, id
ReadBefore(a, b) ==
  LET time(j) == IF j.posted = Unset THEN -1 ELSE j.posted
  IN \/ time(a) > time(b)
     \/ time(a) = time(b) /\ (a.seen > b.seen \/ (a.seen = b.seen /\ a.id < b.id))
ReadOrder == {p \in Jobs \X Jobs : ReadBefore(p[1], p[2])}

\* Active jobs with an active source that match the words, of the remote type asked
\* for unless that is hybrid.
Shown(pool, wanted) ==
  {j \in pool : /\ j.active /\ j.listed /\ j.named
                /\ wanted \in {"remote", "on_site"} => j.remote = wanted}

\* CanonicalJobRepository.search
Retrieve(pool, wanted) == FirstN(InOrder(Shown(pool, wanted), ReadOrder), CandidateLimit)

\* The order of the results: the score, then the id.
RankedBefore(candidate, now, a, b) ==
  \/ score_job(candidate, a, now) > score_job(candidate, b, now)
  \/ score_job(candidate, a, now) = score_job(candidate, b, now) /\ a.id < b.id
RankOrder(candidate, now) == {p \in Jobs \X Jobs : RankedBefore(candidate, now, p[1], p[2])}

rank_matches(candidate, now, jobs) == InOrder(jobs, RankOrder(candidate, now))

\* Mutant: the limit is applied before the rules.
ResultsOfFirst(pool, candidate, wish, now) ==
  rank_matches(candidate, now,
    {j \in ToSet(FirstN(Retrieve(pool, wish.remote), wish.limit)) : is_eligible(candidate, j)})

\* execute, from the read of the jobs to the results that it saves.
Results(pool, candidate, wish, now) ==
  FirstN(rank_matches(candidate, now,
           {j \in ToSet(Retrieve(pool, wish.remote)) : is_eligible(candidate, j)}),
         wish.limit)

-----------------------------------------------------------------------------
\* The results of a search, stated without the algorithm.  It reads the jobs that it
\* may show and that fewer than CandidateLimit others precede; its results are those of
\* them that are eligible and that fewer than limit eligible ones outrank.  The job at
\* rank n has n - 1 of them before it, and its score is a percentage.
ResultsAreBest(pool, candidate, wish, now) ==
  LET shown == Shown(pool, wish.remote)
      read == {j \in shown : Cardinality({k \in shown : ReadBefore(k, j)}) < CandidateLimit}
      eligible == {j \in read : is_eligible(candidate, j)}
      before(j) == {k \in eligible : RankedBefore(candidate, now, k, j)}
      res == Results(pool, candidate, wish, now)
  IN /\ ToSet(res) = {j \in eligible : Cardinality(before(j)) < wish.limit}
     /\ \A n \in DOMAIN res : /\ Cardinality(before(res[n])) = n - 1
                              /\ score_job(candidate, res[n], now) \in 0 .. 100 * Scale
=============================================================================
