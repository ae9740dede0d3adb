---------------------------- MODULE CollectionRun ----------------------------
(***************************************************************************)
(* One worker's collection runs of one source: CollectionCoordinator.run   *)
(* (app/jobs/collection.py) with the source's collector, which pages       *)
(* through search results, fetches the details that are due, and persists  *)
(* them in global_jobs (legacy) and jobs/job_sources (job); and the repair *)
(* script scripts/repair_incomplete_dice_jobs.py, which an operator runs.  *)
(*                                                                         *)
(* The collector is a singleton of the worker: runs for different targets  *)
(* share it.  A run is one database transaction, whose writes appear here  *)
(* at its commit; how transactions wait for each other is the subject of   *)
(* CanonicalIngestion.  Openings are not merged here.                      *)
(***************************************************************************)
EXTENDS ListingFields, FiniteSets

CONSTANTS Listings,     \* external_job_id's, numbers in the order of the ids
          Runs,         \* places where the worker runs a collection
          AtOnce,       \* bound on the runs at the same time, per kind
          Offers,       \* payloads a listing may show, per kind and listing
          PageSize,     \* _DEFAULT_PAGE_SIZE
          MaxPages,     \* _MAX_PAGES
          Attempts,     \* attempts of Glassdoor's _fetch_search_page
          MaxJobs,      \* CollectionTarget.max_jobs
          RepairLimit,  \* --limit
          ScrapedPays   \* ranges that parse_salary may find in a salary_text

ASSUME RunConstants ==
  /\ Listings \subseteq Nat /\ IsFiniteSet(Listings)
  /\ AtOnce \in [Kinds -> Nat] /\ IsFiniteSet(Runs)
  /\ {PageSize, MaxPages, Attempts, MaxJobs, RepairLimit} \subseteq Nat \ {0}
  /\ Offers \in [Kinds -> [Listings -> SUBSET PagePayloads]]
  /\ \A pay \in ScrapedPays : pay \in Range2s /\ Ordered(pay)

VARIABLES
  kind,      \* the source
  run,       \* the state of each run
  result,    \* CoordinatorResult of the run that has just ended
  cache,     \* GlassdoorCollector._cache
  legacy,    \* global_jobs
  job,       \* jobs and job_sources
  done,      \* history: listings persisted in both tables within the last 6 hours
  repaired   \* the rows that --apply-local has just replayed

vars == <<kind, run, result, cache, legacy, job, done, repaired>>
tables == <<legacy, job, done>>

Idle == [pc |-> "idle", page |-> 0, attempt |-> 1,
         found |-> <<>>, recent |-> {}, todo |-> <<>>, raw |-> <<>>]
NoResult == [status |-> "none", raw |-> 0, inserted |-> 0, refreshed |-> 0,
             failed |-> 0, canonicalFailed |-> 0,
             legacySeen |-> {}, jobSeen |-> {}]  \* rows whose last_seen_at is set
Failed(why) == [NoResult EXCEPT !.status = why]

\* The migration 0007 copied global_jobs into jobs, with stubs for payloads.
Init ==
  /\ kind \in Kinds
  /\ run = [r \in Runs |-> Idle]
  /\ result = NoResult
  /\ cache = <<>>
  /\ \E old \in SUBSET Listings, core \in {{"company", "url"}, CoreFields} :
       /\ legacy = [l \in Listings |-> IF l \in old
                      THEN [NoLegacy EXCEPT !.stored = TRUE, !.core = core] ELSE NoLegacy]
       /\ job = [l \in Listings |-> IF l \in old
                   THEN [NoJob EXCEPT !.stored = TRUE, !.core = core] ELSE NoJob]
  /\ done = {}
  /\ repaired = {}

Finish(r, res) ==
  /\ run' = [run EXCEPT ![r] = Idle]
  /\ result' = res
  /\ repaired' = {}

\* Nothing ends in this step.
Silent == result' = NoResult /\ repaired' = {}

-----------------------------------------------------------------------------
(* discover                                                                *)

\* Mutant: a run starts with an empty cache.
StartClearing(r) ==
  /\ run[r].pc = "idle"
  /\ Cardinality({q \in Runs : run[q].pc # "idle"}) < AtOnce[kind]
  /\ run' = [run EXCEPT ![r] = [Idle EXCEPT !.pc = "discover"]]
  /\ Silent
  /\ cache' = <<>>
  /\ UNCHANGED <<kind, tables>>

Start(r) ==
  /\ run[r].pc = "idle"
  /\ Cardinality({q \in Runs : run[q].pc # "idle"}) < AtOnce[kind]
  /\ run' = [run EXCEPT ![r] = [Idle EXCEPT !.pc = "discover"]]
  /\ Silent
  /\ UNCHANGED <<kind, cache, tables>>

\* The list found with the elements of jobs that it does not hold, up to the limit.
AddNew(found, jobs, limit) ==
  LET seen[i \in 0 .. Len(jobs)] ==
        IF i = 0 THEN found
        ELSE IF Contains(seen[i - 1], jobs[i]) \/ Len(seen[i - 1]) >= limit THEN seen[i - 1]
        ELSE Append(seen[i - 1], jobs[i])
  IN seen[Len(jobs)]

\* The elements of the list s that are in keep.
Filter(s, keep) ==
  LET kept[i \in 0 .. Len(s)] ==
        IF i = 0 THEN <<>>
        ELSE IF s[i] \in keep THEN Append(kept[i - 1], s[i]) ELSE kept[i - 1]
  IN kept[Len(s)]

Deduplicate(s) == AddNew(<<>>, s, Len(s))

\* Dice has four parsers, for flight chunks, JSON scripts, GUIDs and links, and takes
\* the first one that finds anything.
DiceSearch(lists) ==
  LET i == SelectInSeq(lists, LAMBDA s : s # <<>>)
  IN IF i = 0 THEN <<>> ELSE Deduplicate(lists[i])

\* What the four parsers find: nothing, up to the one the page is made for; then,
\* all of them the same.
DicePages(bodies) == {[i \in 1 .. 4 |-> IF i < n THEN <<>> ELSE b] : n \in 1 .. 4, b \in bodies}

LinkedInSearch(body) == Deduplicate(body)
GlassdoorSearch(body) == Deduplicate(body)

\* Mutant: seen_ids is forgotten between pages.
CollectPage(found, jobs) ==
  SubSeq(found \o jobs, 1, Min({MaxJobs, Len(found \o jobs)}))

\* The listings not seen on earlier pages, until max_jobs are collected.
CollectNew(found, jobs) == AddNew(found, jobs, MaxJobs)

\* Pages shift while a run reads them, so a page may hold anything.
Bodies == SeqOf(Listings, PageSize)

\* The loop of discover: the page adds its new listings; the search is over after an
\* empty page, one without news, a last one, or max_jobs.
TakePage(r, jobs, last) ==
  LET found == CollectNew(run[r].found, jobs)
      page == run[r].page + 1
      stop == jobs = <<>> \/ found = run[r].found \/ last \/ page = MaxPages \/ Len(found) >= MaxJobs
  IN run' = [run EXCEPT ![r].page = page, ![r].attempt = 1, ![r].found = found,
                        ![r].pc = IF stop THEN "split" ELSE @]

DiscoverDice(r) ==
  /\ run[r].pc = "discover" /\ kind = "dice"
  /\ \E page \in DicePages(Bodies) :
       LET jobs == DiceSearch(page) IN TakePage(r, jobs, Len(jobs) < PageSize)
  /\ Silent /\ UNCHANGED <<kind, cache, tables>>

DiscoverLinkedIn(r) ==
  /\ run[r].pc = "discover" /\ kind = "linkedin"
  /\ \E body \in Bodies :
       LET jobs == LinkedInSearch(body) IN TakePage(r, jobs, Len(jobs) < PageSize)
  /\ Silent /\ UNCHANGED <<kind, cache, tables>>

\* What the pages of some listings may hold.
Payloads(ids) ==
  {p \in [ids -> UNION {Offers[kind][l] : l \in ids}] : \A l \in ids : p[l] \in Offers[kind][l]}

\* Glassdoor's pages hold the details, which go into the cache, and a short page is
\* not the last one.
DiscoverGlassdoor(r) ==
  /\ run[r].pc = "discover" /\ kind = "glassdoor"
  /\ \E body \in Bodies :
       LET jobs == GlassdoorSearch(body)
           new == ToSet(CollectNew(run[r].found, jobs)) \ ToSet(run[r].found)
       IN /\ TakePage(r, jobs, FALSE)
          /\ \E p \in Payloads(new) :
               cache' = [l \in new \cup DOMAIN cache |-> IF l \in new THEN p[l] ELSE cache[l]]
  /\ Silent /\ UNCHANGED <<kind, tables>>

\* Glassdoor asks again after a block, a rate limit or a network error.
RetryGlassdoor(r) ==
  /\ run[r].pc = "discover" /\ kind = "glassdoor" /\ run[r].attempt < Attempts
  /\ run' = [run EXCEPT ![r].attempt = @ + 1]
  /\ Silent /\ UNCHANGED <<kind, cache, tables>>

\* 403, 429, a network error or a temporary status make the task retry; other
\* statuses make it fail.
StatusDice == {"retry", "error"}
StatusLinkedIn == {"retry", "error"}
StatusGlassdoor(attempt) == {"error"} \cup (IF attempt = Attempts THEN {"retry"} ELSE {})

SearchFails(r) ==
  /\ run[r].pc = "discover"
  /\ \E why \in CASE kind = "dice" -> StatusDice [] kind = "linkedin" -> StatusLinkedIn
                  [] kind = "glassdoor" -> StatusGlassdoor(run[r].attempt)
                  [] OTHER -> {} :
       Finish(r, Failed(why))
  /\ UNCHANGED <<kind, cache, tables>>

\* HiringCafe has a single page that holds the details; hits that cannot be read are
\* skipped, repeated ones are not, and an error is an empty page.
CollectHits(r) ==
  /\ run[r].pc = "discover" /\ kind = "hiringcafe"
  /\ \E hits \in SeqOf(UNION {{l} \X Offers[kind][l] : l \in Listings}, PageSize) :
       run' = [run EXCEPT ![r].pc = "persist",
                          ![r].raw = SubSeq(hits, 1, Min({Len(hits), MaxJobs}))]
  /\ Silent /\ UNCHANGED <<kind, cache, tables>>

\* A page that answers 403 or a challenge.
Blocked(r) ==
  /\ run[r].pc = "discover" /\ kind = "hiringcafe"
  /\ Finish(r, Failed("retry"))
  /\ UNCHANGED <<kind, cache, tables>>

-----------------------------------------------------------------------------
(* Which details are due, and fetch_details.                               *)

\* Mutant: a stored detail payload does not count.
RecentIfComplete(l) == legacy[l].recent /\ Complete(legacy[l])

\* Scraped within six hours, and complete or with a payload in job_sources.
Recent(l) == legacy[l].recent /\ (Complete(legacy[l]) \/ job[l].detail)

Split(r) ==
  /\ run[r].pc = "split"
  /\ LET recent == {l \in Listings : Recent(l)}
         due == Filter(run[r].found, Listings \ recent)
     IN run' = [run EXCEPT ![r].recent = ToSet(run[r].found) \cap recent,
                           ![r].todo = due,
                           ![r].pc = IF due = <<>> THEN "persist" ELSE "details"]
  /\ Silent /\ UNCHANGED <<kind, cache, tables>>

\* The rest of the candidates once one of them is dealt with.
Advance(r, raw) ==
  LET rest == Tail(run[r].todo)
  IN run' = [run EXCEPT ![r].todo = rest, ![r].raw = raw,
                        ![r].pc = IF rest = <<>> THEN "persist" ELSE @]

\* What a detail page gives: one item, or none when it holds no JobPosting (Dice) or
\* no title (LinkedIn).
DiceDetail(l) == {<<>>} \cup {<< <<l, p>> >> : p \in Offers["dice"][l]}
LinkedInDetail(l) == {<<>>} \cup {<< <<l, p>> >> : p \in Offers["linkedin"][l]}

\* Ask for the page of the next candidate; one that is gone is left out as well.
DetailDice(r) ==
  /\ run[r].pc = "details" /\ kind = "dice"
  /\ \E items \in DiceDetail(Head(run[r].todo)) : Advance(r, run[r].raw \o items)
  /\ Silent /\ UNCHANGED <<kind, cache, tables>>

DetailLinkedIn(r) ==
  /\ run[r].pc = "details" /\ kind = "linkedin"
  /\ \E items \in LinkedInDetail(Head(run[r].todo)) : Advance(r, run[r].raw \o items)
  /\ Silent /\ UNCHANGED <<kind, cache, tables>>

\* Any other failure of one detail page ends the run, whatever was fetched.
DetailFails(r) ==
  /\ run[r].pc = "details" /\ kind \in {"dice", "linkedin"}
  /\ \E why \in IF kind = "dice" THEN StatusDice ELSE StatusLinkedIn : Finish(r, Failed(why))
  /\ UNCHANGED <<kind, cache, tables>>

\* Glassdoor serves the details from the cache.
FetchCached(r) ==
  /\ run[r].pc = "details" /\ kind = "glassdoor"
  /\ LET served == Filter(run[r].todo, DOMAIN cache)
     IN run' = [run EXCEPT ![r].pc = "persist",
                           ![r].raw = [i \in DOMAIN served |-> <<served[i], cache[served[i]]>>]]
  /\ Silent /\ UNCHANGED <<kind, cache, tables>>

-----------------------------------------------------------------------------
(* persist_raw_jobs and the commit.                                        *)

\* Mutant: the canonical write has no savepoint of its own.
PersistItemAtOnce(acc, item, bad, badJob) ==
  LET l == item[1]
      d == normalize_job(kind, item[2])
      row == MergeLegacy(acc.legacy[l], d)
      new == MergeJob(acc.job[l], d, TRUE)
      counted == IF acc.legacy[l].stored THEN [acc EXCEPT !.refreshed = @ + 1]
                                         ELSE [acc EXCEPT !.inserted = @ + 1]
  IN IF bad \/ ~LegacyOk(row) THEN [acc EXCEPT !.failed = @ + 1]
     ELSE IF badJob \/ ~JobOk(new) THEN [counted EXCEPT !.canonicalFailed = @ + 1]
     ELSE [counted EXCEPT !.legacy[l] = row, !.legacySeen = @ \cup {l},
                          !.job[l] = new, !.jobSeen = @ \cup {l}]

\* One item: the legacy row in one savepoint, then the canonical rows in another.
\* bad and badJob are errors of the database or of the listing's text.
PersistItem(acc, item, bad, badJob) ==
  LET l == item[1]
      d == normalize_job(kind, item[2])
      row == MergeLegacy(acc.legacy[l], d)
      new == MergeJob(acc.job[l], d, TRUE)
      counted == IF acc.legacy[l].stored THEN [acc EXCEPT !.refreshed = @ + 1]
                                         ELSE [acc EXCEPT !.inserted = @ + 1]
      kept == [counted EXCEPT !.legacy[l] = row, !.legacySeen = @ \cup {l}]
  IN IF bad \/ ~LegacyOk(row) THEN [acc EXCEPT !.failed = @ + 1]
     ELSE IF badJob \/ ~JobOk(new) THEN [kept EXCEPT !.canonicalFailed = @ + 1]
     ELSE [kept EXCEPT !.job[l] = new, !.jobSeen = @ \cup {l}]

\* The tables and the counts before the first item.
Unsaved == [legacy |-> legacy, job |-> job, inserted |-> 0, refreshed |-> 0, failed |-> 0,
            canonicalFailed |-> 0, legacySeen |-> {}, jobSeen |-> {}]

persist_raw_jobs(raw, bad, badJob) ==
  LET acc[i \in 0 .. Len(raw)] ==
        IF i = 0 THEN Unsaved
        ELSE PersistItem(acc[i - 1], raw[i], i \in bad, i \in badJob)
  IN acc[Len(raw)]

Status(end) == IF end.failed > 0 \/ end.canonicalFailed > 0 THEN "partial" ELSE "success"

\* Mutant: only global_jobs is marked.
TouchLegacy(end, ids) == [end EXCEPT !.legacySeen = @ \cup {l \in ids : legacy[l].stored}]

\* touch_seen of both repositories marks the recent listings.
Touch(end, ids) ==
  [end EXCEPT !.legacySeen = @ \cup {l \in ids : legacy[l].stored},
              !.jobSeen = @ \cup {l \in ids : job[l].stored}]

\* CoordinatorResult, with the rows whose last_seen_at the run has set.
ResultOf(raw, end) ==
  [status |-> Status(end), raw |-> Len(raw), inserted |-> end.inserted,
   refreshed |-> end.refreshed, failed |-> end.failed, canonicalFailed |-> end.canonicalFailed,
   legacySeen |-> end.legacySeen, jobSeen |-> end.jobSeen]

Persist(r) ==
  /\ run[r].pc = "persist"
  /\ \E bad, badJob \in SUBSET (DOMAIN run[r].raw) :
       \E end \in {persist_raw_jobs(run[r].raw, bad, badJob)} :
         /\ legacy' = end.legacy
         /\ job' = end.job
         /\ done' = done \cup end.jobSeen
         /\ Finish(r, ResultOf(run[r].raw, Touch(end, run[r].recent)))
  /\ UNCHANGED <<kind, cache>>

\* The task times out or is cancelled, or the database fails: a rollback.
Abort(r) ==
  /\ run[r].pc # "idle"
  /\ Finish(r, Failed("error"))
  /\ UNCHANGED <<kind, cache, tables>>

-----------------------------------------------------------------------------
(* The repair script.                                                      *)

\* ORDER BY id LIMIT n
FirstOf(ids) == {l \in ids : Cardinality({m \in ids : m < l}) < RepairLimit}

LocalCandidates ==
  FirstOf({l \in Listings : Incomplete(job[l]) /\ Improvable(legacy[l], job[l])})
LiveCandidates ==
  FirstOf({l \in Listings : Incomplete(job[l]) /\ ~Improvable(legacy[l], job[l])})

\* _raw_from_legacy and normalize_job
FromLegacy(row, pay) ==
  [core |-> row.core, exp |-> extract_experience(row.doc), pay |-> pay, doc |-> row.doc]

\* --apply-local replays the legacy rows through ingest, in one transaction without
\* savepoints: a single row that is refused undoes all of them.
ApplyLocal ==
  /\ kind = "dice" /\ LocalCandidates # {}
  /\ \E pay \in ScrapedPays :
       LET new == [l \in LocalCandidates |-> MergeJob(job[l], FromLegacy(legacy[l], pay), FALSE)]
       IN /\ \A l \in LocalCandidates : JobOk(new[l])
          /\ job' = [l \in Listings |-> IF l \in LocalCandidates THEN new[l] ELSE job[l]]
  /\ result' = NoResult /\ repaired' = LocalCandidates
  /\ UNCHANGED <<kind, run, cache, legacy, done>>

\* --fetch-live fetches the details of the others, in the order of their ids, and
\* persists those it gets; a failure of another kind ends it without effect.
FetchLive ==
  /\ kind = "dice"
  /\ \E order \in SeqOf(LiveCandidates, RepairLimit) :
       /\ order # <<>>
       /\ \A i, j \in DOMAIN order : i < j => order[i] < order[j]
       /\ \E p \in Payloads(ToSet(order)), bad, badJob \in SUBSET (DOMAIN order) :
            LET raw == [i \in DOMAIN order |-> <<order[i], p[order[i]]>>]
            IN \E end \in {persist_raw_jobs(raw, bad, badJob)} :
                 legacy' = end.legacy /\ job' = end.job /\ done' = done \cup end.jobSeen
  /\ Silent /\ UNCHANGED <<kind, run, cache>>

-----------------------------------------------------------------------------
\* Six hours pass between the runs.
TimePasses ==
  /\ \A r \in Runs : run[r] = Idle
  /\ legacy' = [l \in Listings |-> [legacy[l] EXCEPT !.recent = FALSE]]
  /\ done' = {}
  /\ Silent /\ UNCHANGED <<kind, run, cache, job>>

Next ==
  \/ \E r \in Runs :
       \/ Start(r) \/ DiscoverDice(r) \/ DiscoverLinkedIn(r) \/ DiscoverGlassdoor(r)
       \/ RetryGlassdoor(r) \/ SearchFails(r) \/ CollectHits(r) \/ Blocked(r)
       \/ Split(r) \/ DetailDice(r) \/ DetailLinkedIn(r) \/ DetailFails(r) \/ FetchCached(r)
       \/ Persist(r) \/ Abort(r)
  \/ ApplyLocal \/ FetchLive \/ TimePasses

Spec == Init /\ [][Next]_vars

-----------------------------------------------------------------------------
Items == UNION {{l} \X Offers[kind][l] : l \in Listings}
Places ==
  [pc : {"idle", "discover", "split", "details", "persist"}, page : 0 .. MaxPages,
   attempt : 1 .. Attempts, found : Seq(Listings), recent : SUBSET Listings,
   todo : Seq(Listings), raw : Seq(Items)]
Outcomes ==
  [status : {"none", "retry", "error", "partial", "success"}, raw : Nat, inserted : Nat,
   refreshed : Nat, failed : Nat, canonicalFailed : Nat,
   legacySeen : SUBSET Listings, jobSeen : SUBSET Listings]

\* The variables have their types; discover returns at most max_jobs listings, each of
\* them once, however the pages shift and repeat listings while they are read.
TypeOK ==
  /\ kind \in Kinds
  /\ run \in [Runs -> Places]
  /\ \A r \in Runs : Len(run[r].found) <= MaxJobs /\ IsInjective(run[r].found)
  /\ result \in Outcomes
  /\ DOMAIN cache \subseteq Listings
  /\ \A l \in DOMAIN cache : cache[l] \in Offers["glassdoor"][l]
  /\ legacy \in [Listings -> LegacyRows] /\ job \in [Listings -> JobRows]
  /\ done \subseteq Listings /\ repaired \subseteq Listings

\* Glassdoor's fetch_details finds every listing that its discover collected in the
\* cache, although runs for other targets use the same cache in the meantime.
CacheServes ==
  \A r \in Runs : kind = "glassdoor" /\ run[r].pc = "persist" =>
    {item[1] : item \in ToSet(run[r].raw)} = ToSet(run[r].found) \ run[r].recent

\* A listing whose details went into both tables within six hours is not asked for
\* again, even if its source never shows all the core fields.
NoNeedlessFetch ==
  [][\A r \in Runs : run[r].pc = "split" => ToSet(run'[r].todo) \cap done = {}]_vars

\* Known: the parts of a row that have a value.
Known(row) == row.core \cup {f \in {"lo", "hi"} : row.exp[f] # Absent}
KnownPay(row) == {f \in {"lo", "hi"} : row.pay[f] # Absent}

\* No collection and no repair makes a stored row forget a field: a listing that is
\* silent on one, a repeated hit or a replayed legacy row leaves its value alone.
NothingForgotten ==
  [][\A l \in Listings : /\ Known(legacy[l]) \subseteq Known(legacy'[l])
                         /\ Known(job[l]) \subseteq Known(job'[l])
                         /\ KnownPay(job[l]) \subseteq KnownPay(job'[l])]_vars

\* "Truthful persistence statistics from one collector invocation": jobs_inserted is
\* the number of rows that the commit makes appear, every listing fetched is counted
\* once as inserted, refreshed or failed, and a success means that each of them is in
\* both tables.
TruthfulStatistics ==
  [][\A r \in Runs : run[r].pc = "persist" /\ result'.status \in {"partial", "success"} /\ run'[r].pc = "idle" =>
       LET res == result'
       IN /\ res.inserted = Cardinality({l \in Listings : legacy'[l].stored /\ ~legacy[l].stored})
          /\ res.raw = res.inserted + res.refreshed + res.failed
          /\ res.status = "success" =>
               \A l \in {item[1] : item \in ToSet(run[r].raw)} : legacy'[l].stored /\ job'[l].stored]_vars

\* A run that succeeds has marked as seen, in both tables, every stored listing that
\* it came across and whose page is not gone: freshness takes no listing for stale
\* because its details were recent.
EveryListingSeen ==
  [][\A r \in Runs : run[r].pc = "persist" /\ result'.status = "success" /\ run'[r].pc = "idle" =>
       \A l \in {item[1] : item \in ToSet(run[r].raw)} \cup run[r].recent :
         /\ legacy'[l].stored => l \in result'.legacySeen
         /\ job'[l].stored => l \in result'.jobSeen]_vars

\* Rows replayed by --apply-local are no longer candidates for it: each call gets on
\* with other rows.
LocalRepairHelps == \A l \in repaired : ~Improvable(legacy[l], job[l])
=============================================================================
