# TLA+ models of the hireandtech backend

A FastAPI backend over PostgreSQL, Redis/arq and a private object store. Users
keep resumes, workers collect job listings from four sources, and asynchronous
searches match the two. This directory holds TLA+ modules translated from the
code under `src/app`, the TLC configurations that check them on small
instances, and TLAPS proofs of what matters most for every instance.

## 1. Inventory

| Part | State | Operations | Talks to | What is hard | What makes it correct |
|---|---|---|---|---|---|
| Resume management (`app/resumes/service.py`, `repository.py`, `storage.py`) | rows of `resumes` (status, version), rows of `resume_storage_cleanups` (the journal), objects in the bucket | `upload`, `replace`, `delete`, reads | PostgreSQL, object store, parse executor | two stores without a common transaction; crash, failure or cancellation at every await; racing requests | no orphaned object, no visible resume without its document, one winner, an acknowledged erasure is real |
| Reconciliation (`app/resumes/reconcile.py`) | row locks, one open transaction per batch | `reconcile_storage_cleanups` | the same two stores | races with requests and with other runs; lost transaction; partial batches | everything left behind is cleaned up, nothing else is |
| Parse executor (`app/resumes/execution.py`) | semaphore, waiters, threads | `parse`, done callback | event loop, threads | timeouts and cancellation while the thread goes on; hand-over of a slot | bounded threads, no leaked or doubled slot, waiters served |
| Collection task and lease (`app/queue/tasks/scrape.py`, `locks.py`) | Redis lock keys with a TTL | `run_job_collection`, `acquire`, `release` | Redis, arq, coordinator | expiry, late release, retry, dead worker, lost answers | never two collections of one target at once |
| Search (`app/search`) | `job_searches`, `job_search_results`, arq queue | `start_search`, `execute`, reads | PostgreSQL, Redis/arq | commit and enqueue are two steps; redelivery, timeout, error path | final status is final; only completed searches have results; accepted searches end |
| Scheduler (`app/queue/scheduler`) | interval claims, rotation cursor | `schedule_due_collections` | Redis, arq | claim before enqueue, windows | every target of a list that rests is collected again and again, and not too often |
| Canonical ingestion, freshness (`app/jobs/ingestion`, `app/repositories/canonical_jobs.py`) | companies, jobs, source observations | `ingest`, `touch_seen`, `deactivate_stale_sources` | PostgreSQL | advisory locks, read-committed snapshots, lock order | one observation per identity; a job is active iff a source is |
| Coordinator (`app/jobs/collection.py`) | legacy `global_jobs`, savepoints | `run`, `persist_raw_jobs` | collectors, ingestion | partial failure inside one transaction | statistics and rows agree; one bad listing harms no other |
| IP allowlist (`app/security/service.py`) | rules, audit events | create, update, delete, guard | PostgreSQL | concurrent administrators | whoever changed a rule last is not locked out |
| IP middleware, rate limiter (`app/security/middleware.py`, `ip.py`, `rate_limit.py`) | bounded counters | `resolve`, `consume` | allowlist | forwarding chains, eviction, window boundaries | strangers cannot choose their address; bounded memory that does not forget the client just counted |
| JWKS cache (`app/auth/verifier.py`) | keys, two timestamps | `verify` | HTTP | refresh across a lock; cooldown | a rotated key becomes usable; a withdrawn one ends with its time to live |
| Redis pool of the API (`app/queue/dependencies.py`) | one pool in app state | `get_redis` | Redis | check, await, set | a single pool |
| Matching (`app/jobs/matching`) | none | eligibility, scoring, ranking | canonical jobs | limits applied in the wrong order, odd dates | the saved results are the best; scores are percentages |
| Collectors (`app/jobs/sources`) | a cache (Glassdoor) | `discover`, `fetch_details`, `collect` | HTTP | shifting pages, retries, stop conditions, shared cache | no duplicates, no needless fetches, no listing lost |
| Normalization and merging (`app/jobs/ingestion/normalization.py`, `app/jobs/parsing`) | none | `extract_experience`, `parse_salary`, `normalize_job` | - | sequences of richer and poorer pages | nothing known is forgotten |
| Repair script (`scripts/repair_incomplete_dice_jobs.py`) | none | `--apply-local`, `--fetch-live` | both job tables | repeated calls with a limit | each call makes progress |
| PDF parsing and validation | none | text extraction | - | - | (outcomes only) |

Calls go from the HTTP routes to the services and from arq to the tasks; parts
share state only through PostgreSQL, Redis and the bucket.

## 2. Modules

| Module | Models | Kind |
|---|---|---|
| `ResumeLifecycle` | resume requests, journal, bucket, reconciler runs | specification, properties |
| `ResumeObjectLedger` | what the resume subsystem promises about an object | abstract specification |
| `MCResumeLifecycle` | instances for TLC | model |
| `ResumeLifecycleProofs` | proofs | proofs |
| `ParseExecutor`, `ParseExecutorProofs` | `BoundedThreadResumeParseExecutor` and `asyncio.Semaphore` | specification, proofs |
| `CollectionLease`, `MCCollectionLease`, `CollectionLeaseProofs` | `run_job_collection` and the Redis lease | specification, model, proofs |
| `SearchLifecycle`, `SearchLifecycleProofs` | `start_search` and `execute` under arq | specification, proofs |
| `Matching` | what `execute` finds: retrieval, eligibility, scores, ranking | functions and their reference definition |
| `JobSearch`, `MCSearch` | both of them; a pool of jobs | composition, model (proofs in `SearchLifecycleProofs`) |
| `CollectionScheduler`, `MCCollectionScheduler`, `CollectionSchedulerProofs` | `schedule_due_collections` | specification, model, proofs |
| `ListingFields` | what a source shows of a listing, how it is parsed, normalized and merged into the two job tables | functions |
| `CollectionRun`, `MCCollectionRun`, `CollectionRunProofs` | the four collectors, the coordinator, the repair script | specification over `ListingFields`, model, proofs of both |
| `CanonicalIngestion`, `MCCanonicalIngestion`, `CanonicalIngestionProofs` | collection transactions, `ingest`, the stale-source cron | specification, model, proofs |
| `AccessControl` | IP middleware, rate limiter, allowlist administration | specification |
| `TokenVerifier` | `SupabaseJwtVerifier` and its key cache | specification |
| `RequestGate`, `MCRequestGate`, `RequestGateProofs` | the two gates before every route | composition, model, proofs (of each gate and of both together) |

`PROJECT.json` maps every definition to the lines it stands for. Operators
whose comment starts with "Mutant:" are plausible mistakes, each of which makes
one property fail; no specification uses them.

### ResumeLifecycle

A request draws a fresh uuid4 and the object key is a function of it, so the
model names a resume, its object and its intent by the request that creates
them (`Ids`). `status` and `version` are the committed row, `intent[k]` the
request that inserted the cleanup row of key `k`, `due` the keys whose
`available_at` has passed, `objects` the bucket. `pc`, `op`, `tgt`, `seen`,
`row` and `reply` are the local state of the request coroutines, `held`, `todo`
and `purged` that of the reconciler runs.

One action is the code between two awaits on a store; a database transaction is
one step, its commit, because the session reads nothing between its flushes.
The exception is the reconciler, which holds its rows locked (`SELECT ... FOR
UPDATE SKIP LOCKED`) while it calls the object store: `held` keeps other runs
from taking them and makes a request's `DELETE` of the row wait, until the
statement timeout. Soft deletion uses SQLAlchemy's version column: `Fresh`
compares the version read with the one committed, and `StaleDataError` is the
"conflict" answer. `ClearTarget` removes the row the request itself inserted or
found, as the `DELETE` by primary key does, not whichever row the key has now.

Failures: every commit and storage call may fail, a failed delete may have
deleted (`DeleteFails`), a request may be cancelled or die at every await
(`Cancel`), the reconciler may die (`AbortSweep`) or lose its transaction to
`idle_in_transaction_session_timeout` while its loop goes on
(`LoseTransaction`, `FailCommit`). After a rollback the ORM has expired the
cleanup row; `Compensate` therefore includes the outcome in which reading its
key raises and nothing is deleted.

Two constants switch assumptions. `SlowRequests` lets a request outlive the 15
minutes of its own intent; `AmbiguousUpload` lets an upload that raised have
stored its object.

Left out: `attempts` and `last_error_code` (written, never read), the contents
of rows and documents, and commits whose answer is lost.

### ParseExecutor

The semaphore's value, its queue of waiters, the place of each call, its thread
and the set `deferred` of calls whose slot the done callback is to release. A
call is issued again only when its earlier thread has ended; more calls than
slots stand for the rest.

The semaphore is that of CPython 3.12 (`requires-python` admits no other). A
released slot goes to the first waiter, which runs later ("woken") and may be
cancelled before it does. `locked()` is true as long as a woken waiter has not
run, so that a newcomer queues behind it even when another slot is free
(`Locked`); in return `acquire` wakes as many waiters as there are free slots
whenever its own wait is over, by success or cancellation (`WakeAll` in `Resume`,
`CancelWoken` and `Leave`). A slot may thus be free while a call waits, but only
for a moment: `NoLostWakeUp` says that a woken waiter is then still to run, and
`WaiterServed` that the call is served in the end. `waiters` are the pending
futures; one that is cancelled counts no more, although its call leaves later.

### CollectionLease

A token is a job and its try. `Tick` advances the age of the tries that run and
ages the leases; a try that has reached its timeout is cancelled within `Lag`
ticks, and may take any time to unwind afterwards. Arq retries `Retry` and lost
workers up to `MaxTries`, and does not retry a timeout. A shielded release whose
task was cancelled stays in `detached` and may reach Redis at any later time.

### SearchLifecycle

The PROCESSING status and the stages are flushed and never committed, so an
execution only locks the row (`lock`) until its single commit. `dropped`
records the searches one of whose deliveries arq gave up on.

### Matching

`Results` is `execute` from the read of the jobs to the rows it saves;
`ResultsAreBest` says without the algorithm what they are: who is read, who is
eligible, who is outranked by few. `ORDER BY` and `sorted` are `InOrder`, the list
of a set in the order of a relation. `JobSearch` puts the functions beside the
life of a search and states `SearchFindsBest`; `MCSearch` evaluates it for every
subset of seven jobs and every combination of a candidate and a search. Whether
the words of a search match a job is a flag of the job, and a place is equal or
not. Scores and times are whole numbers of parts: `Scale` is how many parts a
point has, and a day, so that the shares of a job's skills come out whole. Every
finite set of jobs has such a scale; the rounding of floating-point numbers is
left out.

### CollectionScheduler

One source. `due` is the time to live of the claim `SET NX EX`, `cursor` the
rotation offset in Redis, `known` the job ids that arq remembers; `pc`, `now`,
`age` and `todo` are the local state of the cron jobs, `now` the time read at the
beginning. `BuildTargets` says which list the code builds (the first mention of
each target, in order, cut at `MaxQueries`) rather than how.
`Claim` is the claim and the rotation, `Enqueue` one `enqueue_job`, which may
raise; a cron job may crash between any two. `since` is a history variable.
`ChangeProfiles` may replace the list of targets by another, or by another order
of the same, at any time and as often as it likes, because the query for the
profiles has no ORDER BY. Arq knows an id while the collection is queued or
runs, and for its `keep_result` (an hour) afterwards, which is less than the
interval of Glassdoor: `Tick` may forget an id `KeepResult` after the target was
enqueued, or any time later (of two ids of one target the older one is kept along
with the younger). The clock runs modulo `Windows` intervals, ids of windows that
are over being forgotten before they come round again.

### ListingFields and CollectionRun

A payload says which core fields a listing shows, which numbers the expressions
for years and salaries match, in order, and the structured salary. From there on
the functions are those of the code: the first sane match, `k` belonging to both
ends of a range, what is no salary, the preferences of each source, the field
by field merge of `global_jobs` and of `jobs`, the CHECK constraints.

`CollectionRun` has one action per page, retry, detail page and transaction.
A run reads what is stored, splits the listings into recent ones and ones to
fetch, fetches, and writes everything with its commit; any request or commit may
fail (`Abort`). Two runs share the Glassdoor collector and its cache. The
repair script replays legacy rows (`ApplyLocal`) or fetches pages
(`FetchLive`). How transactions wait for each other is left to
`CanonicalIngestion`.

### AccessControl and TokenVerifier

A request passes the allowlist, the limiter and the application; an
administrator's request then takes the advisory lock, checks and commits.
`rules` are the committed rows, `keeper` (history) the address whose change of
an existing rule came last. The limiter's ordered dictionary is the set
`entries` of its keys with their `age` and `count`, and the order `older` in
which they were put in. `Resolve` works on the parsed chain, `None` being a part
that does not parse; the loop that peels hops from the right ends at the last
hop that is no proxy, or at the first hop when all are proxies. One part that does
not parse, wherever it stands and whoever wrote it, leaves the request without an
address. The model is of an enabled allowlist (`ip_allowlist_enabled`): with a
disabled one the middleware and `_guard_lockout` return at once.

`TokenVerifier` has one action per await of `verify`: waiting for the lock and
fetching. `queue` is the line of those who wait: `asyncio.Lock` serves them in
order, and `WithdrawnKeysExpire` depends on it. With a lock that any waiter might
get, a verification that was overtaken by a fetch could be passed over until the
keys of that fetch are old, and then be served without looking at their age (it
only sees that `_fetched_at` has moved). Ages count from the time a fetch began,
since the document may have changed while it was on its way; `Published` is the
sequence of key sets that the provider shows, in which a key may come back.
`MaxFetch`, the longest time of a fetch, is an assumption: the timeout given to
`urlopen` bounds each operation of the socket, not their sum. The two modules
share no state, so that `RequestGate` lets one behaviour exercise one of them.

### CanonicalIngestion

One action per SQL statement or ORM flush. `val` is the committed `is_active` of
every row of `job_sources` and `jobs`, `new` the version of the transaction that
holds the row's `lock`, `identity` the advisory locks. A transaction reads its
own versions and otherwise the committed ones (READ COMMITTED). The cron's
second UPDATE is two steps, snapshot (`Scan`) and write (`Apply`), because
PostgreSQL re-checks only the locked row after a wait. `Reactivated` is the ORM's
rule that an attribute set to the value it was loaded with is not written. `age`
counts `last_seen_at` in periods; age 0 is within the safety window, `StaleAge`
beyond the stale threshold. Time passes only between transactions, which last
minutes where the thresholds are hours. Every wait may also end in an error
(`FailItem`, `Abort`, `CronAbort`: statement timeout, deadlock, crash).

Left out: companies, the contents of the rows, the counters, `last_seen_at` of
jobs (only an order of presentation).

## 3. Runs

| Run | Checks | Instance |
|---|---|---|
| `resume_races` | `OneSuccessor`, `AcknowledgedErasure`, `FailureIsInvisible`, `OwnerIsolation` | 2 requests, 2 existing resumes of 2 owners, both flags on |
| `resume_converges` | `TypeOK`, `EveryObjectTracked`, `VisibleResumeStored`, `ImplementsLedger`, `StorageConverges` | 2 requests, 1 existing resume, 2 reconcilers; prompt requests, unambiguous uploads, `FairSpec` |
| `resume_ambiguous` | `EveryObjectTracked` (violated) | ambiguous uploads |
| `parse_executor` | `TypeOK`, `BoundedThreads`, `SlotsConserved`, `NoLostWakeUp`, `WaiterServed` | 4 calls, 2 slots, `FairSpec` |
| `collection_lease` | `NonOverlap` | 3 jobs, 2 targets, 2 tries, timeout 2, lag 1, TTL 4 |
| `scheduler` | `TypeOK`, `Cadence`, `EveryTargetCollected` | 2 cron jobs, lists of 1 or 2 targets of 2 profiles, batches of 1, interval 3, ids known for 2, 1 fault; profiles change at will |
| `collection_run` | `TypeOK`, `CacheServes`, `LocalRepairHelps`, `NoNeedlessFetch`, `NothingForgotten`, `TruthfulStatistics`, `EveryListingSeen` | each of the 4 sources, 2 runs at once for Glassdoor, 2 listings, 2 pages of 2, 2 attempts, 4 forms of a payload |
| `request_gate` | `GateTypeOK`, `ForeignHopsChooseNoAddress`, `KeeperNotLockedOut`, `WithdrawnKeysExpire`, `RotatedKeyUsable`, `LatestClientCounted` | 2 requests, 3 addresses, 2 networks, 2 counters, chains of 2 hops; 2 tokens, 3 key ids, 4 key sets |
| `search` | `TypeOK`, `ResultsMeanCompleted`, `SearchFindsBest`, `TerminalIsFinal`, `AcceptedEnds` | 2 searches (one with an ambiguous enqueue and redeliveries), 2 executions, 3 tries, `FairSpec`; pools of up to 7 jobs |
| `search_ambiguous` | `FailedHasNoResults` (violated) | ambiguous enqueue |
| `ingestion` | `TypeOK`, `NoOrphanJob`, `FreshStaysActive`, `Reshown` | 2 listings of one provider and one opening, 2 collections, the cron |
| `ingestion_race` | `RemainsActive` (violated) | 3 listings of 2 providers, 2 collections, the cron |

Bounds. Two requests suffice for every pairwise race, a replacement that is itself
replaced or deleted included, because a request's new resume is a target of the
others; the proofs cover any number. A batch limit of one makes two reconcilers
work on different rows of one journal. Four calls on two slots allow two abandoned
threads and two waiters. Two listings of one opening share a job and let one keep
the provider healthy while the other is stale. The lease run uses the smallest
times that keep timeout, lag and TTL apart. Two targets, one at a time, in both
orders, make the rotation depend on the cursor and the order; an interval of three
ticks lets claims and windows be out of step, and ids be forgotten before the
interval is over. Two listings on pages of two that may shift, repeat or come up
short give a repeated listing, a full page and a last page; the payloads are chosen
such that merges meet poorer, contradictory and refused values. With two counters
and three addresses a third client evicts one. Two tokens and four key sets (old,
both, new, another one) are a rotation with a token behind and one ahead of it.
Deadlock is not checked where the system may stop: when every request has answered
and no intent is left, or every search has ended.

Fairness. `ResumeLifecycle`: a begun request is driven on (every store call has
a timeout), time passes, and the reconciler is run again and again
(`docs/deployment-phase-05.md` demands at least every 15 minutes); cancellation
and outages are never fair, and `StorageConverges` speaks of what happens when
outages have ended. `ParseExecutor`: the event loop runs what is ready and
threads end; the code cannot enforce the latter, hence the hazard note.
`SearchLifecycle`: the workers take jobs and run them. `CollectionScheduler`:
arq's cron starts the job again and again, time passes and a started cron job
goes on; crashes and errors are never fair, and `MaxFaults` bounds them. Time is
strongly fair (`SF`): the model holds the clock while a cron job is at the end of its
time, which must not be mistaken for time standing still. `EveryTargetCollected`
speaks of a list that has come to rest, and after the faults.
`CanonicalIngestion` needs none: `Reshown` names what must happen again and
again in its premise.

## 4. Findings

- **Orphan after a lost upload answer** (`resume_ambiguous`). `upload` and
  `replace` clear the intent without a delete when `storage.upload` raises,
  although a lost answer does not mean that nothing was stored.
- **FAILED over COMPLETED** (`search_ambiguous`). `start_search` marks the search
  failed after an enqueue error without looking at the row, possibly after the
  worker completed it.
- **Active source, inactive job** (`ingestion_race`). The cron's UPDATE of `jobs`
  decides on its snapshot that a job has no active source, waits for the
  collection that is giving it one, and deactivates it all the same. `Reshown`
  shows that the next confirmation repairs it.

Met on the way, without a run:

- `docs/search-and-matching.md:21-23` and `README.md:179` still say that every
  search ends as failed at `candidate_retrieval_not_implemented`; `execute`
  completes searches.
- The ends of a range merge independently (`repositories/jobs.py:209`,
  `canonical_jobs.py:414-430`). When "1-3 years" becomes "5+ years", the merged
  row (5, 3) violates `experience_ordered` at every later collection, and the
  listing goes stale although it is seen. Structured salaries with the ends
  exchanged do the same to `salary_ordered`.
- One detail page that fails rolls back the touches of all other listings.
- HiringCafe's `collect` turns every error into a success with no listings.
- Glassdoor's `_cache` is never emptied.
- `--fetch-live` takes the lowest ids first: rows whose pages are gone come
  first for ever.
- A listing whose canonical ingestion failed is not tried again for six hours
  when its legacy row is complete.
- `get_redis` (`queue/dependencies.py:14`, "Ensure a single pool exists")
  creates two pools when two first requests overlap.
- `search_candidate_limit` cuts before the eligibility rules.
- The scheduler keeps the first 100 targets of a query without an order.
- The same query (`scheduler/collection.py:92`, no ORDER BY) can starve a search of
  Glassdoor, since the rotation cursor is a position in a list whose order the
  database chooses anew at each run. With batches of 2 and the lists abc, acb,
  cab in turn, the cursor is at 0, 2, 1 and `c` is never selected. TLC finds such
  behaviours when the premise of `EveryTargetCollected` only says that the target
  stays on the list; `docs/GLASSDOOR_SCRAPING_ARCHITECTURE_V3.md:94` says of this
  rotation that it "guarantees that all candidate searches are serviced fairly".
- A request that outlives the 15 minutes of its own cleanup intent
  (`resumes/service.py:452`), for instance in the queue for a parse slot, which has no
  time limit, may lose its object to the reconciler. `VisibleResumeStored` does
  not cover it: its run and its theorem take requests to be prompt.

## 5. Proofs

All theorems are of the specifications that TLC checks, for every value of the
constants that the named assumptions allow; TLC evaluates the assumptions in
each run, and every inductive invariant below also holds in all states TLC reaches
on the instance of the run. Each component's proofs follow one pattern: a lemma per
part of the inductive invariant with one step per action, lemmas for actions that
several parts need (`SaveStep`, `ClaimStep`, `ConsumeStep`, ...), and the theorems
at the end.

**`ResumeLifecycleProofs`**, for any sets of requests, resumes, owners and
reconcilers and any batch limit.

- `TypeCorrect`.
- `SuccessorIsUnique`, `ErasureIsFinal`, `FailurePublishesNothing`: `OneSuccessor`,
  `AcknowledgedErasure` and `FailureIsInvisible`, without any assumption on timing
  or uploads. `RaceInv` adds that the version counts the committed changes of a
  row (`VersionInv`: 0, 1, 2 for absent, active, deleted), that a request has no
  row and no answer before its commit (`OwnInv`), and that the version a request
  has read is that of an active resume (`TargetInv`). Thus a fresh version means
  that the target is still active, which makes the swap unique.
- `NoOrphanedObject`, `VisibleKeepsDocument`: `EveryObjectTracked` and
  `VisibleResumeStored`, assuming `Prompt` (both flags off). `JournalInv` adds that
  a request's object is covered by its own intent from before the upload until
  the commit (`OwnJournal`), and that whatever is due or in a reconciler's hands is
  `Condemned`, that is retired or of a request that is over and will never publish
  it (`SweepInv`). That is why a reconciler never deletes a visible document and
  never forgets one.
- `LedgerIsImplemented`: under `Prompt`, the refinement of `ResumeObjectLedger`.
  Initial states map to initial states; each action is shown to be a step of the
  ledger for one object or to leave the ledger alone.
- `OwnersAreIsolated`: the action property `OwnerIsolation`.

**`CollectionLeaseProofs`**: `CollectionsDoNotOverlap` for any jobs, targets,
tries and times with `TaskTimeout + Lag < LockTtl`: the lease of a running
collection is its own and its remaining time plus the age of the try is at least
the TTL (`Guarded`), and the detached release scripts belong to tries that are
over (`DetachedAreOver`, `DetachedArePast`).

**`ParseExecutorProofs`**, for any number of calls and slots: `ExecutorTypes`,
`SlotsAddUp`, `WakeUpsAreNotLost`, `ThreadsBounded`. `ShapeInv` says which
combinations of call, thread, queue and deferred release occur, `SlotInv` that the
free slots and the holders add up. A step changes the set of holders by one call
and by the waiters it wakes, which are as many different calls as slots are taken
for them (`FirstWaiters`, `WakeUpKeepsSlots`), so its cardinality follows.
`BoundedThreads` holds because every running thread is a holder.

**`SearchLifecycleProofs`**, for any searches, executions and tries:
`SearchTypes`, `ResultsAreOfCompleted`, `FinalStatusStays`. `ExecutionInv` ties the
row lock to the one execution between its first flush and its commit; `CleanInv`
says that the job of a search whose enqueue was not ambiguous is nowhere before
`start_search` has enqueued it, and has one place at a time afterwards.

`BestAreFound` proves `SearchFindsBest` for every set of jobs with distinct ids,
every profile and every limit. Both orders are strict (`OrdersAreStrict`), so the
number of jobs before a job is its place in the list (`ListExists`: there is such
a list; `ListPlaces`: in every such list), and cutting the list after `n` leaves
those with fewer than `n` before them (`FirstInOrder`). This is applied twice, to
the read and to the ranking, with the eligibility rules in between.
`ScoreIsPercentage` bounds the score for any skills and dates.

**`CollectionSchedulerProofs`**, for any profiles, batch, interval, timeout below
it and number of cron jobs: `SchedulerTypes` and `CadenceIsKept`. A cron job that
enqueues holds a claim not older than itself (`ClaimInv`), so there is one at a
time (`OneInv`) and what it enqueues is at most `MaxAge` behind the claim
(`SinceInv`). Its own ids stay known while it runs (`FirstInv`), because they are
no older than it is, `MaxAge` is less than `KeepResult`, and its time lies in the
current window or the one before (`ClockInv`, and the lemma `WindowStep` of modular
arithmetic).

**`RequestGateProofs`**, first for any requests, addresses, networks, rules, route
groups, limits and windows, and a capacity of at least two (the settings demand
100):

- `KeeperStaysIn`. `PendingInv`: the change that a request has checked is sound
  for the rules as they are now, as long as it holds the lock (`MutexInv`);
  creating a rule only covers more (`MoreRulesCoverMore`).
- `LatestClientStays`. `OrderInv`: the key consumed last is last in the order while
  its window runs, so with at least two places somebody else is evicted.
- `ForeignHopsChooseNothing`, for chains of any length: what parses behind the first
  foreign hop changes nothing (`FarHopsIgnored`), and what does not parse spoils the
  whole chain (`ConcatKeepsParts`).
- `AccessTypes`: capacity, total order of the entries, one rule of a network.

Then for any number of concurrent tokens, any sequence of key
sets and any times: `WithdrawnKeysAreForgotten` and `NewKeysAreFound`. `AgeInv`
relates the cached and the fetched documents to what was withdrawn since,
`OfferInv` to what was published since; `FreshInv` says that between a token that
was overtaken by a fetch and the lock stand only tokens that will not fetch, so
that it is served while the keys are young. `VerifierTypes`, and with
`AccessTypes` the composition: `GateTypes`.

**`CanonicalIngestionProofs`**, for any listings, providers, URLs, openings and
any number of concurrent collections: `GraphStaysWhole`, `FreshListingsStay`,
`IngestionTypes`. `GraphInv` says that the graph is whole at every moment but for
the listing in hand: a job that a transaction has written exists, is the one just
made, or has an observation by the same transaction (`JobInv`); an observation it
has written has a job that exists or that it made for a listing it is done with
(`SrcInv`), which is why the savepoint of a later listing never takes that job
back. `Steady` collects what no step does to the rows of others. For
`FreshStaysActive`, a row has one writer, and the cron writes rows of stale
observations only (`FreshInv`).

**`CollectionRunProofs`**, for any listings, payloads, runs, page sizes and limits:
every property of `CollectionRun`.

The loops of `discover`, of the filter before `fetch_details` and of
`persist_raw_jobs` are recursive functions, about which nothing is known until
they are shown to exist. `SetInduction` is induction over the naturals for a set
(from the library's theorem that `<` is well founded), `LoopExists` that a loop
whose body maps a set to itself has a value after every pass, `LoopUnique` that
the recursive function is that loop. What each loop computes follows by one more
induction over its passes:

- `AddNewFacts`: the collected list holds each listing once, at most `max_jobs`,
  and only from the pages; `FilterFacts`: the filter keeps exactly the members.
- `PersistFacts`: after `i` items, `SaveInv` holds. The counts add up to `i` and
  `inserted` is the number of rows that appeared (`CountsInv`), no field is lost
  (`KeepInv`), what is seen is stored, recent and has its payload (`SeenInv`), and without a
  failure all items so far are in both tables (`AllSeen`). `ItemStep` says what
  one item does: nothing but a count, a legacy row, or both rows (savepoints).
- `MergedLegacy` and `MergedJob`: a merge keeps every known field and its types;
  `NormalizedTyped`: parsing and normalization give facts of the right type
  for any matches of the expressions.

The inductive invariant is `DataOK /\ RunsOK /\ DoneOK`. `RunsOK` says for every
run at every place (`PlaceOK`) that the listings found are distinct, that nothing
is fetched before the split, and that those of a Glassdoor run are in the cache,
which only grows, until it has served all that are not recent; `DoneOK` that a
listing persisted in both tables within six hours is recent and has its payload.
It gives `TypeCorrect`, `CacheIsEnough`, `RepairHelps`, and the action properties
`FetchIsNeeded`, `NothingIsForgotten`, `StatisticsAreTruthful` and
`EverythingIsSeen`.

Only model-checked: the liveness properties `StorageConverges`, `WaiterServed`,
`AcceptedEnds`, `EveryTargetCollected` and `Reshown`, since liveness under
fairness is out of the prover's reach. Every invariant and every safety property
of an action that a passing run checks is also proved.

The prover cannot look into recursive library operators that take an operator
(`SelectSeq`, `SortSeq`, the folds). For this reason the loops that theorems are about are
recursive functions, sorting is the choice of an ordered list, `BuildTargets` is a
condition on lists and `Resolve` a closed form.

## 6. Plan

- `CollectionLease` and `ResumeLifecycle`: are the assumptions of the theorems
  (`TaskTimeout + Lag < LockTtl`, `Prompt`) the weakest ones?
- The hazards without a property: commits whose answer is lost, searches whose
  enqueue never happened, the order in which rows are locked.

## 7. Not modelled

Regular expressions over free text, titles and skills; where a field stands in
HTML or JSON (whether it is there is a choice); resume validation and the PDF
parser, whose outcomes are inputs; signatures and claims of tokens; the audit
events; the read-only endpoints; the framework wiring, configuration, logging
and migrations; the lazily created Redis pool; `collect_jobs`, which calls the
coordinator by hand. Companies and `last_seen_at` of jobs appear nowhere. A
commit whose answer is lost is taken to fail or to succeed visibly.
