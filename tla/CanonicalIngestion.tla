-------------------------- MODULE CanonicalIngestion --------------------------
(***************************************************************************)
(* Canonical jobs and their source observations: the transactions of the   *)
(* collection coordinator (app/jobs/collection.py), of canonical ingestion *)
(* (app/jobs/ingestion/service.py) and of the cron that deactivates stale  *)
(* sources, over the statements of app/repositories/canonical_jobs.py.     *)
(*                                                                         *)
(* The database runs at READ COMMITTED.  A row is read as last committed   *)
(* or as written by the reading transaction; a written row is locked until *)
(* its transaction ends.  An UPDATE that meets a lock waits and then looks *)
(* at the new version of that row, but keeps what it saw of other rows.    *)
(* The ORM writes only the columns whose value differs from the one it     *)
(* loaded.                                                                 *)
(*                                                                         *)
(* A listing is a provider identity (source, source_job_id); a canonical   *)
(* job is named by the listing whose ingestion created it.                 *)
(***************************************************************************)
EXTENDS Naturals, FiniteSets

CONSTANTS Listings,     \* provider identities
          SourceOf,     \* the provider of a listing
          Url,          \* its normalized URL
          Opening,      \* listings with enough evidence to be one opening
          Collections,  \* collection tasks that may run at the same time
          Cron,         \* the transaction of deactivate_stale_jobs_cron
          StaleAge,     \* age of last_seen_at, in periods, that is stale
          None

Txs == Collections \cup {Cron}

\* Rows of job_sources and of jobs.
SrcRow(l) == <<"src", l>>
JobRow(l) == <<"job", l>>
Rows == {"src", "job"} \X Listings
Values == {"absent", "active", "inactive"}

ASSUME ListingAssumption ==
  /\ DOMAIN SourceOf = Listings /\ DOMAIN Url = Listings /\ DOMAIN Opening = Listings
ASSUME TxAssumption ==
  Cron \notin Collections /\ None \notin Txs \cup Listings
ASSUME StaleAssumption == StaleAge \in Nat \ {0}

VARIABLES val,      \* committed is_active of every row
          new,      \* version written by the transaction that locks the row
          lock,     \* that transaction, or None
          of,       \* job_id of an observation
          age,      \* periods since the committed last_seen_at
          legacy,   \* identities with a row in global_jobs
          identity, \* holder of the advisory lock of an identity
          pc,       \* where a collection is
          recent,   \* listings it only touches
          todo,     \* listings it has still to persist
          item,     \* listing it is ingesting
          loaded,   \* is_active of the source and the job as the ORM loaded them
          pick,     \* canonical job the listing is attached to
          wrote,    \* listings with an uncommitted global_jobs write
          cron,     \* where the cron is
          found     \* jobs its second UPDATE saw without an active source

rows == <<val, new, lock>>
task == <<recent, todo, item, loaded, pick, wrote>>
vars == <<rows, of, age, legacy, identity, pc, task, cron, found>>

Init ==
  /\ val = [x \in Rows |-> "absent"]
  /\ new = [x \in Rows |-> "absent"]
  /\ lock = [x \in Rows |-> None]
  /\ of = [l \in Listings |-> l]
  /\ age = [l \in Listings |-> 0]
  /\ legacy = {}
  /\ identity = [l \in Listings |-> None]
  /\ pc = [c \in Collections |-> "idle"]
  /\ recent = [c \in Collections |-> {}]
  /\ todo = [c \in Collections |-> {}]
  /\ item = [c \in Collections |-> None]
  /\ loaded = [c \in Collections |-> [src |-> "absent", job |-> "absent"]]
  /\ pick = [c \in Collections |-> None]
  /\ wrote = [c \in Collections |-> {}]
  /\ cron = "idle"
  /\ found = {}

-----------------------------------------------------------------------------
(* Statements and transactions.                                            *)

\* What a statement of transaction t reads.
Read(t, x) == IF lock[x] = t THEN new[x] ELSE val[x]

\* An INSERT or UPDATE of the rows in the domain of w, once their locks are free.
Write(t, w) ==
  /\ \A x \in DOMAIN w : lock[x] \in {None, t}
  /\ lock' = [x \in Rows |-> IF x \in DOMAIN w THEN t ELSE lock[x]]
  /\ new' = [x \in Rows |-> IF x \in DOMAIN w THEN w[x] ELSE new[x]]
  /\ UNCHANGED val

Forget(xs) ==
  /\ lock' = [x \in Rows |-> IF x \in xs THEN None ELSE lock[x]]
  /\ new' = [x \in Rows |-> IF x \in xs THEN "absent" ELSE new[x]]

LockedBy(t) == {x \in Rows : lock[x] = t}

CommitRows(t) ==
  /\ val' = [x \in Rows |-> Read(t, x)]
  /\ age' = [l \in Listings |->
               IF lock[SrcRow(l)] = t /\ t # Cron THEN 0 ELSE age[l]]
  /\ Forget(LockedBy(t))

Rollback(t) == Forget(LockedBy(t)) /\ UNCHANGED <<val, age>>

\* Mutant: a row that was there is never set active again.
NeverReactivated(t, x, old) == IF old = "absent" THEN "active" ELSE Read(t, x)

\* row.is_active = True: part of the UPDATE only if the row was loaded inactive.
Reactivated(t, x, old) == IF old = "active" THEN Read(t, x) ELSE "active"

Goto(c, step) == pc' = [pc EXCEPT ![c] = step]

-----------------------------------------------------------------------------
(* CollectionCoordinator.run: discovery and the listings fetched recently. *)

\* discover for a target of one provider, then the bulk reads that tell recently
\* scraped listings apart: whether a known one counts depends on its details.
Discover(c) ==
  /\ pc[c] = "idle"
  /\ \E seen \in SUBSET Listings : \E r \in SUBSET (seen \cap legacy) :
       /\ seen # {} /\ \A k, l \in seen : SourceOf[k] = SourceOf[l]
       /\ recent' = [recent EXCEPT ![c] = r]
       /\ todo' = [todo EXCEPT ![c] = seen \ r]
       /\ Goto(c, IF r = {} THEN "fetch" ELSE "touch_jobs")
  /\ UNCHANGED <<rows, of, age, legacy, identity, item, loaded, pick, wrote, cron, found>>

Known(c) == {l \in recent[c] : Read(c, SrcRow(l)) # "absent"}

\* touch_sources_seen, first the jobs ...
TouchJobs(c) ==
  /\ pc[c] = "touch_jobs"
  /\ Write(c, [x \in {JobRow(of[l]) : l \in Known(c)} |-> "active"])
  /\ Goto(c, "touch_sources")
  /\ UNCHANGED <<of, age, legacy, identity, task, cron, found>>

\* ... then the observations.
TouchSources(c) ==
  /\ pc[c] = "touch_sources"
  /\ Write(c, [x \in {SrcRow(l) : l \in Known(c)} |-> "active"])
  /\ Goto(c, "fetch")
  /\ UNCHANGED <<of, age, legacy, identity, task, cron, found>>

\* fetch_details returns what could be parsed, with the transaction open.
Fetch(c) ==
  /\ pc[c] = "fetch"
  /\ \E raw \in SUBSET todo[c] : todo' = [todo EXCEPT ![c] = raw]
  /\ Goto(c, "items")
  /\ UNCHANGED <<rows, of, age, legacy, identity, recent, item, loaded, pick, wrote, cron, found>>

-----------------------------------------------------------------------------
(* persist_raw_jobs: two savepoints per listing.                           *)

NextItem(c, l) == todo' = [todo EXCEPT ![c] = @ \ {l}] /\ Goto(c, "items")

\* The legacy row first: normalization or the upsert may fail, which costs this
\* listing only; another transaction's uncommitted upsert of it is waited for.
Upsert(c, l) ==
  /\ pc[c] = "items" /\ l \in todo[c]
  /\ \/ /\ \A d \in Collections \ {c} : l \notin wrote[d]
        /\ wrote' = [wrote EXCEPT ![c] = @ \cup {l}]
        /\ item' = [item EXCEPT ![c] = l]
        /\ Goto(c, "ingest")
        /\ UNCHANGED todo
     \/ NextItem(c, l) /\ UNCHANGED <<wrote, item>>
  /\ UNCHANGED <<rows, of, age, legacy, identity, recent, loaded, pick, cron, found>>

\* lock_source_identity and get_source.
Load(c) ==
  /\ pc[c] = "ingest" /\ identity[item[c]] = None
  /\ identity' = [identity EXCEPT ![item[c]] = c]
  /\ loaded' = [loaded EXCEPT ![c].src = Read(c, SrcRow(item[c]))]
  /\ Goto(c, "resolve")
  /\ UNCHANGED <<rows, of, age, legacy, recent, todo, item, pick, wrote, cron, found>>

\* find_job_by_source_url: any observation of this provider with this URL.
SameUrl(c) ==
  {of[k] : k \in {k \in Listings : /\ Read(c, SrcRow(k)) # "absent"
                                   /\ SourceOf[k] = SourceOf[item[c]]
                                   /\ Url[k] = Url[item[c]]}}

\* evaluate_cross_source_candidate: title, place, type, text and date tell enough.
SameOpening(j, l) == Opening[j] = Opening[l]

\* find_dedup_candidates: active jobs only.
Candidates(c) ==
  {j \in Listings : Read(c, JobRow(j)) = "active" /\ SameOpening(j, item[c])}

\* Mutant: no job is created when there is none to attach to.
ResolveWithoutCreate(c) ==
  /\ pc[c] = "resolve"
  /\ pick' = [pick EXCEPT ![c] =
                IF loaded[c].src # "absent" THEN of[item[c]]
                ELSE IF \E j \in Candidates(c) : TRUE
                       THEN CHOOSE j \in Candidates(c) : TRUE ELSE None]
  /\ loaded' = [loaded EXCEPT ![c].job = "active"]
  /\ Goto(c, "save")
  /\ UNCHANGED <<rows, of, age, legacy, identity, recent, todo, item, wrote, cron, found>>

\* The job to attach to: that of the known observation, one with the same URL, a
\* candidate, or a new one (create_job).
Resolve(c) ==
  LET known == loaded[c].src # "absent"
      choice == IF known THEN {of[item[c]]}
                ELSE IF SameUrl(c) # {} THEN SameUrl(c) ELSE Candidates(c)
  IN /\ pc[c] = "resolve"
     /\ \/ /\ choice # {}
           /\ \E j \in choice :
                /\ pick' = [pick EXCEPT ![c] = j]
                /\ loaded' = [loaded EXCEPT ![c].job = Read(c, JobRow(j))]
           /\ UNCHANGED rows
        \/ /\ choice = {}
           /\ pick' = [pick EXCEPT ![c] = item[c]]
           /\ loaded' = [loaded EXCEPT ![c].job = "active"]
           /\ Write(c, [x \in {JobRow(item[c])} |-> "active"])
     /\ Goto(c, "save")
     /\ UNCHANGED <<of, age, legacy, identity, recent, todo, item, wrote, cron, found>>

\* refresh_source, or mark_canonical_seen and create_source, in one flush; the
\* unique key refuses an observation that is there by now.
Save(c) ==
  LET s == SrcRow(item[c])
      j == JobRow(pick[c])
  IN /\ pc[c] = "save"
     /\ loaded[c].src = "absent" => Read(c, s) = "absent"
     /\ Write(c, [x \in {s, j} |->
                    Reactivated(c, x, IF x = s THEN loaded[c].src ELSE loaded[c].job)])
     /\ of' = [of EXCEPT ![item[c]] = pick[c]]
     /\ NextItem(c, item[c])
     /\ UNCHANGED <<age, legacy, identity, recent, item, loaded, pick, wrote, cron, found>>

\* Mutant: canonical ingestion without a savepoint of its own.
FailWithoutSavepoint(c) ==
  /\ pc[c] \in {"ingest", "resolve", "save"}
  /\ NextItem(c, item[c])
  /\ UNCHANGED <<rows, of, age, legacy, identity, recent, item, loaded, pick, wrote, cron, found>>

\* The ingestion of one listing fails: the savepoint takes back its rows and its
\* advisory lock, the legacy write stays.
FailItem(c) ==
  /\ pc[c] \in {"ingest", "resolve", "save"}
  /\ Forget({x \in LockedBy(c) : x = JobRow(item[c]) /\ val[x] = "absent"})
  /\ UNCHANGED val
  /\ identity' = [identity EXCEPT ![item[c]] = IF @ = c THEN None ELSE @]
  /\ NextItem(c, item[c])
  /\ UNCHANGED <<of, age, legacy, recent, item, loaded, pick, wrote, cron, found>>

\* The end of a collection's transaction.
End(c) ==
  /\ identity' = [l \in Listings |-> IF identity[l] = c THEN None ELSE identity[l]]
  /\ recent' = [recent EXCEPT ![c] = {}]
  /\ todo' = [todo EXCEPT ![c] = {}]
  /\ item' = [item EXCEPT ![c] = None]
  /\ loaded' = [loaded EXCEPT ![c] = [src |-> "absent", job |-> "absent"]]
  /\ pick' = [pick EXCEPT ![c] = None]
  /\ wrote' = [wrote EXCEPT ![c] = {}]
  /\ Goto(c, "idle")
  /\ UNCHANGED <<of, cron, found>>

Commit(c) ==
  /\ pc[c] = "items" /\ todo[c] = {}
  /\ CommitRows(c)
  /\ legacy' = legacy \cup wrote[c]
  /\ End(c)

\* A collector error, a statement timeout outside the savepoints, the server's
\* idle-in-transaction timeout during fetch_details, a task timeout or a crash.
Abort(c) ==
  /\ pc[c] # "idle"
  /\ Rollback(c)
  /\ UNCHANGED legacy
  /\ End(c)

-----------------------------------------------------------------------------
(* deactivate_stale_jobs_cron, one transaction per source.                 *)

Stale(s) ==
  {l \in Listings : SourceOf[l] = s /\ val[SrcRow(l)] = "active" /\ age[l] = StaleAge}

\* Some observation of the source was seen within the safety window.
Healthy(s) ==
  \E l \in Listings : SourceOf[l] = s /\ val[SrcRow(l)] # "absent" /\ age[l] = 0

\* Mutant: the comparison with the stale threshold is missing.
DeactivateUnseen(s) ==
  /\ cron = "idle" /\ Healthy(s)
  /\ \E l \in Listings :
       /\ SourceOf[l] = s /\ val[SrcRow(l)] = "active"
       /\ Write(Cron, [x \in {SrcRow(l)} |-> "inactive"])
  /\ cron' = "scan"
  /\ UNCHANGED <<of, age, legacy, identity, pc, task, found>>

\* The first UPDATE, if it finds anything.
Deactivate(s) ==
  /\ cron = "idle" /\ Healthy(s) /\ Stale(s) # {}
  /\ Write(Cron, [x \in {SrcRow(l) : l \in Stale(s)} |-> "inactive"])
  /\ cron' = "scan"
  /\ UNCHANGED <<of, age, legacy, identity, pc, task, found>>

\* The second UPDATE takes its snapshot ...
Scan ==
  /\ cron = "scan"
  /\ found' = {j \in Listings :
                 /\ Read(Cron, JobRow(j)) = "active"
                 /\ \A l \in Listings : Read(Cron, SrcRow(l)) = "active" => of[l] # j}
  /\ cron' = "apply"
  /\ UNCHANGED <<rows, of, age, legacy, identity, pc, task>>

\* ... and writes the jobs found once their locks are free.  It looks again at
\* is_active, which nobody else clears, but not at the sources.
Apply ==
  /\ cron = "apply"
  /\ Write(Cron, [x \in {JobRow(j) : j \in found} |-> "inactive"])
  /\ cron' = "commit"
  /\ UNCHANGED <<of, age, legacy, identity, pc, task, found>>

CronCommit ==
  /\ cron = "commit"
  /\ CommitRows(Cron)
  /\ cron' = "idle" /\ found' = {}
  /\ UNCHANGED <<of, legacy, identity, pc, task>>

\* A statement timeout, a deadlock or a crash: the source is left for the next run.
CronAbort ==
  /\ cron # "idle"
  /\ Rollback(Cron)
  /\ cron' = "idle" /\ found' = {}
  /\ UNCHANGED <<of, legacy, identity, pc, task>>

\* Hours pass; a transaction is short in comparison.
TimePasses ==
  /\ \A c \in Collections : pc[c] = "idle"
  /\ cron = "idle"
  /\ age' = [l \in Listings |-> IF val[SrcRow(l)] = "absent" \/ age[l] = StaleAge
                                  THEN age[l] ELSE age[l] + 1]
  /\ UNCHANGED <<rows, of, legacy, identity, pc, task, cron, found>>

-----------------------------------------------------------------------------
Collect(c) ==
  \/ Discover(c) \/ TouchJobs(c) \/ TouchSources(c) \/ Fetch(c)
  \/ \E l \in Listings : Upsert(c, l)
  \/ Load(c) \/ Resolve(c) \/ Save(c) \/ FailItem(c)
  \/ Commit(c) \/ Abort(c)

Freshness ==
  \/ \E l \in Listings : Deactivate(SourceOf[l])
  \/ Scan \/ Apply \/ CronCommit \/ CronAbort

Next ==
  \/ \E c \in Collections : Collect(c)
  \/ Freshness
  \/ TimePasses

Spec == Init /\ [][Next]_vars

-----------------------------------------------------------------------------
(* Properties.                                                             *)

\* The state has its types, and a listing about to be saved has a job to go to.
TypeOK ==
  /\ val \in [Rows -> Values] /\ new \in [Rows -> Values]
  /\ lock \in [Rows -> Txs \cup {None}]
  /\ of \in [Listings -> Listings]
  /\ age \in [Listings -> 0 .. StaleAge]
  /\ legacy \subseteq Listings
  /\ identity \in [Listings -> Collections \cup {None}]
  /\ pc \in [Collections -> {"idle", "touch_jobs", "touch_sources", "fetch",
                             "items", "ingest", "resolve", "save"}]
  /\ recent \in [Collections -> SUBSET Listings]
  /\ todo \in [Collections -> SUBSET Listings]
  /\ item \in [Collections -> Listings \cup {None}]
  /\ loaded \in [Collections -> [src : Values, job : Values]]
  /\ pick \in [Collections -> Listings \cup {None}]
  /\ \A c \in Collections : pc[c] = "save" => pick[c] # None
  /\ wrote \in [Collections -> SUBSET Listings]
  /\ cron \in {"idle", "scan", "apply", "commit"}
  /\ found \subseteq Listings

Exists(x) == val[x] # "absent"

\* The graph is whole: a committed job has a committed observation and every
\* observation has its job, whatever failed on the way (the savepoints).
NoOrphanJob ==
  /\ \A j \in Listings : Exists(JobRow(j)) =>
       \E l \in Listings : Exists(SrcRow(l)) /\ of[l] = j
  /\ \A l \in Listings : Exists(SrcRow(l)) => Exists(JobRow(of[l]))

\* The cron never takes down a listing that was confirmed recently, not even when
\* the confirmation commits while the cron's UPDATE waits for the row.
FreshStaysActive ==
  [][\A l \in Listings :
       val[SrcRow(l)] = "active" /\ age[l] < StaleAge => val'[SrcRow(l)] = "active"]_vars

Shown(l) == val[SrcRow(l)] = "active" /\ val[JobRow(of[l])] = "active"

Confirm(l) == \E c \in Collections : lock[SrcRow(l)] = c /\ Commit(c)

\* What a racing cron hid comes back: once the cron rests, a listing that
\* collections confirm again and again is shown for good.
Reshown ==
  \A l \in Listings :
    <>[][~Freshness]_vars /\ []<><<Confirm(l)>>_vars => <>[]Shown(l)

\* A canonical job remains active while one of its sources is.
RemainsActive ==
  \A l \in Listings : val[SrcRow(l)] = "active" => val[JobRow(of[l])] = "active"
=============================================================================
