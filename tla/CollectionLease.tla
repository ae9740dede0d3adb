--------------------------- MODULE CollectionLease ---------------------------
(***************************************************************************)
(* Non-overlap of job collections: run_job_collection of                   *)
(* app/queue/tasks/scrape.py under the Redis leases of app/queue/locks.py. *)
(* Arq runs a queued job under a timeout, retries it on Retry and after    *)
(* a lost worker, up to max_tries; two jobs for the same target may run on *)
(* two workers.  A run takes the lease of its target with SET NX PX and    *)
(* gives it back with a script that compares the token, which may arrive   *)
(* when the lease is long expired and somebody else's.                     *)
(*                                                                         *)
(* Time is counted in ticks: age is the time since arq started a try, left *)
(* what remains of a lease.                                                *)
(***************************************************************************)
EXTENDS Naturals, FiniteSets

CONSTANTS Jobs,         \* queued run_job_collection jobs
          Targets,      \* CollectionTarget identities
          TargetOf,     \* the target of a job
          Registered,   \* targets whose source has a collector
          MaxTries,     \* job_collection_max_tries
          TaskTimeout,  \* job_collection_task_timeout_seconds
          Lag,          \* how late the timeout may be delivered
          LockTtl,      \* job_collection_lock_ttl_seconds
          None

\* A token is drawn for every try of a job.
Tokens == Jobs \X (1 .. MaxTries)

ASSUME TargetAssumption == TargetOf \in [Jobs -> Targets] /\ Registered \subseteq Targets
ASSUME TriesAssumption == MaxTries \in Nat \ {0}
ASSUME TimesAssumption == TaskTimeout \in Nat /\ Lag \in Nat /\ LockTtl \in Nat
ASSUME NoneAssumption == None \notin Tokens

\* validate_deployment_defaults refuses a lock TTL that does not exceed the task
\* timeout; the event loop delivers the timeout within what is left.
ASSUME LeaseOutlivesTask == TaskTimeout + Lag < LockTtl

VARIABLES lease,     \* token stored under the lock key of each target, or None
          left,      \* remaining time to live of that key
          pc,        \* where the current try of each job is
          try,       \* ctx job_try
          age,       \* time since the try started
          result,    \* what the try will end with
          detached   \* release scripts that run on although their task is gone

vars == <<lease, left, pc, try, age, result, detached>>

Token(j) == <<j, try[j]>>
Running == {"starting", "collecting", "releasing"}
Results == {"none", "success", "partial", "failed", "skipped_locked",
            "source_unavailable", "retry", "error", "timeout", "lost"}

Init ==
  /\ lease = [t \in Targets |-> None]
  /\ left = [t \in Targets |-> 0]
  /\ pc = [j \in Jobs |-> "queued"]
  /\ try = [j \in Jobs |-> 1]
  /\ age = [j \in Jobs |-> 0]
  /\ result = [j \in Jobs |-> "none"]
  /\ detached = {}

-----------------------------------------------------------------------------
(* The lease.                                                              *)

\* SET key token NX PX ttl
SetNx(t, k) ==
  /\ lease[t] = None
  /\ lease' = [lease EXCEPT ![t] = k]
  /\ left' = [left EXCEPT ![t] = LockTtl]

\* Mutant: DEL without comparing the token.
DeleteAlways(t, k) ==
  /\ lease' = [lease EXCEPT ![t] = None]
  /\ left' = [left EXCEPT ![t] = 0]

\* _RELEASE_SCRIPT: delete the key only if it still holds this token.
CompareAndDelete(t, k) ==
  IF lease[t] = k
    THEN /\ lease' = [lease EXCEPT ![t] = None]
         /\ left' = [left EXCEPT ![t] = 0]
    ELSE UNCHANGED <<lease, left>>

-----------------------------------------------------------------------------
(* run_job_collection                                                      *)

Goto(j, step, outcome) ==
  /\ pc' = [pc EXCEPT ![j] = step]
  /\ result' = [result EXCEPT ![j] = outcome]

\* Arq picks the job; an invalid target or a source without a collector ends it.
Start(j) ==
  /\ pc[j] = "queued"
  /\ age' = [age EXCEPT ![j] = 0]
  /\ IF TargetOf[j] \in Registered
       THEN Goto(j, "starting", "none")
       ELSE \E why \in {"failed", "source_unavailable"} : Goto(j, "done", why)
  /\ UNCHANGED <<lease, left, try, detached>>

\* locks.acquire: the lease, None, or a Redis error with the SET done or not.
AcquireLease(j) ==
  /\ pc[j] = "starting"
  /\ \/ SetNx(TargetOf[j], Token(j)) /\ Goto(j, "collecting", "none")
     \/ /\ lease[TargetOf[j]] # None
        /\ Goto(j, "done", "skipped_locked")
        /\ UNCHANGED <<lease, left>>
     \/ /\ SetNx(TargetOf[j], Token(j)) \/ UNCHANGED <<lease, left>>
        /\ Goto(j, "done", "error")
  /\ UNCHANGED <<try, age, detached>>

\* coordinator.run in one transaction: committed, or rolled back by an error that
\* is temporary (Retry), permanent, or unexpected.
Collect(j) ==
  /\ pc[j] = "collecting"
  /\ \E outcome \in {"success", "partial", "retry", "failed", "error"} :
       Goto(j, "releasing", outcome)
  /\ UNCHANGED <<lease, left, try, age, detached>>

\* Arq reschedules a try that asked for it, as long as tries are left.
Finish(j, outcome) ==
  IF outcome \in {"retry", "lost"} /\ try[j] < MaxTries
    THEN Goto(j, "queued", "none") /\ try' = [try EXCEPT ![j] = @ + 1]
    ELSE Goto(j, "done", outcome) /\ UNCHANGED try

\* The finally block: the script runs, or Redis fails and the lease stays.
ReleaseLease(j) ==
  /\ pc[j] \in {"releasing", "unwinding"}
  /\ CompareAndDelete(TargetOf[j], Token(j)) \/ UNCHANGED <<lease, left>>
  /\ Finish(j, result[j])
  /\ UNCHANGED <<age, detached>>

\* CancelledError in a try.  Inside the lease the transaction rolls back and the
\* finally block follows; a release that is on its way is shielded.
Interrupt(j, why) ==
  /\ pc[j] \in Running
  /\ \/ /\ pc[j] = "starting"
        /\ SetNx(TargetOf[j], Token(j)) \/ UNCHANGED <<lease, left>>
        /\ Finish(j, why)
        /\ UNCHANGED detached
     \/ /\ pc[j] = "collecting"
        /\ Goto(j, "unwinding", why)
        /\ UNCHANGED <<lease, left, try, detached>>
     \/ /\ pc[j] = "releasing"
        /\ detached' = detached \cup {Token(j)}
        /\ Finish(j, why)
        /\ UNCHANGED <<lease, left>>
  /\ UNCHANGED age

\* Arq cancels a try that reaches its timeout, and does not retry it.
TimeOut(j) == age[j] >= TaskTimeout /\ Interrupt(j, "timeout")

\* The worker shuts down in order: its tries are cancelled and run again.
ShutDown(j) == Interrupt(j, "lost")

\* A shielded script reaches Redis after its task has ended.
LateRelease(k) ==
  /\ k \in detached
  /\ CompareAndDelete(TargetOf[k[1]], k)
  /\ detached' = detached \ {k}
  /\ UNCHANGED <<pc, try, age, result>>

\* The worker dies: nothing is released, arq runs the job again.
LoseWorker(j) ==
  /\ pc[j] \in Running \cup {"unwinding"}
  /\ Finish(j, "lost")
  /\ UNCHANGED <<lease, left, age, detached>>

-----------------------------------------------------------------------------
\* Time passes; Redis drops the keys whose time is over.  A try is cancelled no
\* later than Lag after its timeout, but may take any time to unwind.
Tick ==
  /\ \A j \in Jobs : pc[j] \in Running => age[j] < TaskTimeout + Lag
  /\ age' = [j \in Jobs |-> IF pc[j] \in Running THEN age[j] + 1 ELSE age[j]]
  /\ lease' = [t \in Targets |-> IF left[t] <= 1 THEN None ELSE lease[t]]
  /\ left' = [t \in Targets |-> IF left[t] <= 1 THEN 0 ELSE left[t] - 1]
  /\ UNCHANGED <<pc, try, result, detached>>

Next ==
  \/ \E j \in Jobs :
       \/ Start(j) \/ AcquireLease(j) \/ Collect(j) \/ ReleaseLease(j)
       \/ TimeOut(j) \/ ShutDown(j) \/ LoseWorker(j)
  \/ \E k \in detached : LateRelease(k)
  \/ Tick

Spec == Init /\ [][Next]_vars

-----------------------------------------------------------------------------
\* Tries and times keep within their bounds.
TypeOK ==
  /\ lease \in [Targets -> Tokens \cup {None}]
  /\ left \in [Targets -> 0 .. LockTtl]
  /\ pc \in [Jobs -> {"queued", "unwinding", "done"} \cup Running]
  /\ try \in [Jobs -> 1 .. MaxTries]
  /\ age \in [Jobs -> 0 .. TaskTimeout + Lag]
  /\ result \in [Jobs -> Results]
  /\ detached \subseteq Tokens

\* Non-overlap: no two jobs are inside the collection of the same target, and
\* whoever is inside still owns the lease, so no late release, expiry or retry
\* of another job took it away.
NonOverlap ==
  \A i, j \in Jobs :
    pc[i] = "collecting" =>
      /\ lease[TargetOf[i]] = Token(i) /\ left[TargetOf[i]] > 0
      /\ i # j /\ pc[j] = "collecting" => TargetOf[i] # TargetOf[j]
=============================================================================
