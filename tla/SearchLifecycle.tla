--------------------------- MODULE SearchLifecycle ---------------------------
(***************************************************************************)
(* A user's asynchronous search: SearchService.start_search commits the    *)
(* row and enqueues an arq job (app/search/service.py), a search worker    *)
(* runs SearchExecutionService.execute (app/search/execution.py).          *)
(*                                                                         *)
(* An execution is one database transaction: the PROCESSING status and the *)
(* stages are flushed, never committed, so all they do is to lock the row  *)
(* until the commit or rollback at the end.                                *)
(***************************************************************************)
EXTENDS Naturals

CONSTANTS Searches,          \* searches, each started by one request
          Executions,        \* places where a worker may run a job
          MaxTries,          \* max_tries of run_job_search
          AmbiguousEnqueue,  \* searches whose failed enqueue_job may have queued the job
          Redelivery,        \* searches whose job arq may hand out while it still runs
          None

ASSUME SearchConstants ==
  /\ MaxTries \in Nat \ {0} /\ None \notin Executions \cup Searches
  /\ AmbiguousEnqueue \cup Redelivery \subseteq Searches

VARIABLES
  status,   \* committed job_searches.status, "absent" without a row
  results,  \* searches that have rows in job_search_results
  lock,     \* the execution whose transaction has updated the row, or None
  api,      \* where start_search is, or what it answered
  queued,   \* searches whose job waits in the queue
  tries,    \* job_try of the last delivery
  exec,     \* where each execution is
  job,      \* the search it executes
  dropped   \* history: searches one of whose deliveries arq gave up on

vars == <<status, results, lock, api, queued, tries, exec, job, dropped>>
row == <<status, results, lock>>

Terminal == {"completed", "failed"}

Init ==
  /\ status = [s \in Searches |-> "absent"]
  /\ results = {}
  /\ lock = [s \in Searches |-> None]
  /\ api = [s \in Searches |-> "idle"]
  /\ queued = {}
  /\ tries = [s \in Searches |-> 0]
  /\ exec = [e \in Executions |-> "idle"]
  /\ job = [e \in Executions |-> None]
  /\ dropped = {}

-----------------------------------------------------------------------------
(* start_search                                                            *)

CreateSearch(s) ==
  /\ api[s] = "idle"
  /\ \/ /\ status' = [status EXCEPT ![s] = "queued"]
        /\ api' = [api EXCEPT ![s] = "created"]
     \/ /\ api' = [api EXCEPT ![s] = "error"]
        /\ UNCHANGED status
  /\ UNCHANGED <<results, lock, queued, tries, exec, job, dropped>>

\* redis.enqueue_job; an exception leads to the FAILED commit.
Enqueue(s) ==
  /\ api[s] = "created"
  /\ \/ queued' = queued \cup {s} /\ api' = [api EXCEPT ![s] = "accepted"]
     \/ /\ \/ UNCHANGED queued
           \/ s \in AmbiguousEnqueue /\ queued' = queued \cup {s}
        /\ api' = [api EXCEPT ![s] = "marking"]
  /\ UNCHANGED <<row, tries, exec, job, dropped>>

\* UPDATE without a look at the current status; it waits for the row's lock and
\* may run into the statement timeout.
MarkQueueFailed(s) ==
  /\ api[s] = "marking"
  /\ \/ /\ lock[s] = None
        /\ status' = [status EXCEPT ![s] = "failed"]
        /\ api' = [api EXCEPT ![s] = "unavailable"]
     \/ /\ api' = [api EXCEPT ![s] = "error"]
        /\ UNCHANGED status
  /\ UNCHANGED <<results, lock, queued, tries, exec, job, dropped>>

\* The request is cancelled or its process dies.
CancelStart(s) ==
  /\ api[s] \in {"created", "marking"}
  /\ api' = [api EXCEPT ![s] = "error"]
  /\ UNCHANGED <<row, queued, tries, exec, job, dropped>>

-----------------------------------------------------------------------------
(* SearchExecutionService.execute                                          *)

Rest(e) == exec' = [exec EXCEPT ![e] = "idle"] /\ job' = [job EXCEPT ![e] = None]
Goto(e, step) == exec' = [exec EXCEPT ![e] = step] /\ UNCHANGED job

\* Mutant: no check for a terminal state.
LoadAnything(e, s) ==
  /\ exec[e] = "idle" /\ s \in queued
  /\ queued' = queued \ {s}
  /\ tries' = [tries EXCEPT ![s] = @ + 1]
  /\ exec' = [exec EXCEPT ![e] = "loaded"] /\ job' = [job EXCEPT ![e] = s]
  /\ UNCHANGED <<row, api, dropped>>

\* A delivery loads the row; a search in a terminal state is left alone.
Load(e, s) ==
  /\ exec[e] = "idle" /\ s \in queued
  /\ queued' = queued \ {s}
  /\ tries' = [tries EXCEPT ![s] = @ + 1]
  /\ IF status[s] \in Terminal
       THEN UNCHANGED <<exec, job>>
       ELSE exec' = [exec EXCEPT ![e] = "loaded"] /\ job' = [job EXCEPT ![e] = s]
  /\ UNCHANGED <<row, api, dropped>>

\* Mutant: PROCESSING is committed, not flushed.
ClaimCommitting(e) ==
  /\ exec[e] = "loaded" /\ lock[job[e]] = None
  /\ status' = [status EXCEPT ![job[e]] = "processing"]
  /\ Goto(e, "processing")
  /\ UNCHANGED <<results, lock, api, queued, tries, dropped>>

\* The first flush takes the row's lock; an error here is not caught.
Claim(e) ==
  /\ exec[e] = "loaded" /\ lock[job[e]] = None
  /\ lock' = [lock EXCEPT ![job[e]] = e]
  /\ Goto(e, "processing")
  /\ UNCHANGED <<status, results, api, queued, tries, dropped>>

ClaimFails(e) ==
  /\ exec[e] = "loaded"
  /\ Rest(e)
  /\ dropped' = dropped \cup {job[e]}
  /\ UNCHANGED <<row, api, queued, tries>>

\* No candidate profile: FAILED is committed.
NoProfile(e) ==
  /\ exec[e] = "processing"
  /\ status' = [status EXCEPT ![job[e]] = "failed"]
  /\ lock' = [lock EXCEPT ![job[e]] = None]
  /\ Goto(e, "acking")
  /\ UNCHANGED <<results, api, queued, tries, dropped>>

\* Mutant: the results are committed on their own, before the status.
CompleteInTwo(e) ==
  /\ exec[e] = "processing"
  /\ \/ results' = results \cup {job[e]} /\ UNCHANGED <<status, lock, exec, job>>
     \/ /\ status' = [status EXCEPT ![job[e]] = "completed"]
        /\ lock' = [lock EXCEPT ![job[e]] = None]
        /\ Goto(e, "acking")
        /\ UNCHANGED results
  /\ UNCHANGED <<api, queued, tries, dropped>>

\* The old results are cleared, those found are saved, COMPLETED is committed.
Complete(e) ==
  /\ exec[e] = "processing"
  /\ status' = [status EXCEPT ![job[e]] = "completed"]
  /\ results' \in {results \ {job[e]}, results \cup {job[e]}}
  /\ lock' = [lock EXCEPT ![job[e]] = None]
  /\ Goto(e, "acking")
  /\ UNCHANGED <<api, queued, tries, dropped>>

\* Any exception: rollback, then FAILED in a second transaction.
Fail(e) ==
  /\ exec[e] = "processing"
  /\ lock' = [lock EXCEPT ![job[e]] = None]
  /\ Goto(e, "failing")
  /\ UNCHANGED <<status, results, api, queued, tries, dropped>>

\* Mutant: the error is logged and swallowed.
MarkNothing(e) ==
  /\ exec[e] = "failing" /\ lock[job[e]] = None
  /\ Goto(e, "acking")
  /\ UNCHANGED <<row, api, queued, tries, dropped>>

MarkFailed(e) ==
  /\ exec[e] = "failing" /\ lock[job[e]] = None
  /\ status' = [status EXCEPT ![job[e]] = "failed"]
  /\ Goto(e, "acking")
  /\ UNCHANGED <<results, lock, api, queued, tries, dropped>>

MarkFails(e) ==
  /\ exec[e] = "failing"
  /\ Rest(e)
  /\ dropped' = dropped \cup {job[e]}
  /\ UNCHANGED <<row, api, queued, tries>>

\* execute has returned: arq finishes the job.
Acknowledge(e) ==
  /\ exec[e] = "acking"
  /\ Rest(e)
  /\ UNCHANGED <<row, api, queued, tries, dropped>>

Rollback(e) ==
  lock' = [lock EXCEPT ![job[e]] = IF @ = e THEN None ELSE @]

\* Arq's timeout cancels the coroutine; CancelledError is no Exception, and a
\* job that timed out is not retried.
TimeOut(e) ==
  /\ exec[e] # "idle"
  /\ Rollback(e)
  /\ Rest(e)
  /\ dropped' = dropped \cup {job[e]}
  /\ UNCHANGED <<status, results, api, queued, tries>>

\* The worker dies or shuts down: the job is delivered again.
LoseWorker(e) ==
  /\ exec[e] # "idle"
  /\ Rollback(e)
  /\ IF tries[job[e]] < MaxTries
       THEN queued' = queued \cup {job[e]} /\ UNCHANGED dropped
       ELSE dropped' = dropped \cup {job[e]} /\ UNCHANGED queued
  /\ Rest(e)
  /\ UNCHANGED <<status, results, api, tries>>

\* Arq takes a job whose in-progress key ran out for lost while it still runs.
Redeliver(e) ==
  /\ exec[e] # "idle" /\ job[e] \in Redelivery /\ tries[job[e]] < MaxTries
  /\ queued' = queued \cup {job[e]}
  /\ UNCHANGED <<row, api, tries, exec, job, dropped>>

-----------------------------------------------------------------------------
Start(s) == CreateSearch(s) \/ Enqueue(s) \/ MarkQueueFailed(s) \/ CancelStart(s)

Execute(e) ==
  \/ \E s \in Searches : Load(e, s)
  \/ Claim(e) \/ NoProfile(e) \/ Complete(e) \/ Fail(e) \/ MarkFailed(e)
  \/ Acknowledge(e)

\* What arq, the database or the host does to an execution.
Disturb(e) ==
  ClaimFails(e) \/ MarkFails(e) \/ TimeOut(e) \/ LoseWorker(e) \/ Redeliver(e)

Next ==
  \/ \E s \in Searches : Start(s)
  \/ \E e \in Executions : Execute(e) \/ Disturb(e)

Spec == Init /\ [][Next]_vars

\* The search workers take jobs and run them to their end.
FairSpec == Spec /\ \A e \in Executions : WF_vars(Execute(e))

-----------------------------------------------------------------------------
\* The committed state has its types: PROCESSING is never committed, and arq's
\* deliveries are bounded.
TypeOK ==
  /\ status \in [Searches -> {"absent", "queued"} \cup Terminal]
  /\ results \subseteq Searches
  /\ lock \in [Searches -> Executions \cup {None}]
  /\ api \in [Searches -> {"idle", "created", "marking", "accepted", "unavailable", "error"}]
  /\ queued \subseteq Searches
  /\ tries \in [Searches -> 0 .. MaxTries]
  /\ exec \in [Executions -> {"idle", "loaded", "processing", "failing", "acking"}]
  /\ job \in [Executions -> Searches \cup {None}]
  /\ dropped \subseteq Searches

\* A search that failed has no results and one that has results is completed, as
\* get_search_results tells the client ("The search failed and has no results.").
FailedHasNoResults == \A s \in results : status[s] = "completed"

\* Searches whose job is queued only when start_search says so, and runs once at a time.
Clean == Searches \ (AmbiguousEnqueue \cup Redelivery)

\* The same where Redis and arq do not disturb: losing workers, timeouts and errors in
\* any step leave no results behind that a failed search would show.
ResultsMeanCompleted == \A s \in results \cap Clean : status[s] = "completed"

\* A client that was shown a final status is never shown another one.
TerminalIsFinal ==
  [][\A s \in Clean : status[s] \in Terminal => status'[s] = status[s]]_vars

\* A search that was accepted ends: losing workers, redeliveries and errors of the
\* execution strand none.  Only a delivery that arq gives up on may (a timeout,
\* the last of the tries lost, an error in the first flush or in the FAILED commit).
AcceptedEnds ==
  \A s \in Searches :
    api[s] = "accepted" ~> status[s] \in Terminal \/ s \in dropped
=============================================================================
