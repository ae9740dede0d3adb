--------------------------- MODULE ResumeLifecycle ---------------------------
(***************************************************************************)
(* The resume subsystem of app/resumes: upload, replace and delete         *)
(* requests, each a coroutine that talks to two stores that share no       *)
(* transaction, PostgreSQL (rows of resumes and of resume_storage_cleanups)*)
(* and the private object store, and the reconciliation command that       *)
(* retries the durable cleanup intents.                                    *)
(*                                                                         *)
(* A request draws a fresh uuid4 for the resume it creates, and the object *)
(* key is a function of that id (build_resume_object_key).  The model      *)
(* therefore names the resume, its storage object and its cleanup intent   *)
(* by the request that creates them: Ids is the set of requests plus the   *)
(* resumes that existed before the first of them.                          *)
(*                                                                         *)
(* One action is the code between two awaits on a store.  A database       *)
(* transaction is one step, its commit.  The rows it flushes are locked    *)
(* for no longer than that, except by the reconciler, which keeps its rows *)
(* locked (held) while it calls the object store.                          *)
(***************************************************************************)
EXTENDS Naturals, FiniteSets

CONSTANTS Requests,         \* HTTP requests, each handled once
          Existing,         \* resumes that are active in the initial state
          Reconcilers,      \* runs of "python -m app.resumes.reconcile"
          Owner,            \* the profile a request or resume belongs to
          BatchLimit,       \* limit of reconcile_storage_cleanups
          SlowRequests,     \* may a request outlive the delay of its intent?
          AmbiguousUpload,  \* may a failed upload have stored the object?
          None

Ids == Requests \cup Existing

ASSUME RequestsAssumption == Requests \cap Existing = {} /\ None \notin Ids
ASSUME LimitAssumption == BatchLimit \in Nat \ {0}
ASSUME FlagsAssumption == SlowRequests \in BOOLEAN /\ AmbiguousUpload \in BOOLEAN

VARIABLES
  status,   \* resumes.status of the committed row, "absent" without a row
  version,  \* resumes.version, the optimistic lock
  intent,   \* the request that inserted the cleanup row of a key, or None
  due,      \* keys whose cleanup row has available_at <= now
  objects,  \* keys stored in the private bucket
  pc, op, tgt, seen, row, reply,   \* the request coroutines
  held, todo, purged               \* the reconciler runs

db == <<status, version, intent, due>>
args == <<op, tgt, seen, row>>
sweep == <<held, todo, purged>>
vars == <<status, version, intent, due, objects,
          pc, op, tgt, seen, row, reply, held, todo, purged>>

\* ResumeStatus, without the values that are never committed: a row is first
\* flushed after its status has left UPLOADED and PARSING.
Statuses == {"absent", "parsed", "parse_failed", "deleted"}
Active(k) == status[k] \in {"parsed", "parse_failed"}

Steps == {"idle", "reserve", "put", "parse", "persist", "persist_failed",
          "compensate", "clear", "retire", "lookup", "relist", "drop",
          "clear_tgt", "done"}
Replies == {"none", "ok", "not_found", "conflict", "rejected", "unavailable",
            "cleanup_unavailable", "error", "cancelled"}

\* A request that has begun and has neither answered nor been cancelled.
InFlight(r) == pc[r] \notin {"idle", "done"}

\* Rows that some reconciler holds FOR UPDATE.
Held == UNION {held[w] : w \in Reconcilers}

Init ==
  /\ status = [k \in Ids |-> IF k \in Existing THEN "parsed" ELSE "absent"]
  /\ version = [k \in Ids |-> IF k \in Existing THEN 1 ELSE 0]
  /\ intent = [k \in Ids |-> None]
  /\ due = {}
  /\ objects = Existing
  /\ pc = [r \in Requests |-> "idle"]
  /\ op = [r \in Requests |-> "none"]
  /\ tgt = [r \in Requests |-> r]
  /\ seen = [r \in Requests |-> 0]
  /\ row = [r \in Requests |-> r]
  /\ reply = [r \in Requests |-> "none"]
  /\ held = [w \in Reconcilers |-> {}]
  /\ todo = [w \in Reconcilers |-> {}]
  /\ purged = [w \in Reconcilers |-> {}]

-----------------------------------------------------------------------------
(* Moving a request on.                                                    *)

Goto(r, step) == pc' = [pc EXCEPT ![r] = step] /\ UNCHANGED reply

Answer(r, response) ==
  /\ pc' = [pc EXCEPT ![r] = "done"]
  /\ reply' = [reply EXCEPT ![r] = response]

\* The exception is raised once the compensation that comes first is over.
AnswerAfter(r, response, step) ==
  /\ pc' = [pc EXCEPT ![r] = step]
  /\ reply' = [reply EXCEPT ![r] = response]

Upload(k) == objects' = objects \cup {k}

\* storage.upload raised: the provider may have stored the object all the same.
UploadFails(k) == UNCHANGED objects \/ (AmbiguousUpload /\ Upload(k))

\* storage.delete: an absent object counts as deleted.
Delete(k) == objects' = objects \ {k}

\* storage.delete raised: the provider may or may not have removed the object.
DeleteFails(k) == objects' \in {objects, objects \ {k}}

\* The cleanup row of k goes away; without a row this deletes nothing.
RemoveIntent(k) ==
  /\ intent' = [intent EXCEPT ![k] = None]
  /\ due' = due \ {k}

-----------------------------------------------------------------------------
(* Entry of the three handlers: the owner-scoped lookup.                   *)

BeginUpload(r) ==
  /\ pc[r] = "idle"
  /\ op' = [op EXCEPT ![r] = "upload"]
  /\ Goto(r, "reserve")
  /\ UNCHANGED <<db, objects, tgt, seen, row, sweep>>

\* Mutant: the lookup forgets the owner.
GetAnyones(r, t, include_deleted) ==
  status[t] # "absent" /\ (include_deleted \/ status[t] # "deleted")

get_owned(r, t, include_deleted) ==
  /\ Owner[r] = Owner[t]
  /\ status[t] # "absent"
  /\ include_deleted \/ status[t] # "deleted"

BeginReplace(r, t) ==
  /\ pc[r] = "idle"
  /\ op' = [op EXCEPT ![r] = "replace"]
  /\ tgt' = [tgt EXCEPT ![r] = t]
  /\ seen' = [seen EXCEPT ![r] = version[t]]
  /\ IF get_owned(r, t, FALSE) THEN Goto(r, "reserve") ELSE Answer(r, "not_found")
  /\ UNCHANGED <<db, objects, row, sweep>>

BeginDelete(r, t) ==
  /\ pc[r] = "idle"
  /\ op' = [op EXCEPT ![r] = "delete"]
  /\ tgt' = [tgt EXCEPT ![r] = t]
  /\ seen' = [seen EXCEPT ![r] = version[t]]
  /\ IF get_owned(r, t, TRUE)
       THEN Goto(r, IF status[t] # "deleted" THEN "retire" ELSE "lookup")
       ELSE Answer(r, "not_found")
  /\ UNCHANGED <<db, objects, row, sweep>>

-----------------------------------------------------------------------------
(* upload and replace up to the parsed document.                           *)

\* _reserve_cleanup: the intent, due in 15 minutes, is committed first.
Reserve(r) ==
  /\ pc[r] = "reserve"
  /\ \/ /\ intent' = [intent EXCEPT ![r] = r]
        /\ Goto(r, "put")
     \/ /\ Answer(r, "error")
        /\ UNCHANGED intent
  /\ UNCHANGED <<status, version, due, objects, args, sweep>>

\* storage.upload; when it raises, the intent is cleared without a delete.
Put(r) ==
  /\ pc[r] = "put"
  /\ \/ Upload(r) /\ Goto(r, "parse")
     \/ UploadFails(r) /\ AnswerAfter(r, "unavailable", "clear")
  /\ UNCHANGED <<db, args, sweep>>

\* parse_executor.parse: a parsed document, a safe rejection (ApplicationError)
\* or a parser failure or timeout (ResumeParserExecutionError).
Parse(r) ==
  /\ pc[r] = "parse"
  /\ \/ Goto(r, "persist")
     \/ op[r] = "upload" /\ Goto(r, "persist_failed")
     \/ op[r] = "replace" /\ AnswerAfter(r, "rejected", "compensate")
     \/ AnswerAfter(r, "unavailable", "compensate")
  /\ UNCHANGED <<db, objects, args, sweep>>

-----------------------------------------------------------------------------
(* The commits that publish and retire resumes.                            *)

\* Mutant: the resume is committed before the intent's removal, which may fail.
PersistUploadInTwo(r) ==
  /\ pc[r] \in {"persist", "persist_failed"} /\ op[r] = "upload"
  /\ status' = [status EXCEPT ![r] = "parsed"]
  /\ version' = [version EXCEPT ![r] = 1]
  /\ \/ r \notin Held /\ RemoveIntent(r) /\ Answer(r, "ok")
     \/ AnswerAfter(r, "error", "compensate") /\ UNCHANGED <<intent, due>>
  /\ UNCHANGED <<objects, args, sweep>>

\* The transaction that publishes an upload.  Its DELETE of the intent waits for
\* a reconciler that holds the row, and fails at the statement timeout.
PersistUpload(r) ==
  /\ pc[r] \in {"persist", "persist_failed"} /\ op[r] = "upload"
  /\ \/ /\ r \notin Held
        /\ status' = [status EXCEPT ![r] =
                        IF pc[r] = "persist" THEN "parsed" ELSE "parse_failed"]
        /\ version' = [version EXCEPT ![r] = 1]
        /\ RemoveIntent(r)
        /\ Answer(r, IF pc[r] = "persist" THEN "ok" ELSE "rejected")
     \/ /\ AnswerAfter(r, "error", "compensate")
        /\ UNCHANGED db
  /\ UNCHANGED <<objects, args, sweep>>

\* Mutant: no version_id_col.
AlwaysFresh(r) == TRUE

\* UPDATE ... WHERE version = the version that was read, else StaleDataError.
Fresh(r) == version[tgt[r]] = seen[r]

\* One transaction inserts the replacement, soft-deletes the current resume,
\* inserts its intent (unique per key) and removes the replacement's own.
PersistReplace(r) ==
  /\ pc[r] = "persist" /\ op[r] = "replace"
  /\ \/ /\ Fresh(r) /\ intent[tgt[r]] = None /\ r \notin Held
        /\ status' = [status EXCEPT ![r] = "parsed", ![tgt[r]] = "deleted"]
        /\ version' = [version EXCEPT ![r] = 1, ![tgt[r]] = @ + 1]
        /\ intent' = [intent EXCEPT ![r] = None, ![tgt[r]] = r]
        /\ due' = (due \ {r}) \cup {tgt[r]}
        /\ Goto(r, "drop")
     \/ /\ \/ ~Fresh(r) /\ AnswerAfter(r, "conflict", "compensate")
           \/ AnswerAfter(r, "error", "compensate")
        /\ UNCHANGED db
  /\ UNCHANGED <<objects, args, sweep>>

\* delete of a resume that was active when it was read.
Retire(r) ==
  /\ pc[r] = "retire"
  /\ \/ /\ Fresh(r) /\ intent[tgt[r]] = None
        /\ status' = [status EXCEPT ![tgt[r]] = "deleted"]
        /\ version' = [version EXCEPT ![tgt[r]] = @ + 1]
        /\ intent' = [intent EXCEPT ![tgt[r]] = r]
        /\ due' = due \cup {tgt[r]}
        /\ Goto(r, "drop")
     \/ /\ \/ ~Fresh(r) /\ Answer(r, "conflict")
           \/ Answer(r, "error")
        /\ UNCHANGED db
  /\ UNCHANGED <<objects, args, sweep>>

\* Mutant: the cleanup row is used without asking whether there is one.
LookupUnchecked(r) ==
  /\ pc[r] = "lookup"
  /\ Goto(r, "drop") /\ row' = [row EXCEPT ![r] = intent[tgt[r]]]
  /\ UNCHANGED <<db, objects, op, tgt, seen, sweep>>

\* delete of a resume that is deleted already: take over the intent it has ...
Lookup(r) ==
  /\ pc[r] = "lookup"
  /\ IF intent[tgt[r]] = None
       THEN Goto(r, "relist") /\ UNCHANGED row
       ELSE Goto(r, "drop") /\ row' = [row EXCEPT ![r] = intent[tgt[r]]]
  /\ UNCHANGED <<db, objects, op, tgt, seen, sweep>>

\* ... or insert one, unless another delete did so in the meantime.
Relist(r) ==
  /\ pc[r] = "relist"
  /\ \/ /\ intent[tgt[r]] = None
        /\ intent' = [intent EXCEPT ![tgt[r]] = r]
        /\ due' = due \cup {tgt[r]}
        /\ Goto(r, "drop")
     \/ /\ Answer(r, "error")
        /\ UNCHANGED <<intent, due>>
  /\ UNCHANGED <<status, version, objects, args, sweep>>

-----------------------------------------------------------------------------
(* Storage removal and the end of the intent.                              *)

\* Mutant: the intent is cleared although the object may still be there.
CompensateRegardless(r) ==
  /\ pc[r] = "compensate"
  /\ Delete(r) \/ DeleteFails(r)
  /\ Goto(r, "clear")
  /\ UNCHANGED <<db, args, sweep>>

\* _compensate_with_journal: the new object goes, the intent stays on failure.
\* After a rollback the ORM has expired the cleanup row, and reading its key may
\* raise: then nothing is deleted and the request fails with that error.
Compensate(r) ==
  /\ pc[r] = "compensate"
  /\ \/ Delete(r) /\ Goto(r, "clear")
     \/ DeleteFails(r) /\ Goto(r, "done")
     \/ reply[r] # "rejected" /\ Answer(r, "error") /\ UNCHANGED objects
  /\ UNCHANGED <<db, args, sweep>>

\* _clear_cleanup_best_effort on the request's own intent.
Clear(r) ==
  /\ pc[r] = "clear"
  /\ \/ r \notin Held /\ RemoveIntent(r)
     \/ UNCHANGED <<intent, due>>
  /\ Goto(r, "done")
  /\ UNCHANGED <<status, version, objects, args, sweep>>

\* Mutant: a failed removal is not reported.
DropQuietly(r) ==
  /\ pc[r] = "drop"
  /\ Delete(tgt[r]) \/ DeleteFails(tgt[r])
  /\ Goto(r, "clear_tgt")
  /\ UNCHANGED <<db, args, sweep>>

\* The retired resume's object goes; a failure is answered, the intent stays.
Drop(r) ==
  /\ pc[r] = "drop"
  /\ \/ Delete(tgt[r]) /\ Goto(r, "clear_tgt")
     \/ DeleteFails(tgt[r]) /\ Answer(r, "cleanup_unavailable")
  /\ UNCHANGED <<db, args, sweep>>

\* _clear_cleanup_best_effort on the retired resume's intent: the DELETE names
\* the row this request inserted or found, not whatever row the key has now.
ClearTarget(r) ==
  /\ pc[r] = "clear_tgt"
  /\ \/ intent[tgt[r]] = row[r] /\ tgt[r] \notin Held /\ RemoveIntent(tgt[r])
     \/ UNCHANGED <<intent, due>>
  /\ Answer(r, "ok")
  /\ UNCHANGED <<status, version, objects, args, sweep>>

\* The coroutine is cancelled or its process dies at an await: the session rolls
\* back, nothing is compensated.  An upload on the wire may still take effect.
Cancel(r) ==
  /\ InFlight(r)
  /\ \/ UNCHANGED objects
     \/ pc[r] = "put" /\ Upload(r)
  /\ Answer(r, "cancelled")
  /\ UNCHANGED <<db, args, sweep>>

-----------------------------------------------------------------------------
(* Time and the reconciliation command.                                    *)

\* The 15 minutes of an intent pass; not within its request's life unless
\* requests may be slow.
BecomeDue(k) ==
  /\ intent[k] # None /\ k \notin due
  /\ SlowRequests \/ ~InFlight(k)
  /\ due' = due \cup {k}
  /\ UNCHANGED <<status, version, intent, objects, pc, args, reply, sweep>>

\* Mutant: the comparison of available_at with now is the wrong way round.
BeginSweepTooEarly(w) ==
  /\ held[w] = {} /\ todo[w] = {} /\ purged[w] = {}
  /\ \E k \in Ids \ (due \cup Held) :
       /\ intent[k] # None
       /\ held' = [held EXCEPT ![w] = {k}]
       /\ todo' = [todo EXCEPT ![w] = {k}]
  /\ UNCHANGED <<db, objects, pc, args, reply, purged>>

\* list_due_for_update: a full batch of due rows nobody else holds.
BeginSweep(w) ==
  /\ held[w] = {} /\ todo[w] = {} /\ purged[w] = {}
  /\ \E batch \in SUBSET (due \ Held) :
       /\ batch # {} /\ Cardinality(batch) <= BatchLimit
       /\ Cardinality(batch) = BatchLimit \/ batch = due \ Held
       /\ held' = [held EXCEPT ![w] = batch]
       /\ todo' = [todo EXCEPT ![w] = batch]
  /\ UNCHANGED <<db, objects, pc, args, reply, purged>>

Purge(w, k) ==
  /\ k \in todo[w]
  /\ Delete(k)
  /\ todo' = [todo EXCEPT ![w] = @ \ {k}]
  /\ purged' = [purged EXCEPT ![w] = @ \cup {k}]
  /\ UNCHANGED <<db, pc, args, reply, held>>

\* attempts and last_error_code are written and never read back.
PurgeFails(w, k) ==
  /\ k \in todo[w]
  /\ DeleteFails(k)
  /\ todo' = [todo EXCEPT ![w] = @ \ {k}]
  /\ UNCHANGED <<db, pc, args, reply, held, purged>>

\* Mutant: the rows of failed deletes are removed too.
CommitSweepOfAll(w) ==
  /\ held[w] # {} /\ todo[w] = {}
  /\ intent' = [k \in Ids |-> IF k \in held[w] THEN None ELSE intent[k]]
  /\ due' = due \ held[w]
  /\ held' = [held EXCEPT ![w] = {}]
  /\ purged' = [purged EXCEPT ![w] = {}]
  /\ UNCHANGED <<status, version, objects, pc, args, reply, todo>>

\* One commit at the end removes the rows of every object that was deleted.
CommitSweep(w) ==
  /\ held[w] # {} /\ todo[w] = {}
  /\ intent' = [k \in Ids |-> IF k \in purged[w] THEN None ELSE intent[k]]
  /\ due' = due \ purged[w]
  /\ held' = [held EXCEPT ![w] = {}]
  /\ purged' = [purged EXCEPT ![w] = {}]
  /\ UNCHANGED <<status, version, objects, pc, args, reply, todo>>

\* idle_in_transaction_session_timeout or a lost connection ends the transaction
\* under the running batch: the locks go, the loop goes on, its commit will fail.
LoseTransaction(w) ==
  /\ held[w] # {}
  /\ held' = [held EXCEPT ![w] = {}]
  /\ UNCHANGED <<db, objects, pc, args, reply, todo, purged>>

\* The commit of a transaction that is gone fails, and the command with it.
FailCommit(w) ==
  /\ held[w] = {} /\ todo[w] = {} /\ purged[w] # {}
  /\ purged' = [purged EXCEPT ![w] = {}]
  /\ UNCHANGED <<db, objects, pc, args, reply, held, todo>>

\* The command dies: nothing of the batch is recorded.
AbortSweep(w) ==
  /\ held[w] \cup todo[w] \cup purged[w] # {}
  /\ held' = [held EXCEPT ![w] = {}]
  /\ todo' = [todo EXCEPT ![w] = {}]
  /\ purged' = [purged EXCEPT ![w] = {}]
  /\ UNCHANGED <<db, objects, pc, args, reply>>

-----------------------------------------------------------------------------
Begin(r) ==
  \/ BeginUpload(r)
  \/ \E t \in Ids \ {r} : BeginReplace(r, t) \/ BeginDelete(r, t)

Continue(r) ==
  \/ Reserve(r) \/ Put(r) \/ Parse(r)
  \/ PersistUpload(r) \/ PersistReplace(r)
  \/ Retire(r) \/ Lookup(r) \/ Relist(r)
  \/ Compensate(r) \/ Clear(r) \/ Drop(r) \/ ClearTarget(r)

Sweep(w) ==
  \/ BeginSweep(w) \/ CommitSweep(w) \/ FailCommit(w)
  \/ \E k \in Ids : Purge(w, k)

\* An outage of the object store, the database or the reconciler's host.
Outage(w) ==
  \/ LoseTransaction(w) \/ AbortSweep(w)
  \/ \E k \in Ids : PurgeFails(w, k)

Next ==
  \/ \E r \in Requests : Begin(r) \/ Continue(r) \/ Cancel(r) \/ BecomeDue(r)
  \/ \E w \in Reconcilers : Sweep(w) \/ Outage(w)

Spec == Init /\ [][Next]_vars

\* A request that was begun is driven on by the event loop (every wait of it has
\* a timeout), time passes, and the command is run again and again (deployment
\* guide: at least every 15 minutes).
Fairness ==
  /\ \A r \in Requests : WF_vars(Continue(r)) /\ WF_vars(BecomeDue(r))
  /\ \A w \in Reconcilers : WF_vars(Sweep(w))

FairSpec == Spec /\ Fairness

-----------------------------------------------------------------------------
(* Properties.                                                             *)

TypeOK ==
  /\ status \in [Ids -> Statuses]
  /\ version \in [Ids -> Nat]
  /\ intent \in [Ids -> Ids \cup {None}]
  /\ due \subseteq Ids /\ objects \subseteq Ids
  /\ pc \in [Requests -> Steps]
  /\ op \in [Requests -> {"none", "upload", "replace", "delete"}]
  /\ tgt \in [Requests -> Ids]
  /\ seen \in [Requests -> Nat]
  /\ row \in [Requests -> Ids]
  /\ reply \in [Requests -> Replies]
  /\ held \in [Reconcilers -> SUBSET Ids]
  /\ todo \in [Reconcilers -> SUBSET Ids]
  /\ purged \in [Reconcilers -> SUBSET Ids]

\* No orphan, ever: whatever crashes, fails or races, an object in the bucket
\* belongs to a visible resume or has a durable cleanup intent.
EveryObjectTracked ==
  \A k \in objects : Active(k) \/ intent[k] # None

\* A resume an owner can see has its document: no reconciler, no compensation and
\* no concurrent request deletes the object of a resume that is committed.
VisibleResumeStored ==
  \A k \in Ids : Active(k) => k \in objects /\ intent[k] = None

\* A resume is replaced at most once, however many replaces and deletes race
\* for it, and a replacement is visible only once the old resume is not.
OneSuccessor ==
  \A r, q \in Requests :
    op[r] = "replace" /\ status[r] # "absent" =>
      /\ status[tgt[r]] = "deleted"
      /\ op[q] = "replace" /\ status[q] # "absent" /\ tgt[q] = tgt[r] => q = r

\* A replace or delete that answered success has erased the old document, for
\* good: the row is soft-deleted and the bucket no longer holds the object.
AcknowledgedErasure ==
  \A r \in Requests :
    op[r] \in {"replace", "delete"} /\ reply[r] = "ok" =>
      status[tgt[r]] = "deleted" /\ tgt[r] \notin objects

\* A request that answered with a conflict, a missing resource, an unavailable
\* store or parser or an internal error has published no resume.
FailureIsInvisible ==
  \A r \in Requests :
    reply[r] \in {"not_found", "conflict", "unavailable", "error"} =>
      status[r] = "absent"

\* A request acts on its owner's resumes only: none of its steps changes the
\* row, the cleanup intent or the stored document of somebody else's resume.
OwnerIsolation ==
  [][\A r \in Requests, k \in Ids :
       pc'[r] # pc[r] /\ Owner[r] # Owner[k] =>
         /\ status'[k] = status[k] /\ intent'[k] = intent[k]
         /\ k \in objects' <=> k \in objects]_vars

\* The bucket agrees with the database and the journal is empty.
Clean ==
  /\ objects = {k \in Ids : Active(k)}
  /\ \A k \in Ids : intent[k] = None

\* Once the outages end, whatever the crashes and failures before left behind is
\* cleaned up: every intent is processed and exactly the visible resumes'
\* objects remain.
StorageConverges ==
  <>[][\A w \in Reconcilers : ~Outage(w)]_vars => <>[]Clean

-----------------------------------------------------------------------------
(* The detailed system implements the ledger of objects.                   *)

Phase(k) ==
  CASE Active(k) -> "live"
    [] ~Active(k) /\ k \in objects -> "stored"
    [] ~Active(k) /\ k \notin objects /\ intent[k] # None -> "pending"
    [] OTHER -> "vacant"

Ledger == INSTANCE ResumeObjectLedger WITH
  Visible <- Existing,
  phase <- [k \in Ids |-> Phase(k)],
  withdrawn <- {k \in Ids : status[k] = "deleted"}

\* Every step of the requests and of the reconcilers is a step of the ledger,
\* or leaves it alone.
ImplementsLedger == Ledger!Spec
=============================================================================
