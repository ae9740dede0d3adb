------------------------- MODULE CollectionScheduler -------------------------
(***************************************************************************)
(* schedule_due_collections of app/queue/scheduler/collection.py for one   *)
(* source: a cron job builds the targets from the profiles, claims the     *)
(* interval of the source with SET NX EX, selects a batch of targets       *)
(* behind a cursor in Redis, and enqueues a collection for each, under an  *)
(* id made of the target and the window that the time belongs to.  The     *)
(* time is read before the sources are looked at, one after the other, so  *)
(* it is old when this source's turn comes.  The cron job runs every tick, *)
(* and once more wherever a worker starts.                                 *)
(***************************************************************************)
EXTENDS Integers, SequencesExt, FiniteSets

CONSTANTS Crons,        \* cron jobs that may run at the same time
          Profiles, Queries,    \* profiles, and what each asks for, in order
          Fallback,     \* targets when no profile asks for anything
          MaxQueries,   \* 100 targets of a source
          Batch,        \* glassdoor_collection_batch_size
          Interval,     \* source_interval_minutes
          Windows,      \* the number of windows told apart
          MaxAge,       \* longest time of a cron job, its arq timeout
          KeepResult,   \* how long arq knows an id at least, its keep_result
          MaxFaults     \* bound on the crashes and errors

Targets == ToSet(Fallback) \cup UNION {ToSet(Queries[p]) : p \in Profiles}

ASSUME SchedulerConstants ==
  /\ Queries \in [Profiles -> Seq(Targets)] /\ Fallback \in Seq(Targets) \ {<<>>}
  /\ {MaxQueries, Batch, Interval} \subseteq Nat \ {0}
  /\ MaxAge \in 0 .. Interval - 1 /\ KeepResult \in Nat \ 0 .. MaxAge
  /\ Windows \in Nat \ 0 .. 2

VARIABLES
  clock,     \* the time, modulo Windows * Interval
  due,       \* time to live of the due key, 0 if there is none
  cursor,    \* query_offset
  targets,   \* what the profiles of parsed resumes ask for now
  pc,        \* where each cron job is
  now,       \* the time that it has read
  age,       \* how long it has been running
  todo,      \* the targets it has still to deal with
  known,     \* the ids of collections that arq knows: <<target, window>>
  since,     \* history: time since a target was enqueued, up to Interval
  faults

cron == <<pc, now, age, todo>>
vars == <<clock, due, cursor, targets, cron, known, since, faults>>

\* The first MaxQueries of the targets that some profiles ask for, else of the fallback,
\* each target once: the one in place i has i - 1 others that are first asked for earlier.
BuildTargets(active) ==
  LET asked == FlattenSeq([i \in DOMAIN active |-> Queries[active[i]]])
      wanted == IF asked = <<>> THEN Fallback ELSE asked
      first(t) == Min({i \in DOMAIN wanted : wanted[i] = t})
      earlier(t) == {u \in ToSet(wanted) : first(u) < first(t)}
  IN {list \in SeqOf(Targets, MaxQueries) :
        /\ Len(list) = Min({MaxQueries, Cardinality(ToSet(wanted))})
        /\ \A i \in DOMAIN list :
             list[i] \in ToSet(wanted) /\ Cardinality(earlier(list[i])) = i - 1}

Init ==
  /\ clock \in 0 .. Interval - 1
  /\ due = 0 /\ cursor = 0 /\ known = {}
  /\ targets \in BuildTargets(<<>>)
  /\ pc = [c \in Crons |-> "idle"] /\ now = [c \in Crons |-> 0]
  /\ age = [c \in Crons |-> 0] /\ todo = [c \in Crons |-> <<>>]
  /\ since = [t \in Targets |-> Interval]
  /\ faults = 0

\* Mutant: the offset does not start from the stored one.
NextOffsetFromZero(start, n) == Batch % n

\* Mutant: the offset grows past the list.
NextOffsetUnwrapped(start, n) == start + Batch

NextOffset(start, n) == (start + Batch) % n

\* The targets behind start.
Selected(list, start) ==
  IF Batch >= Len(list) THEN list
  ELSE [i \in 1 .. Batch |-> list[((start + i - 1) % Len(list)) + 1]]

\* The key is gone, or was never set: the cursor starts at 0.
RotateQueries(list) ==
  IF Batch >= Len(list) THEN UNCHANGED cursor
  ELSE cursor' = NextOffset(cursor % Len(list), Len(list))

Window(time) == (time \div Interval) % Windows
Fault == faults < MaxFaults /\ faults' = faults + 1
NoFault == UNCHANGED faults

\* The cron job has these targets left to enqueue.
Proceed(c, list) ==
  /\ pc' = [pc EXCEPT ![c] = "enqueue"] /\ todo' = [todo EXCEPT ![c] = list]
  /\ UNCHANGED <<now, age>>

Rest(c) ==
  /\ pc' = [pc EXCEPT ![c] = "idle"] /\ now' = [now EXCEPT ![c] = 0]
  /\ age' = [age EXCEPT ![c] = 0] /\ todo' = [todo EXCEPT ![c] = <<>>]

-----------------------------------------------------------------------------
\* The cron job builds the targets and reads the time.
Begin(c) ==
  /\ pc[c] = "idle"
  /\ pc' = [pc EXCEPT ![c] = "claim"] /\ now' = [now EXCEPT ![c] = clock]
  /\ age' = [age EXCEPT ![c] = 0] /\ todo' = [todo EXCEPT ![c] = targets]
  /\ NoFault /\ UNCHANGED <<clock, due, cursor, targets, known, since>>

\* Mutant: the claim ends with the window.
SetDueToWindow(c) == due' = Interval - (now[c] % Interval)

\* SET due_key NX EX interval
SetDue(c) == due' = Interval

\* The interval is not over yet.
NotDue(c) ==
  /\ pc[c] = "claim" /\ due > 0
  /\ Rest(c)
  /\ NoFault /\ UNCHANGED <<clock, due, cursor, targets, known, since>>

\* The claim, and the batch of this round; an error of Redis on the way selects the
\* first targets, whether the cursor has moved or not.
Claim(c) ==
  /\ pc[c] = "claim" /\ due = 0
  /\ SetDue(c)
  /\ LET list == todo[c]
     IN \/ /\ RotateQueries(list)
           /\ Proceed(c, Selected(list, cursor % Len(list)))
           /\ NoFault
        \/ /\ Batch < Len(list) /\ Fault
           /\ RotateQueries(list) \/ UNCHANGED cursor
           /\ Proceed(c, Selected(list, 0))
  /\ UNCHANGED <<clock, targets, known, since>>

\* enqueue_job takes an id only if it is new; an error leaves this target out.
Enqueue(c) ==
  /\ pc[c] = "enqueue" /\ todo[c] # <<>>
  /\ LET t == Head(todo[c])
         id == <<t, Window(now[c])>>
     IN /\ Proceed(c, Tail(todo[c]))
        /\ \/ /\ id \notin known /\ NoFault
              /\ known' = known \cup {id}
              /\ since' = [since EXCEPT ![t] = 0]
           \/ id \in known /\ NoFault /\ UNCHANGED <<known, since>>
           \/ Fault /\ UNCHANGED <<known, since>>
  /\ UNCHANGED <<clock, due, cursor, targets>>

End(c) ==
  /\ pc[c] = "enqueue" /\ todo[c] = <<>>
  /\ Rest(c)
  /\ NoFault /\ UNCHANGED <<clock, due, cursor, targets, known, since>>

\* The worker dies, Redis fails at the claim, or arq's timeout ends the cron job.
Crash(c) ==
  /\ pc[c] # "idle" /\ Fault
  /\ Rest(c)
  /\ UNCHANGED <<clock, due, cursor, targets, known, since>>

-----------------------------------------------------------------------------
\* Resumes are parsed and deleted, and the query has no ORDER BY: the database may
\* return the profiles in another order at any time.
ChangeProfiles ==
  /\ \E active \in SeqOf(Profiles, Cardinality(Profiles)) :
       IsInjective(active) /\ targets' \in BuildTargets(active)
  /\ NoFault /\ UNCHANGED <<clock, due, cursor, cron, known, since>>

\* Time passes.  Arq knows an id while the collection is queued or runs and for
\* keep_result afterwards: it forgets it KeepResult after the target was enqueued, or
\* any time later, but before the windows come round.
Tick ==
  /\ \A c \in Crons : pc[c] # "idle" => age[c] < MaxAge
  /\ clock' = (clock + 1) % (Windows * Interval)
  /\ due' = IF due > 0 THEN due - 1 ELSE 0
  /\ age' = [c \in Crons |-> IF pc[c] = "idle" THEN age[c] ELSE age[c] + 1]
  /\ since' = [t \in Targets |-> IF since[t] < Interval THEN since[t] + 1 ELSE since[t]]
  /\ \E gone \in SUBSET {id \in known : since'[id[1]] >= KeepResult} :
       known' = {id \in known \ gone : (Window(clock') - id[2]) % Windows < 2}
  /\ NoFault /\ UNCHANGED <<cursor, targets, pc, now, todo>>

Step(c) == NotDue(c) \/ Claim(c) \/ Enqueue(c) \/ End(c)

Next ==
  \/ \E c \in Crons : Begin(c) \/ Step(c) \/ Crash(c)
  \/ ChangeProfiles \/ Tick

\* Arq starts the cron job again and again, its steps get on, and time passes, however
\* often a cron job at the end of its own time holds it up in the model.
Fairness ==
  /\ WF_vars(\E c \in Crons : Begin(c)) /\ \A c \in Crons : WF_vars(Step(c))
  /\ SF_vars(Tick)

Spec == Init /\ [][Next]_vars /\ Fairness

-----------------------------------------------------------------------------
\* The variables have their types; the cursor is within the longest list.
TypeOK ==
  /\ clock \in 0 .. Windows * Interval - 1
  /\ due \in 0 .. Interval /\ cursor \in 0 .. MaxQueries - 1
  /\ targets \in SeqOf(Targets, MaxQueries)
  /\ pc \in [Crons -> {"idle", "claim", "enqueue"}]
  /\ now \in [Crons -> 0 .. Windows * Interval - 1] /\ age \in [Crons -> 0 .. MaxAge]
  /\ todo \in [Crons -> SeqOf(Targets, MaxQueries)]
  /\ known \subseteq Targets \X (0 .. Windows - 1)
  /\ since \in [Targets -> 0 .. Interval]

\* A target is not collected again before its interval is over, up to the time that a
\* cron job may take, however many cron jobs run and wherever the windows begin.
Cadence ==
  [][\A id \in known' \ known : since[id[1]] >= Interval - MaxAge]_vars

\* Once the list of targets has come to rest, each of them is collected again and again:
\* no claim that was lost, no moved cursor and no shared window starves it.
EveryTargetCollected ==
  <>[][UNCHANGED targets]_vars =>
    \A t \in Targets : <>[](t \in ToSet(targets)) => []<>(since[t] = 0)
=============================================================================
