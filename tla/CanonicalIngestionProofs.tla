----------------------- MODULE CanonicalIngestionProofs -----------------------
(***************************************************************************)
(* Proofs about CanonicalIngestion, for any listings, providers, URLs and  *)
(* openings, any number of collections at the same time, and the cron.     *)
(*                                                                         *)
(* The graph of jobs and observations is whole in the eyes of every        *)
(* transaction at its commit, because it is whole but for the listing in   *)
(* hand at every moment: JobInv and SrcInv.  An uncommitted job is seen by *)
(* its own transaction only, and the savepoint that takes it back finds no *)
(* observation of it, since none but the listing in hand leads to it.      *)
(***************************************************************************)
EXTENDS CanonicalIngestion, TLAPS

Ingesting == {"ingest", "resolve", "save"}

\* A written row is there for its writer; the cron writes only rows that exist.
RowInv ==
  \A x \in Rows : /\ lock[x] # None => new[x] # "absent"
                  /\ lock[x] = Cron => Exists(x)

\* Whoever rests holds no row.
IdleInv ==
  /\ \A c \in Collections : pc[c] = "idle" => \A x \in Rows : lock[x] # c
  /\ cron = "idle" => \A x \in Rows : lock[x] # Cron

\* The listing in hand is one of those to do, and its identity is locked.
ItemInv ==
  \A c \in Collections :
    /\ pc[c] \in Ingesting => item[c] \in todo[c]
    /\ pc[c] \in {"resolve", "save"} => identity[item[c]] = c

\* An observation that was loaded is still there, and keeps its job.
LoadedInv ==
  \A c \in Collections :
    pc[c] \in {"resolve", "save"} /\ loaded[c].src # "absent" =>
      /\ Read(c, SrcRow(item[c])) # "absent"
      /\ pc[c] = "save" => pick[c] = of[item[c]]

\* The job that was found or made is there.
PickInv ==
  \A c \in Collections :
    pc[c] = "save" => pick[c] \in Listings /\ Read(c, JobRow(pick[c])) # "absent"

\* A job that a collection has written exists, or is the one just made for the listing
\* in hand, or has an observation that the collection has written as well.
JobInv ==
  \A c \in Collections : \A j \in Listings :
    lock[JobRow(j)] = c =>
      \/ Exists(JobRow(j))
      \/ pc[c] = "save" /\ item[c] = j /\ pick[c] = j
      \/ j \notin todo[c] /\ \E l \in Listings : lock[SrcRow(l)] = c /\ of[l] = j

\* An observation that a collection has written has a job that exists, or that the
\* collection made for a listing it is done with.
SrcInv ==
  \A c \in Collections : \A l \in Listings :
    lock[SrcRow(l)] = c =>
      \/ Exists(JobRow(of[l]))
      \/ lock[JobRow(of[l])] = c /\ of[l] \notin todo[c]

\* The jobs that the cron is about to write exist.
FoundInv == \A j \in found : Exists(JobRow(j))

\* A collection keeps an active observation active, and the cron writes stale ones only.
FreshInv ==
  \A l \in Listings :
    /\ lock[SrcRow(l)] \in Collections /\ val[SrcRow(l)] = "active" => new[SrcRow(l)] = "active"
    /\ lock[SrcRow(l)] = Cron => age[l] = StaleAge

GraphInv ==
  /\ TypeOK /\ RowInv /\ IdleInv /\ ItemInv /\ LoadedInv /\ PickInv
  /\ JobInv /\ SrcInv /\ FoundInv /\ FreshInv /\ NoOrphanJob

-----------------------------------------------------------------------------
(* Rows.                                                                   *)

\* The rows of observations and of jobs are different rows, one for each listing.
LEMMA RowFacts ==
  /\ \A k, l \in Listings : /\ SrcRow(l) \in Rows /\ JobRow(l) \in Rows /\ SrcRow(k) # JobRow(l)
                            /\ SrcRow(k) = SrcRow(l) => k = l
                            /\ JobRow(k) = JobRow(l) => k = l
  /\ \A x \in Rows : \E l \in Listings : x = SrcRow(l) \/ x = JobRow(l)
  BY DEF Rows, SrcRow, JobRow


-----------------------------------------------------------------------------
(* Types.                                                                  *)

RowTypes ==
  /\ val \in [Rows -> Values] /\ new \in [Rows -> Values]
  /\ lock \in [Rows -> Txs \cup {None}] /\ age \in [Listings -> 0 .. StaleAge]

\* A transaction reads a value.
LEMMA ReadTyped ==
  ASSUME RowTypes, NEW t, NEW x \in Rows PROVE Read(t, x) \in Values
  BY DEF RowTypes, Read

\* The end of a transaction keeps the types of the rows.
LEMMA EndTyped ==
  ASSUME RowTypes, NEW t, CommitRows(t) \/ Rollback(t) PROVE RowTypes'
<1>1. lock' \in [Rows -> Txs \cup {None}] /\ new' \in [Rows -> Values]
  BY DEF RowTypes, CommitRows, Rollback, Forget, Values
<1>2. val' \in [Rows -> Values]
  BY ReadTyped DEF RowTypes, CommitRows, Rollback
<1>3. age' \in [Listings -> 0 .. StaleAge]
  BY StaleAssumption DEF RowTypes, CommitRows, Rollback
<1> QED
  BY <1>1, <1>2, <1>3 DEF RowTypes

\* Every statement keeps the types; a listing is saved only once it has a job.
LEMMA NextTypes ==
  TypeOK /\ ItemInv /\ PickInv /\ [Next]_vars => TypeOK'
<1> SUFFICES ASSUME TypeOK, ItemInv, PickInv, [Next]_vars PROVE TypeOK'
  OBVIOUS
<1>r. RowTypes
  BY DEF TypeOK, RowTypes
<1> USE DEF TypeOK, ItemInv, PickInv, Ingesting, Txs, Values
<1>1. ASSUME NEW c \in Collections, Discover(c) PROVE TypeOK'
  BY <1>1 DEF Discover, Goto, rows
<1>2. ASSUME NEW c \in Collections, TouchJobs(c) PROVE TypeOK'
  BY <1>2 DEF TouchJobs, Write, Goto, task
<1>3. ASSUME NEW c \in Collections, TouchSources(c) PROVE TypeOK'
  BY <1>3 DEF TouchSources, Write, Goto, task
<1>4. ASSUME NEW c \in Collections, Fetch(c) PROVE TypeOK'
  BY <1>4 DEF Fetch, Goto, rows
<1>5. ASSUME NEW c \in Collections, NEW l \in Listings, Upsert(c, l) PROVE TypeOK'
  <2>1. wrote' \in [Collections -> SUBSET Listings]
    <3>1. wrote' = wrote \/ wrote' = [wrote EXCEPT ![c] = wrote[c] \cup {l}]
      BY <1>5 DEF Upsert
    <3> QED
      BY <3>1
  <2>2. todo' \in [Collections -> SUBSET Listings]
    BY <1>5 DEF Upsert, NextItem
  <2>3. pc' \in [Collections -> {"idle", "touch_jobs", "touch_sources", "fetch",
                                 "items", "ingest", "resolve", "save"}]
        /\ \A d \in Collections : pc'[d] = "save" => pc[d] = "save"
    BY <1>5 DEF Upsert, NextItem, Goto
  <2>4. item' \in [Collections -> Listings \cup {None}]
    BY <1>5 DEF Upsert
  <2> QED
    BY <1>5, <2>1, <2>2, <2>3, <2>4 DEF Upsert, rows
<1>6. ASSUME NEW c \in Collections, Load(c) PROVE TypeOK'
  <2>1. item[c] \in Listings
    BY <1>6 DEF Load
  <2>2. Read(c, SrcRow(item[c])) \in Values
    BY <1>r, <2>1, ReadTyped, RowFacts
  <2>3. loaded' \in [Collections -> [src : Values, job : Values]]
    <3>1. loaded' = [loaded EXCEPT ![c] = [loaded[c] EXCEPT !.src = Read(c, SrcRow(item[c]))]]
      BY <1>6 DEF Load
    <3>2. [loaded[c] EXCEPT !.src = Read(c, SrcRow(item[c]))] \in [src : Values, job : Values]
      BY <2>2
    <3> QED
      BY <3>1, <3>2
  <2> QED
    BY <1>6, <2>3 DEF Load, Goto, rows
<1>7. ASSUME NEW c \in Collections, Resolve(c) PROVE TypeOK'
  <2>1. item[c] \in Listings
    BY <1>7 DEF Resolve
  <2> DEFINE choice == IF loaded[c].src # "absent" THEN {of[item[c]]}
                       ELSE IF SameUrl(c) # {} THEN SameUrl(c) ELSE Candidates(c)
  <2>2. choice \subseteq Listings
    BY <2>1 DEF SameUrl, Candidates
  <2>3. /\ UNCHANGED <<of, age, legacy, identity, recent, todo, item, wrote, cron, found>>
        /\ pc' = [pc EXCEPT ![c] = "save"]
    BY <1>7 DEF Resolve, Goto
  <2>4. CASE \E j \in choice : /\ pick' = [pick EXCEPT ![c] = j]
                               /\ loaded' = [loaded EXCEPT ![c].job = Read(c, JobRow(j))]
                               /\ UNCHANGED rows
    <3>1. PICK j \in choice : /\ pick' = [pick EXCEPT ![c] = j]
                              /\ loaded' = [loaded EXCEPT ![c].job = Read(c, JobRow(j))]
                              /\ UNCHANGED rows
      BY <2>4
    <3>2. j \in Listings /\ j # None /\ Read(c, JobRow(j)) \in Values
      BY <1>r, <2>2, ReadTyped, RowFacts, TxAssumption
    <3>3. loaded' \in [Collections -> [src : Values, job : Values]]
      BY <3>1, <3>2
    <3> QED
      BY <2>3, <3>1, <3>2, <3>3 DEF rows
  <2>5. CASE /\ pick' = [pick EXCEPT ![c] = item[c]]
             /\ loaded' = [loaded EXCEPT ![c].job = "active"]
             /\ Write(c, [x \in {JobRow(item[c])} |-> "active"])
    <3>1. item[c] # None
      BY <2>1, TxAssumption
    <3>2. /\ new' \in [Rows -> Values] /\ lock' \in [Rows -> Txs \cup {None}]
          /\ val' = val
      BY <2>5 DEF Write
    <3>3. loaded' \in [Collections -> [src : Values, job : Values]]
      BY <2>5
    <3> QED
      BY <2>1, <2>3, <2>5, <3>1, <3>2, <3>3
  <2> QED
    BY <1>7, <2>4, <2>5 DEF Resolve
<1>8. ASSUME NEW c \in Collections, Save(c) PROVE TypeOK'
  <2> DEFINE s == SrcRow(item[c])
             j == JobRow(pick[c])
  <2>1. item[c] \in Listings /\ pick[c] \in Listings
    BY <1>8 DEF Save
  <2>2. \A x \in {s, j}, old \in Values : Reactivated(c, x, old) \in Values
    BY <1>r, <2>1, ReadTyped, RowFacts DEF Reactivated
  <2>3. new' \in [Rows -> Values] /\ lock' \in [Rows -> Txs \cup {None}] /\ val' = val
    <3>1. Write(c, [x \in {s, j} |->
                      Reactivated(c, x, IF x = s THEN loaded[c].src ELSE loaded[c].job)])
      BY <1>8 DEF Save
    <3>2. \A x \in {s, j} :
            Reactivated(c, x, IF x = s THEN loaded[c].src ELSE loaded[c].job) \in Values
      BY <2>2
    <3> QED
      BY <3>1, <3>2 DEF Write
  <2> QED
    BY <1>8, <2>1, <2>3 DEF Save, NextItem, Goto
<1>9. ASSUME NEW c \in Collections, FailItem(c) PROVE TypeOK'
  BY <1>9 DEF FailItem, Forget, NextItem, Goto
<1>10. ASSUME NEW c \in Collections, Commit(c) PROVE TypeOK'
  <2>1. RowTypes'
    BY <1>10, <1>r, EndTyped DEF Commit
  <2> QED
    BY <1>10, <2>1 DEF Commit, End, Goto, RowTypes
<1>11. ASSUME NEW c \in Collections, Abort(c) PROVE TypeOK'
  <2>1. RowTypes'
    BY <1>11, <1>r, EndTyped DEF Abort
  <2> QED
    BY <1>11, <2>1 DEF Abort, End, Goto, RowTypes
<1>12. ASSUME NEW s, Deactivate(s) PROVE TypeOK'
  BY <1>12 DEF Deactivate, Write, task
<1>13. ASSUME Scan PROVE TypeOK'
  BY <1>13 DEF Scan, rows, task
<1>14. ASSUME Apply PROVE TypeOK'
  BY <1>14 DEF Apply, Write, task
<1>15. ASSUME CronCommit PROVE TypeOK'
  <2>1. RowTypes'
    BY <1>15, <1>r, EndTyped DEF CronCommit
  <2> QED
    BY <1>15, <2>1 DEF CronCommit, task, RowTypes
<1>16. ASSUME CronAbort PROVE TypeOK'
  BY <1>16 DEF CronAbort, Rollback, Forget, task
<1>17. ASSUME TimePasses PROVE TypeOK'
  <2>1. age' \in [Listings -> 0 .. StaleAge]
    <3>1. ASSUME NEW l \in Listings, age[l] # StaleAge PROVE age[l] + 1 \in 0 .. StaleAge
      <4>1. age[l] \in 0 .. StaleAge
        OBVIOUS
      <4> HIDE DEF TypeOK
      <4> QED
        BY <3>1, <4>1, StaleAssumption
    <3> QED
      BY <1>17, <3>1 DEF TimePasses
  <2> QED
    BY <1>17, <2>1 DEF TimePasses, rows, task
<1>18. CASE UNCHANGED vars
  BY <1>18 DEF vars, rows, task
<1> QED
  BY <1>1, <1>2, <1>3, <1>4, <1>5, <1>6, <1>7, <1>8, <1>9, <1>10, <1>11, <1>12, <1>13, <1>14, <1>15, <1>16, <1>17, <1>18
  DEF Next, Collect, Freshness

-----------------------------------------------------------------------------
(* Rows, and what is in hand.                                              *)

\* What Save writes: the observation and its job, which is another only for an
\* observation that nobody has written.
LEMMA SaveStep ==
  ASSUME TypeOK, RowInv, ItemInv, LoadedInv, PickInv, NEW c \in Collections, Save(c)
  PROVE  LET s == SrcRow(item[c])
             j == JobRow(pick[c])
         IN /\ item[c] \in Listings /\ pick[c] \in Listings /\ item[c] \in todo[c]
            /\ s \in Rows /\ j \in Rows /\ s # j
            /\ val' = val /\ lock[s] \in {None, c} /\ lock[j] \in {None, c}
            /\ \A x \in Rows : lock'[x] = IF x \in {s, j} THEN c ELSE lock[x]
            /\ \A x \in Rows : x \notin {s, j} => new'[x] = new[x]
            /\ new'[s] # "absent" /\ new'[j] # "absent"
            /\ new'[s] \in {Read(c, s), "active"}
            /\ of' = [of EXCEPT ![item[c]] = pick[c]]
            /\ Read(c, s) # "absent" => pick[c] = of[item[c]]
            /\ Read(c, j) # "absent"
            /\ pc' = [pc EXCEPT ![c] = "items"] /\ todo' = [todo EXCEPT ![c] = @ \ {item[c]}]
            /\ UNCHANGED <<age, identity, item, loaded, pick, cron, found>>
<1> DEFINE s == SrcRow(item[c])
           j == JobRow(pick[c])
           w == [x \in {s, j} |-> Reactivated(c, x, IF x = s THEN loaded[c].src ELSE loaded[c].job)]
<1>1. pc[c] = "save" /\ Write(c, w)
  BY DEF Save
<1>2. item[c] \in Listings /\ pick[c] \in Listings /\ item[c] \in todo[c]
  BY <1>1 DEF TypeOK, ItemInv, PickInv, Ingesting
<1>3. s \in Rows /\ j \in Rows /\ s # j
  BY <1>2, RowFacts
<1>4. /\ DOMAIN w = {s, j}
      /\ w[s] = Reactivated(c, s, loaded[c].src) /\ w[j] = Reactivated(c, j, loaded[c].job)
  BY <1>3
<1>5. Read(c, j) # "absent"
  BY <1>1 DEF PickInv
<1>6. loaded[c].src = "absent" \/ Read(c, s) # "absent"
  BY <1>1 DEF LoadedInv
<1>7. w[s] # "absent" /\ w[j] # "absent" /\ w[s] \in {Read(c, s), "active"}
  BY <1>4, <1>5, <1>6 DEF Reactivated
<1>8. Read(c, s) # "absent" => pick[c] = of[item[c]]
  BY <1>1 DEF LoadedInv, Save
<1> HIDE DEF w
<1>9. /\ val' = val /\ lock[s] \in {None, c} /\ lock[j] \in {None, c}
      /\ \A x \in Rows : lock'[x] = IF x \in {s, j} THEN c ELSE lock[x]
      /\ \A x \in Rows : x \notin {s, j} => new'[x] = new[x]
      /\ new'[s] = w[s] /\ new'[j] = w[j]
  BY <1>1, <1>3, <1>4 DEF Write
<1>10. /\ of' = [of EXCEPT ![item[c]] = pick[c]]
       /\ pc' = [pc EXCEPT ![c] = "items"] /\ todo' = [todo EXCEPT ![c] = @ \ {item[c]}]
       /\ UNCHANGED <<age, identity, item, loaded, pick, cron, found>>
  BY DEF Save, NextItem, Goto
<1> QED
  BY <1>2, <1>3, <1>5, <1>7, <1>8, <1>9, <1>10

\* What the two UPDATEs of the cron write: rows that exist.
LEMMA CronWrites ==
  ASSUME TypeOK, RowInv, FoundInv, (\E s : Deactivate(s)) \/ Apply
  PROVE  \E S \in SUBSET Rows :
           /\ val' = val /\ \A x \in S : lock[x] \in {None, Cron} /\ Exists(x)
           /\ lock' = [x \in Rows |-> IF x \in S THEN Cron ELSE lock[x]]
           /\ new' = [x \in Rows |-> IF x \in S THEN "inactive" ELSE new[x]]
           /\ \A l \in Listings : SrcRow(l) \in S => age[l] = StaleAge
           /\ UNCHANGED <<of, age, identity, pc, task, found>> /\ cron' # "idle"
<1>1. ASSUME NEW s, Deactivate(s)
      PROVE  LET S == {SrcRow(l) : l \in Stale(s)} IN
             /\ S \in SUBSET Rows /\ val' = val /\ \A x \in S : lock[x] \in {None, Cron} /\ Exists(x)
             /\ lock' = [x \in Rows |-> IF x \in S THEN Cron ELSE lock[x]]
             /\ new' = [x \in Rows |-> IF x \in S THEN "inactive" ELSE new[x]]
             /\ \A l \in Listings : SrcRow(l) \in S => age[l] = StaleAge
             /\ UNCHANGED <<of, age, identity, pc, task, found>> /\ cron' # "idle"
  <2> DEFINE S == {SrcRow(l) : l \in Stale(s)}
             w == [x \in S |-> "inactive"]
  <2>1. S \in SUBSET Rows
    BY RowFacts DEF Stale
  <2>2. \A l \in Listings : SrcRow(l) \in S => age[l] = StaleAge
    BY RowFacts DEF Stale
  <2>3. \A x \in S : Exists(x)
    BY DEF Stale, Exists
  <2>4. Write(Cron, w) /\ DOMAIN w = S /\ \A x \in S : w[x] = "inactive"
    BY <1>1 DEF Deactivate
  <2> HIDE DEF S, w
  <2>5. /\ val' = val /\ \A x \in S : lock[x] \in {None, Cron}
        /\ lock' = [x \in Rows |-> IF x \in S THEN Cron ELSE lock[x]]
        /\ new' = [x \in Rows |-> IF x \in S THEN "inactive" ELSE new[x]]
    BY <2>4 DEF Write
  <2> QED
    BY <1>1, <2>1, <2>2, <2>3, <2>5 DEF Deactivate, S
<1>2. ASSUME Apply
      PROVE  LET S == {JobRow(k) : k \in found} IN
             /\ S \in SUBSET Rows /\ val' = val /\ \A x \in S : lock[x] \in {None, Cron} /\ Exists(x)
             /\ lock' = [x \in Rows |-> IF x \in S THEN Cron ELSE lock[x]]
             /\ new' = [x \in Rows |-> IF x \in S THEN "inactive" ELSE new[x]]
             /\ \A l \in Listings : SrcRow(l) \in S => age[l] = StaleAge
             /\ UNCHANGED <<of, age, identity, pc, task, found>> /\ cron' # "idle"
  <2> DEFINE S == {JobRow(k) : k \in found}
             w == [x \in S |-> "inactive"]
  <2>1. S \in SUBSET Rows
    BY RowFacts DEF TypeOK
  <2>2. \A l \in Listings : SrcRow(l) \notin S
    BY RowFacts DEF TypeOK
  <2>3. \A x \in S : Exists(x)
    BY DEF FoundInv
  <2>4. Write(Cron, w) /\ DOMAIN w = S /\ \A x \in S : w[x] = "inactive"
    BY <1>2 DEF Apply
  <2> HIDE DEF S, w
  <2>5. /\ val' = val /\ \A x \in S : lock[x] \in {None, Cron}
        /\ lock' = [x \in Rows |-> IF x \in S THEN Cron ELSE lock[x]]
        /\ new' = [x \in Rows |-> IF x \in S THEN "inactive" ELSE new[x]]
    BY <2>4 DEF Write
  <2> QED
    BY <1>2, <2>1, <2>2, <2>3, <2>5 DEF Apply, S
<1> QED
  BY <1>1, <1>2

\* No statement removes a row.
LEMMA NextRowInv ==
  TypeOK /\ RowInv /\ ItemInv /\ LoadedInv /\ PickInv /\ FoundInv /\ [Next]_vars => RowInv'
<1> SUFFICES ASSUME TypeOK, RowInv, ItemInv, LoadedInv, PickInv, FoundInv, [Next]_vars PROVE RowInv'
  OBVIOUS
<1> USE RowFacts, TxAssumption DEF TypeOK, RowInv, Exists, Txs
<1>1. ASSUME NEW c \in Collections, Discover(c) PROVE RowInv'
  BY <1>1 DEF Discover, Goto, rows, LockedBy, Read
<1>2. ASSUME NEW c \in Collections, TouchJobs(c) PROVE RowInv'
  BY <1>2 DEF TouchJobs, Write, Goto, task, LockedBy, Read
<1>3. ASSUME NEW c \in Collections, TouchSources(c) PROVE RowInv'
  BY <1>3 DEF TouchSources, Write, Goto, task, LockedBy, Read
<1>4. ASSUME NEW c \in Collections, Fetch(c) PROVE RowInv'
  BY <1>4 DEF Fetch, Goto, rows, LockedBy, Read
<1>5. ASSUME NEW c \in Collections, NEW l \in Listings, Upsert(c, l) PROVE RowInv'
  BY <1>5 DEF Upsert, NextItem, Goto, rows, LockedBy, Read
<1>6. ASSUME NEW c \in Collections, Load(c) PROVE RowInv'
  BY <1>6 DEF Load, Goto, rows, LockedBy, Read
<1>7. ASSUME NEW c \in Collections, Resolve(c) PROVE RowInv'
  BY <1>7 DEF Resolve, Write, Goto, rows, LockedBy, Read
<1>8. ASSUME NEW c \in Collections, Save(c) PROVE RowInv'
  <2> DEFINE s == SrcRow(item[c])
             j == JobRow(pick[c])
  <2>1. /\ s \in Rows /\ j \in Rows /\ val' = val /\ lock[s] \in {None, c} /\ lock[j] \in {None, c}
        /\ \A x \in Rows : lock'[x] = IF x \in {s, j} THEN c ELSE lock[x]
        /\ \A x \in Rows : x \notin {s, j} => new'[x] = new[x]
        /\ new'[s] # "absent" /\ new'[j] # "absent"
    BY <1>8, SaveStep
  <2> HIDE DEF s, j
  <2> QED
    BY <2>1
<1>9. ASSUME NEW c \in Collections, FailItem(c) PROVE RowInv'
  BY <1>9 DEF FailItem, Forget, NextItem, Goto, LockedBy, Read
<1>10. ASSUME NEW c \in Collections, Commit(c) PROVE RowInv'
  BY <1>10 DEF Commit, CommitRows, Forget, End, Goto, LockedBy, Read
<1>11. ASSUME NEW c \in Collections, Abort(c) PROVE RowInv'
  BY <1>11 DEF Abort, Rollback, Forget, End, Goto, LockedBy, Read
<1>12. ASSUME NEW s, Deactivate(s) PROVE RowInv'
  BY <1>12, CronWrites
<1>13. ASSUME Scan PROVE RowInv'
  BY <1>13 DEF Scan, rows, task, LockedBy, Read
<1>14. ASSUME Apply PROVE RowInv'
  BY <1>14, CronWrites
<1>15. ASSUME CronCommit PROVE RowInv'
  BY <1>15 DEF CronCommit, CommitRows, Forget, task, LockedBy, Read
<1>16. ASSUME CronAbort PROVE RowInv'
  BY <1>16 DEF CronAbort, Rollback, Forget, task, LockedBy, Read
<1>17. ASSUME TimePasses PROVE RowInv'
  BY <1>17 DEF TimePasses, rows, task, LockedBy, Read
<1>18. CASE UNCHANGED vars
  BY <1>18 DEF vars, rows, task, LockedBy, Read
<1> QED
  BY <1>1, <1>2, <1>3, <1>4, <1>5, <1>6, <1>7, <1>8, <1>9, <1>10, <1>11, <1>12, <1>13, <1>14, <1>15, <1>16, <1>17, <1>18
  DEF Next, Collect, Freshness

\* A transaction that ends gives up its rows.
LEMMA NextIdleInv ==
  TypeOK /\ IdleInv /\ [Next]_vars => IdleInv'
<1> SUFFICES ASSUME TypeOK, IdleInv, [Next]_vars PROVE IdleInv'
  OBVIOUS
<1> USE TxAssumption DEF TypeOK, IdleInv, Txs
<1>1. ASSUME NEW c \in Collections, Discover(c) PROVE IdleInv'
  BY <1>1 DEF Discover, Goto, rows, LockedBy
<1>2. ASSUME NEW c \in Collections, TouchJobs(c) PROVE IdleInv'
  BY <1>2 DEF TouchJobs, Write, Goto, task, LockedBy
<1>3. ASSUME NEW c \in Collections, TouchSources(c) PROVE IdleInv'
  BY <1>3 DEF TouchSources, Write, Goto, task, LockedBy
<1>4. ASSUME NEW c \in Collections, Fetch(c) PROVE IdleInv'
  BY <1>4 DEF Fetch, Goto, rows, LockedBy
<1>5. ASSUME NEW c \in Collections, NEW l \in Listings, Upsert(c, l) PROVE IdleInv'
  BY <1>5 DEF Upsert, NextItem, Goto, rows, LockedBy
<1>6. ASSUME NEW c \in Collections, Load(c) PROVE IdleInv'
  BY <1>6 DEF Load, Goto, rows, LockedBy
<1>7. ASSUME NEW c \in Collections, Resolve(c) PROVE IdleInv'
  BY <1>7 DEF Resolve, Write, Goto, rows, LockedBy
<1>8. ASSUME NEW c \in Collections, Save(c) PROVE IdleInv'
  BY <1>8 DEF Save, Write, NextItem, Goto, LockedBy
<1>9. ASSUME NEW c \in Collections, FailItem(c) PROVE IdleInv'
  BY <1>9 DEF FailItem, Forget, NextItem, Goto, LockedBy
<1>10. ASSUME NEW c \in Collections, Commit(c) PROVE IdleInv'
  BY <1>10 DEF Commit, CommitRows, Forget, End, Goto, LockedBy
<1>11. ASSUME NEW c \in Collections, Abort(c) PROVE IdleInv'
  BY <1>11 DEF Abort, Rollback, Forget, End, Goto, LockedBy
<1>12. ASSUME NEW s, Deactivate(s) PROVE IdleInv'
  BY <1>12 DEF Deactivate, Write, task, LockedBy
<1>13. ASSUME Scan PROVE IdleInv'
  BY <1>13 DEF Scan, rows, task, LockedBy
<1>14. ASSUME Apply PROVE IdleInv'
  BY <1>14 DEF Apply, Write, task, LockedBy
<1>15. ASSUME CronCommit PROVE IdleInv'
  BY <1>15 DEF CronCommit, CommitRows, Forget, task, LockedBy
<1>16. ASSUME CronAbort PROVE IdleInv'
  BY <1>16 DEF CronAbort, Rollback, Forget, task, LockedBy
<1>17. ASSUME TimePasses PROVE IdleInv'
  BY <1>17 DEF TimePasses, rows, task, LockedBy
<1>18. CASE UNCHANGED vars
  BY <1>18 DEF vars, rows, task, LockedBy
<1> QED
  BY <1>1, <1>2, <1>3, <1>4, <1>5, <1>6, <1>7, <1>8, <1>9, <1>10, <1>11, <1>12, <1>13, <1>14, <1>15, <1>16, <1>17, <1>18
  DEF Next, Collect, Freshness

\* The identity stays locked while the listing is in hand.
LEMMA NextItemInv ==
  TypeOK /\ ItemInv /\ [Next]_vars => ItemInv'
<1> SUFFICES ASSUME TypeOK, ItemInv, [Next]_vars PROVE ItemInv'
  OBVIOUS
<1> USE TxAssumption DEF TypeOK, ItemInv, Ingesting, Txs
<1>1. ASSUME NEW c \in Collections, Discover(c) PROVE ItemInv'
  BY <1>1 DEF Discover, Goto, rows
<1>2. ASSUME NEW c \in Collections, TouchJobs(c) PROVE ItemInv'
  BY <1>2 DEF TouchJobs, Write, Goto, task
<1>3. ASSUME NEW c \in Collections, TouchSources(c) PROVE ItemInv'
  BY <1>3 DEF TouchSources, Write, Goto, task
<1>4. ASSUME NEW c \in Collections, Fetch(c) PROVE ItemInv'
  BY <1>4 DEF Fetch, Goto, rows
<1>5. ASSUME NEW c \in Collections, NEW l \in Listings, Upsert(c, l) PROVE ItemInv'
  BY <1>5 DEF Upsert, NextItem, Goto, rows
<1>6. ASSUME NEW c \in Collections, Load(c) PROVE ItemInv'
  <2>1. \A d \in Collections \ {c} : pc[d] \in {"resolve", "save"} => item[d] # item[c]
    BY <1>6 DEF Load
  <2> QED
    BY <1>6, <2>1 DEF Load, Goto, rows
<1>7. ASSUME NEW c \in Collections, Resolve(c) PROVE ItemInv'
  BY <1>7 DEF Resolve, Write, Goto, rows
<1>8. ASSUME NEW c \in Collections, Save(c) PROVE ItemInv'
  BY <1>8 DEF Save, Write, NextItem, Goto
<1>9. ASSUME NEW c \in Collections, FailItem(c) PROVE ItemInv'
  BY <1>9 DEF FailItem, Forget, NextItem, Goto
<1>10. ASSUME NEW c \in Collections, Commit(c) PROVE ItemInv'
  BY <1>10 DEF Commit, CommitRows, Forget, End, Goto
<1>11. ASSUME NEW c \in Collections, Abort(c) PROVE ItemInv'
  BY <1>11 DEF Abort, Rollback, Forget, End, Goto
<1>12. ASSUME NEW s, Deactivate(s) PROVE ItemInv'
  BY <1>12 DEF Deactivate, Write, task
<1>13. ASSUME Scan PROVE ItemInv'
  BY <1>13 DEF Scan, rows, task
<1>14. ASSUME Apply PROVE ItemInv'
  BY <1>14 DEF Apply, Write, task
<1>15. ASSUME CronCommit PROVE ItemInv'
  BY <1>15 DEF CronCommit, CommitRows, Forget, task
<1>16. ASSUME CronAbort PROVE ItemInv'
  BY <1>16 DEF CronAbort, Rollback, Forget, task
<1>17. ASSUME TimePasses PROVE ItemInv'
  BY <1>17 DEF TimePasses, rows, task
<1>18. CASE UNCHANGED vars
  BY <1>18 DEF vars, rows, task
<1> QED
  BY <1>1, <1>2, <1>3, <1>4, <1>5, <1>6, <1>7, <1>8, <1>9, <1>10, <1>11, <1>12, <1>13, <1>14, <1>15, <1>16, <1>17, <1>18
  DEF Next, Collect, Freshness

\* The second UPDATE finds jobs that exist.
LEMMA NextFoundInv ==
  TypeOK /\ RowInv /\ FoundInv /\ [Next]_vars => FoundInv'
<1> SUFFICES ASSUME TypeOK, RowInv, FoundInv, [Next]_vars PROVE FoundInv'
  OBVIOUS
<1> USE RowFacts, TxAssumption DEF TypeOK, RowInv, FoundInv, Exists
<1>1. ASSUME NEW c \in Collections, Discover(c) PROVE FoundInv'
  BY <1>1 DEF Discover, Goto, rows, Read, LockedBy
<1>2. ASSUME NEW c \in Collections, TouchJobs(c) PROVE FoundInv'
  BY <1>2 DEF TouchJobs, Write, Goto, task, Read, LockedBy
<1>3. ASSUME NEW c \in Collections, TouchSources(c) PROVE FoundInv'
  BY <1>3 DEF TouchSources, Write, Goto, task, Read, LockedBy
<1>4. ASSUME NEW c \in Collections, Fetch(c) PROVE FoundInv'
  BY <1>4 DEF Fetch, Goto, rows, Read, LockedBy
<1>5. ASSUME NEW c \in Collections, NEW l \in Listings, Upsert(c, l) PROVE FoundInv'
  BY <1>5 DEF Upsert, NextItem, Goto, rows, Read, LockedBy
<1>6. ASSUME NEW c \in Collections, Load(c) PROVE FoundInv'
  BY <1>6 DEF Load, Goto, rows, Read, LockedBy
<1>7. ASSUME NEW c \in Collections, Resolve(c) PROVE FoundInv'
  BY <1>7 DEF Resolve, Write, Goto, rows, Read, LockedBy
<1>8. ASSUME NEW c \in Collections, Save(c) PROVE FoundInv'
  BY <1>8 DEF Save, Write, NextItem, Goto, Read, LockedBy
<1>9. ASSUME NEW c \in Collections, FailItem(c) PROVE FoundInv'
  BY <1>9 DEF FailItem, Forget, NextItem, Goto, Read, LockedBy
<1>10. ASSUME NEW c \in Collections, Commit(c) PROVE FoundInv'
  <2>1. found' = found /\ \A x \in Rows : val'[x] = Read(c, x)
    BY <1>10 DEF Commit, CommitRows, End
  <2>2. \A x \in Rows : val[x] # "absent" => Read(c, x) # "absent"
    BY DEF Read, Txs
  <2> QED
    BY <2>1, <2>2
<1>11. ASSUME NEW c \in Collections, Abort(c) PROVE FoundInv'
  BY <1>11 DEF Abort, Rollback, Forget, End, Goto, Read, LockedBy
<1>12. ASSUME NEW s, Deactivate(s) PROVE FoundInv'
  BY <1>12 DEF Deactivate, Write, task, Read, LockedBy
<1>13. ASSUME Scan PROVE FoundInv'
  BY <1>13 DEF Scan, rows, task, Read, LockedBy
<1>14. ASSUME Apply PROVE FoundInv'
  BY <1>14 DEF Apply, Write, task, Read, LockedBy
<1>15. ASSUME CronCommit PROVE FoundInv'
  BY <1>15 DEF CronCommit, CommitRows, Forget, task, Read, LockedBy
<1>16. ASSUME CronAbort PROVE FoundInv'
  BY <1>16 DEF CronAbort, Rollback, Forget, task, Read, LockedBy
<1>17. ASSUME TimePasses PROVE FoundInv'
  BY <1>17 DEF TimePasses, rows, task, Read, LockedBy
<1>18. CASE UNCHANGED vars
  BY <1>18 DEF vars, rows, task, Read, LockedBy
<1> QED
  BY <1>1, <1>2, <1>3, <1>4, <1>5, <1>6, <1>7, <1>8, <1>9, <1>10, <1>11, <1>12, <1>13, <1>14, <1>15, <1>16, <1>17, <1>18
  DEF Next, Collect, Freshness

\* The row of an observation has one writer, and only time makes it stale.
LEMMA NextFreshInv ==
  TypeOK /\ RowInv /\ IdleInv /\ ItemInv /\ LoadedInv /\ PickInv /\ FoundInv /\ FreshInv
    /\ [Next]_vars => FreshInv'
<1> SUFFICES ASSUME TypeOK, RowInv, IdleInv, ItemInv, LoadedInv, PickInv, FoundInv, FreshInv,
                    [Next]_vars
             PROVE  FreshInv'
  OBVIOUS
<1> USE RowFacts, TxAssumption DEF TypeOK, FreshInv, Txs
<1>1. ASSUME NEW c \in Collections, Discover(c) PROVE FreshInv'
  BY <1>1 DEF Discover, Goto, rows, Read, LockedBy
<1>2. ASSUME NEW c \in Collections, TouchJobs(c) PROVE FreshInv'
  BY <1>2 DEF TouchJobs, Write, Goto, task, Read, LockedBy
<1>3. ASSUME NEW c \in Collections, TouchSources(c) PROVE FreshInv'
  BY <1>3 DEF TouchSources, Write, Goto, task, Read, LockedBy
<1>4. ASSUME NEW c \in Collections, Fetch(c) PROVE FreshInv'
  BY <1>4 DEF Fetch, Goto, rows, Read, LockedBy
<1>5. ASSUME NEW c \in Collections, NEW l \in Listings, Upsert(c, l) PROVE FreshInv'
  BY <1>5 DEF Upsert, NextItem, Goto, rows, Read, LockedBy
<1>6. ASSUME NEW c \in Collections, Load(c) PROVE FreshInv'
  BY <1>6 DEF Load, Goto, rows, Read, LockedBy
<1>7. ASSUME NEW c \in Collections, Resolve(c) PROVE FreshInv'
  BY <1>7 DEF Resolve, Write, Goto, rows, Read, LockedBy
<1>8. ASSUME NEW c \in Collections, Save(c) PROVE FreshInv'
  <2> DEFINE s == SrcRow(item[c])
             j == JobRow(pick[c])
  <2>1. /\ item[c] \in Listings /\ pick[c] \in Listings
        /\ val' = val /\ lock[s] \in {None, c} /\ age' = age
        /\ \A x \in Rows : lock'[x] = IF x \in {s, j} THEN c ELSE lock[x]
        /\ \A x \in Rows : x \notin {s, j} => new'[x] = new[x]
        /\ new'[s] \in {Read(c, s), "active"}
    BY <1>8, SaveStep
  <2>2. val[s] = "active" => new'[s] = "active"
    BY <2>1 DEF Read
  <2>3. \A l \in Listings : SrcRow(l) # s =>
          lock'[SrcRow(l)] = lock[SrcRow(l)] /\ new'[SrcRow(l)] = new[SrcRow(l)]
    BY <2>1
  <2>4. lock'[s] = c /\ c # Cron
    BY <2>1
  <2> QED
    BY <2>1, <2>2, <2>3, <2>4
<1>9. ASSUME NEW c \in Collections, FailItem(c) PROVE FreshInv'
  BY <1>9 DEF FailItem, Forget, NextItem, Goto, Read, LockedBy
<1>10. ASSUME NEW c \in Collections, Commit(c) PROVE FreshInv'
  BY <1>10 DEF Commit, CommitRows, Forget, End, Goto, Read, LockedBy
<1>11. ASSUME NEW c \in Collections, Abort(c) PROVE FreshInv'
  BY <1>11 DEF Abort, Rollback, Forget, End, Goto, Read, LockedBy
<1>12. ASSUME NEW s, Deactivate(s) PROVE FreshInv'
  BY <1>12, CronWrites
<1>13. ASSUME Scan PROVE FreshInv'
  BY <1>13 DEF Scan, rows, task, Read, LockedBy
<1>14. ASSUME Apply PROVE FreshInv'
  BY <1>14, CronWrites
<1>15. ASSUME CronCommit PROVE FreshInv'
  BY <1>15 DEF CronCommit, CommitRows, Forget, task, Read, LockedBy
<1>16. ASSUME CronAbort PROVE FreshInv'
  BY <1>16 DEF CronAbort, Rollback, Forget, task, Read, LockedBy
<1>17. ASSUME TimePasses PROVE FreshInv'
  BY <1>17 DEF TimePasses, rows, task, Read, LockedBy
<1>18. CASE UNCHANGED vars
  BY <1>18 DEF vars, rows, task, Read, LockedBy
<1> QED
  BY <1>1, <1>2, <1>3, <1>4, <1>5, <1>6, <1>7, <1>8, <1>9, <1>10, <1>11, <1>12, <1>13, <1>14, <1>15, <1>16, <1>17, <1>18
  DEF Next, Collect, Freshness

-----------------------------------------------------------------------------
(* What no step does to the rows of others.                                *)

\* A row that exists stays, a row that is locked stays with its transaction until that
\* ends or takes back the job of the listing in hand, and an observation that is
\* there or written keeps its job.
Steady ==
  /\ \A x \in Rows : Exists(x) => Exists(x)'
  /\ \A d \in Collections : \A x \in Rows :
       lock[x] = d =>
         \/ lock'[x] = d
         \/ pc'[d] = "idle"
         \/ /\ pc[d] \in Ingesting /\ pc'[d] = "items"
            /\ x = JobRow(item[d]) /\ ~Exists(x)
  /\ \A l \in Listings : of'[l] = of[l] \/ (~Exists(SrcRow(l)) /\ lock[SrcRow(l)] = None)

\* Every step is steady.
LEMMA NextSteady ==
  TypeOK /\ RowInv /\ ItemInv /\ LoadedInv /\ PickInv /\ FoundInv /\ [Next]_vars => Steady
<1> SUFFICES ASSUME TypeOK, RowInv, ItemInv, LoadedInv, PickInv, FoundInv, [Next]_vars PROVE Steady
  OBVIOUS
<1> USE RowFacts, TxAssumption DEF TypeOK, RowInv, Steady, Exists, Txs, Ingesting
<1>1. ASSUME NEW c \in Collections, Discover(c) PROVE Steady
  BY <1>1 DEF Discover, Goto, rows, LockedBy, Read
<1>2. ASSUME NEW c \in Collections, TouchJobs(c) PROVE Steady
  BY <1>2 DEF TouchJobs, Write, Goto, task, LockedBy, Read
<1>3. ASSUME NEW c \in Collections, TouchSources(c) PROVE Steady
  BY <1>3 DEF TouchSources, Write, Goto, task, LockedBy, Read
<1>4. ASSUME NEW c \in Collections, Fetch(c) PROVE Steady
  BY <1>4 DEF Fetch, Goto, rows, LockedBy, Read
<1>5. ASSUME NEW c \in Collections, NEW l \in Listings, Upsert(c, l) PROVE Steady
  BY <1>5 DEF Upsert, NextItem, Goto, rows, LockedBy, Read
<1>6. ASSUME NEW c \in Collections, Load(c) PROVE Steady
  BY <1>6 DEF Load, Goto, rows, LockedBy, Read
<1>7. ASSUME NEW c \in Collections, Resolve(c) PROVE Steady
  BY <1>7 DEF Resolve, Write, Goto, rows, LockedBy, Read
<1>8. ASSUME NEW c \in Collections, Save(c) PROVE Steady
  <2> DEFINE s == SrcRow(item[c])
             j == JobRow(pick[c])
  <2>1. /\ item[c] \in Listings /\ s \in Rows /\ j \in Rows
        /\ val' = val /\ lock[s] \in {None, c} /\ lock[j] \in {None, c}
        /\ \A x \in Rows : lock'[x] = IF x \in {s, j} THEN c ELSE lock[x]
        /\ of' = [of EXCEPT ![item[c]] = pick[c]]
        /\ Read(c, s) # "absent" => pick[c] = of[item[c]]
    BY <1>8, SaveStep
  <2>2. \A d \in Collections : \A x \in Rows : lock[x] = d => lock'[x] = d
    <3> HIDE DEF s, j
    <3> QED
      BY <2>1
  <2>3. of'[item[c]] = of[item[c]] \/ (~Exists(s) /\ lock[s] = None)
    BY <2>1 DEF Read
  <2> QED
    BY <2>1, <2>2, <2>3
<1>9. ASSUME NEW c \in Collections, FailItem(c) PROVE Steady
  BY <1>9 DEF FailItem, Forget, NextItem, Goto, LockedBy, Read
<1>10. ASSUME NEW c \in Collections, Commit(c) PROVE Steady
  BY <1>10 DEF Commit, CommitRows, Forget, End, Goto, LockedBy, Read
<1>11. ASSUME NEW c \in Collections, Abort(c) PROVE Steady
  BY <1>11 DEF Abort, Rollback, Forget, End, Goto, LockedBy, Read
<1>12. ASSUME NEW s, Deactivate(s) PROVE Steady
  BY <1>12, CronWrites
<1>13. ASSUME Scan PROVE Steady
  BY <1>13 DEF Scan, rows, task, LockedBy, Read
<1>14. ASSUME Apply PROVE Steady
  BY <1>14, CronWrites
<1>15. ASSUME CronCommit PROVE Steady
  BY <1>15 DEF CronCommit, CommitRows, Forget, task, LockedBy, Read
<1>16. ASSUME CronAbort PROVE Steady
  BY <1>16 DEF CronAbort, Rollback, Forget, task, LockedBy, Read
<1>17. ASSUME TimePasses PROVE Steady
  BY <1>17 DEF TimePasses, rows, task, LockedBy, Read
<1>18. CASE UNCHANGED vars
  BY <1>18 DEF vars, rows, task, LockedBy, Read
<1> QED
  BY <1>1, <1>2, <1>3, <1>4, <1>5, <1>6, <1>7, <1>8, <1>9, <1>10, <1>11, <1>12, <1>13, <1>14, <1>15, <1>16, <1>17, <1>18
  DEF Next, Collect, Freshness

\* What a collection sees stays in its sight until its transaction or the listing ends.
LEMMA SeenStays ==
  ASSUME Steady, TypeOK, RowInv, RowInv', NEW d \in Collections, NEW x \in Rows,
         Read(d, x) # "absent", pc'[d] \notin {"idle", "items"}
  PROVE  Read(d, x)' # "absent"
<1>1. CASE Exists(x)
  BY <1>1, TxAssumption DEF Steady, Read, Exists, RowInv, Txs
<1>2. CASE ~Exists(x)
  <2>1. lock[x] = d
    BY <1>2 DEF Read, Exists
  <2>2. lock'[x] = d
    BY <2>1 DEF Steady
  <2> QED
    BY <2>2, TxAssumption DEF Read, RowInv, Txs
<1> QED
  BY <1>1, <1>2

\* The job of an observation that it sees does not change under a collection.
LEMMA SeenKeepsJob ==
  ASSUME Steady, NEW d \in Collections, NEW l \in Listings, Read(d, SrcRow(l)) # "absent"
  PROVE  of'[l] = of[l]
  BY TxAssumption DEF Steady, Read, Exists, Txs

\* Only the collection itself, and the end of its listing, changes what it has loaded.
LEMMA NextLoadedInv ==
  TypeOK /\ RowInv /\ ItemInv /\ LoadedInv /\ PickInv /\ FoundInv /\ [Next]_vars => LoadedInv'
<1> SUFFICES ASSUME TypeOK, RowInv, ItemInv, LoadedInv, PickInv, FoundInv, [Next]_vars PROVE LoadedInv'
  OBVIOUS
<1>s. Steady /\ RowInv' /\ ItemInv'
  BY NextSteady, NextRowInv, NextItemInv
<1>o. ASSUME NEW d \in Collections, pc'[d] \in {"resolve", "save"}, pc'[d] = pc[d],
             item'[d] = item[d], pick'[d] = pick[d], loaded'[d] = loaded[d], loaded'[d].src # "absent"
      PROVE  /\ Read(d, SrcRow(item[d]))' # "absent"
             /\ pc'[d] = "save" => pick'[d] = of'[item'[d]]
  <2>1. item[d] \in Listings /\ SrcRow(item[d]) \in Rows
    BY <1>o, RowFacts DEF TypeOK, ItemInv, Ingesting
  <2>2. Read(d, SrcRow(item[d])) # "absent" /\ (pc[d] = "save" => pick[d] = of[item[d]])
    BY <1>o DEF LoadedInv
  <2>3. Read(d, SrcRow(item[d]))' # "absent"
    BY <1>o, <1>s, <2>1, <2>2, SeenStays
  <2> QED
    BY <1>o, <1>s, <2>1, <2>2, <2>3, SeenKeepsJob
<1>p. ASSUME \A d \in Collections : pc'[d] \in {"resolve", "save"} =>
                pc'[d] = pc[d] /\ item'[d] = item[d] /\ pick'[d] = pick[d] /\ loaded'[d] = loaded[d]
      PROVE  LoadedInv'
  BY <1>o, <1>p DEF LoadedInv
<1> USE DEF TypeOK
<1>1. ASSUME NEW c \in Collections, Discover(c) PROVE LoadedInv'
  BY <1>1, <1>p DEF Discover, Goto, rows
<1>2. ASSUME NEW c \in Collections, TouchJobs(c) PROVE LoadedInv'
  BY <1>2, <1>p DEF TouchJobs, Goto, task
<1>3. ASSUME NEW c \in Collections, TouchSources(c) PROVE LoadedInv'
  BY <1>3, <1>p DEF TouchSources, Goto, task
<1>4. ASSUME NEW c \in Collections, Fetch(c) PROVE LoadedInv'
  BY <1>4, <1>p DEF Fetch, Goto, rows
<1>5. ASSUME NEW c \in Collections, NEW l \in Listings, Upsert(c, l) PROVE LoadedInv'
  BY <1>5, <1>p DEF Upsert, NextItem, Goto, rows
<1>6. ASSUME NEW c \in Collections, Load(c) PROVE LoadedInv'
  <2>1. item[c] \in Listings /\ SrcRow(item[c]) \in Rows
    BY <1>6, RowFacts DEF ItemInv, Ingesting, Load
  <2>2. /\ pc'[c] = "resolve" /\ loaded'[c].src = Read(c, SrcRow(item[c])) /\ item' = item
        /\ UNCHANGED rows /\ pick' = pick
        /\ \A d \in Collections \ {c} : pc'[d] = pc[d] /\ loaded'[d] = loaded[d]
    BY <1>6 DEF Load, Goto
  <2>3. Read(c, SrcRow(item[c]))' = Read(c, SrcRow(item[c]))
    BY <2>2 DEF Read, rows
  <2> QED
    BY <1>o, <2>1, <2>2, <2>3 DEF LoadedInv
<1>7. ASSUME NEW c \in Collections, Resolve(c) PROVE LoadedInv'
  <2>1. item[c] \in Listings /\ SrcRow(item[c]) \in Rows
    BY <1>7, RowFacts DEF ItemInv, Ingesting, Resolve
  <2>2. /\ pc[c] = "resolve" /\ pc'[c] = "save" /\ loaded'[c].src = loaded[c].src /\ item' = item /\ of' = of
        /\ \A d \in Collections \ {c} : pc'[d] = pc[d] /\ loaded'[d] = loaded[d] /\ pick'[d] = pick[d]
    BY <1>7 DEF Resolve, Goto
  <2>3. loaded[c].src # "absent" => pick'[c] = of[item[c]]
    BY <1>7 DEF Resolve
  <2>4. loaded[c].src # "absent" => Read(c, SrcRow(item[c]))' # "absent"
    BY <1>s, <2>1, <2>2, SeenStays DEF LoadedInv
  <2> QED
    BY <1>o, <2>1, <2>2, <2>3, <2>4 DEF LoadedInv
<1>8. ASSUME NEW c \in Collections, Save(c) PROVE LoadedInv'
  BY <1>8, <1>p, SaveStep
<1>9. ASSUME NEW c \in Collections, FailItem(c) PROVE LoadedInv'
  BY <1>9, <1>p DEF FailItem, NextItem, Goto
<1>10. ASSUME NEW c \in Collections, Commit(c) PROVE LoadedInv'
  BY <1>10, <1>p DEF Commit, End, Goto
<1>11. ASSUME NEW c \in Collections, Abort(c) PROVE LoadedInv'
  BY <1>11, <1>p DEF Abort, End, Goto
<1>12. ASSUME NEW s, Deactivate(s) PROVE LoadedInv'
  BY <1>12, <1>p DEF Deactivate, task
<1>13. ASSUME Scan PROVE LoadedInv'
  BY <1>13, <1>p DEF Scan, rows, task
<1>14. ASSUME Apply PROVE LoadedInv'
  BY <1>14, <1>p DEF Apply, task
<1>15. ASSUME CronCommit PROVE LoadedInv'
  BY <1>15, <1>p DEF CronCommit, task
<1>16. ASSUME CronAbort PROVE LoadedInv'
  BY <1>16, <1>p DEF CronAbort, task
<1>17. ASSUME TimePasses PROVE LoadedInv'
  BY <1>17, <1>p DEF TimePasses, rows, task
<1>18. CASE UNCHANGED vars
  BY <1>18, <1>p DEF vars, rows, task
<1> QED
  BY <1>1, <1>2, <1>3, <1>4, <1>5, <1>6, <1>7, <1>8, <1>9, <1>10, <1>11, <1>12, <1>13, <1>14, <1>15, <1>16, <1>17, <1>18
  DEF Next, Collect, Freshness

\* The graph that a collection sees: every observation with its job.
LEMMA SeenIsWhole ==
  ASSUME TypeOK, RowInv, SrcInv, NoOrphanJob, NEW c \in Collections, NEW l \in Listings,
         Read(c, SrcRow(l)) # "absent"
  PROVE  Read(c, JobRow(of[l])) # "absent"
<1>1. of[l] \in Listings /\ JobRow(of[l]) \in Rows /\ SrcRow(l) \in Rows
  BY RowFacts DEF TypeOK
<1>2. \A x \in Rows : Exists(x) \/ lock[x] = c => Read(c, x) # "absent"
  BY TxAssumption DEF Read, RowInv, Exists, Txs
<1>3. Exists(JobRow(of[l])) \/ lock[JobRow(of[l])] = c
  BY <1>1 DEF Read, Exists, SrcInv, NoOrphanJob
<1> QED
  BY <1>1, <1>2, <1>3

\* A job is picked because the collection sees it, or sees an observation of it.
LEMMA NextPickInv ==
  TypeOK /\ RowInv /\ ItemInv /\ LoadedInv /\ PickInv /\ FoundInv /\ SrcInv /\ NoOrphanJob /\ [Next]_vars => PickInv'
<1> SUFFICES ASSUME TypeOK, RowInv, ItemInv, LoadedInv, PickInv, FoundInv, SrcInv, NoOrphanJob, [Next]_vars PROVE PickInv'
  OBVIOUS
<1>s. Steady /\ RowInv'
  BY NextSteady, NextRowInv
<1>p. ASSUME NEW d \in Collections, pc'[d] = pc[d], pick'[d] = pick[d], pc'[d] = "save"
      PROVE  pick'[d] \in Listings /\ Read(d, JobRow(pick[d]))' # "absent"
  BY <1>p, <1>s, SeenStays, RowFacts DEF PickInv
<1>o. ASSUME \A d \in Collections : pc'[d] = "save" => pc'[d] = pc[d] /\ pick'[d] = pick[d]
      PROVE  PickInv'
  BY <1>o, <1>p DEF PickInv
<1> USE DEF TypeOK
<1>1. ASSUME NEW c \in Collections, Discover(c) PROVE PickInv'
  BY <1>1, <1>o DEF Discover, Goto, rows
<1>2. ASSUME NEW c \in Collections, TouchJobs(c) PROVE PickInv'
  BY <1>2, <1>o DEF TouchJobs, Goto, task
<1>3. ASSUME NEW c \in Collections, TouchSources(c) PROVE PickInv'
  BY <1>3, <1>o DEF TouchSources, Goto, task
<1>4. ASSUME NEW c \in Collections, Fetch(c) PROVE PickInv'
  BY <1>4, <1>o DEF Fetch, Goto, rows
<1>5. ASSUME NEW c \in Collections, NEW l \in Listings, Upsert(c, l) PROVE PickInv'
  BY <1>5, <1>o DEF Upsert, NextItem, Goto, rows
<1>6. ASSUME NEW c \in Collections, Load(c) PROVE PickInv'
  BY <1>6, <1>o DEF Load, Goto, rows
<1>7. ASSUME NEW c \in Collections, Resolve(c) PROVE PickInv'
  <2>1. item[c] \in Listings /\ SrcRow(item[c]) \in Rows
    BY <1>7, RowFacts DEF ItemInv, Ingesting, Resolve
  <2>2. /\ pc'[c] = "save" /\ pc[c] = "resolve"
        /\ \A d \in Collections \ {c} : pc'[d] = pc[d] /\ pick'[d] = pick[d]
    BY <1>7 DEF Resolve, Goto
  <2>3. \A k \in Listings : Read(c, SrcRow(k)) # "absent" => Read(c, JobRow(of[k])) # "absent"
    BY SeenIsWhole
  <2>4. pick'[c] \in Listings /\ (Read(c, JobRow(pick'[c])) # "absent" \/ lock'[JobRow(pick'[c])] = c)
    <3> DEFINE choice == IF loaded[c].src # "absent" THEN {of[item[c]]}
                         ELSE IF SameUrl(c) # {} THEN SameUrl(c) ELSE Candidates(c)
    <3>1. ASSUME NEW j \in choice PROVE j \in Listings /\ Read(c, JobRow(j)) # "absent"
      <4>1. CASE loaded[c].src # "absent"
        BY <2>1, <2>2, <2>3, <4>1 DEF LoadedInv
      <4>2. CASE loaded[c].src = "absent" /\ SameUrl(c) # {}
        BY <2>3, <4>2 DEF SameUrl
      <4>3. CASE loaded[c].src = "absent" /\ SameUrl(c) = {}
        BY <4>3 DEF Candidates
      <4> QED
        BY <4>1, <4>2, <4>3
    <3>2. (\E j \in choice : pick' = [pick EXCEPT ![c] = j])
          \/ (pick' = [pick EXCEPT ![c] = item[c]] /\ Write(c, [x \in {JobRow(item[c])} |-> "active"]))
      BY <1>7 DEF Resolve
    <3>3. CASE \E j \in choice : pick' = [pick EXCEPT ![c] = j]
      BY <3>1, <3>3
    <3>4. CASE pick' = [pick EXCEPT ![c] = item[c]] /\ Write(c, [x \in {JobRow(item[c])} |-> "active"])
      BY <2>1, <3>4, RowFacts DEF Write
    <3> QED
      BY <3>2, <3>3, <3>4
  <2>5. PICK k \in Listings : pick'[c] = k
    BY <2>4
  <2>6. Read(c, JobRow(k))' # "absent"
    <3>1. CASE Read(c, JobRow(k)) # "absent"
      BY <1>s, <2>2, <3>1, SeenStays, RowFacts
    <3>2. CASE lock'[JobRow(k)] = c
      BY <1>s, <3>2, RowFacts, TxAssumption DEF Read, RowInv, Txs
    <3> QED
      BY <2>4, <2>5, <3>1, <3>2
  <2> QED
    BY <1>p, <2>2, <2>5, <2>6 DEF PickInv
<1>8. ASSUME NEW c \in Collections, Save(c) PROVE PickInv'
  BY <1>8, <1>o, SaveStep
<1>9. ASSUME NEW c \in Collections, FailItem(c) PROVE PickInv'
  BY <1>9, <1>o DEF FailItem, NextItem, Goto
<1>10. ASSUME NEW c \in Collections, Commit(c) PROVE PickInv'
  BY <1>10, <1>o DEF Commit, End, Goto
<1>11. ASSUME NEW c \in Collections, Abort(c) PROVE PickInv'
  BY <1>11, <1>o DEF Abort, End, Goto
<1>12. ASSUME NEW s, Deactivate(s) PROVE PickInv'
  BY <1>12, <1>o DEF Deactivate, task
<1>13. ASSUME Scan PROVE PickInv'
  BY <1>13, <1>o DEF Scan, rows, task
<1>14. ASSUME Apply PROVE PickInv'
  BY <1>14, <1>o DEF Apply, task
<1>15. ASSUME CronCommit PROVE PickInv'
  BY <1>15, <1>o DEF CronCommit, task
<1>16. ASSUME CronAbort PROVE PickInv'
  BY <1>16, <1>o DEF CronAbort, task
<1>17. ASSUME TimePasses PROVE PickInv'
  BY <1>17, <1>o DEF TimePasses, rows, task
<1>18. CASE UNCHANGED vars
  BY <1>18, <1>o DEF vars, rows, task
<1> QED
  BY <1>1, <1>2, <1>3, <1>4, <1>5, <1>6, <1>7, <1>8, <1>9, <1>10, <1>11, <1>12, <1>13, <1>14, <1>15, <1>16, <1>17, <1>18
  DEF Next, Collect, Freshness

-----------------------------------------------------------------------------
(* The graph.                                                              *)

\* The job that a listing is attached to exists, or is the listing's own, or was made for
\* a listing that the collection is done with.
LEMMA PickedIsDone ==
  ASSUME TypeOK, RowInv, ItemInv, LoadedInv, PickInv, JobInv, NEW c \in Collections, Save(c)
  PROVE  /\ pick[c] \notin todo'[c] \/ Exists(JobRow(pick[c]))
         /\ lock'[JobRow(pick[c])] = c /\ lock'[SrcRow(item[c])] = c
<1>1. /\ item[c] \in Listings /\ pick[c] \in Listings
      /\ todo' = [todo EXCEPT ![c] = @ \ {item[c]}] /\ Read(c, JobRow(pick[c])) # "absent"
      /\ lock'[JobRow(pick[c])] = c /\ lock'[SrcRow(item[c])] = c
  BY SaveStep
<1>2. todo'[c] = todo[c] \ {item[c]}
  BY <1>1 DEF TypeOK
<1>3. Exists(JobRow(pick[c])) \/ lock[JobRow(pick[c])] = c
  BY <1>1 DEF Read, Exists
<1> QED
  BY <1>1, <1>2, <1>3 DEF JobInv

\* A job gets its observation in the step after the one that makes it, or is taken back.
LEMMA NextJobInv ==
  TypeOK /\ RowInv /\ IdleInv /\ ItemInv /\ LoadedInv /\ PickInv /\ FoundInv
    /\ JobInv /\ SrcInv /\ NoOrphanJob /\ [Next]_vars => JobInv'
<1> SUFFICES ASSUME TypeOK, RowInv, IdleInv, ItemInv, LoadedInv, PickInv, FoundInv,
                    JobInv, SrcInv, NoOrphanJob, [Next]_vars
             PROVE  JobInv'
  OBVIOUS
<1>s. Steady
  BY NextSteady
<1> DEFINE Owned(d, j) == \/ Exists(JobRow(j))
                          \/ pc[d] = "save" /\ item[d] = j /\ pick[d] = j
                          \/ j \notin todo[d] /\ \E l \in Listings : lock[SrcRow(l)] = d /\ of[l] = j
<1>k. ASSUME NEW d \in Collections, NEW j \in Listings, lock[JobRow(j)] = d,
             todo'[d] \subseteq todo[d], pc'[d] # "idle",
             pc[d] = "save" /\ item[d] = j /\ pick[d] = j /\ ~Exists(JobRow(j)) =>
               pc'[d] = "save" /\ item'[d] = item[d] /\ pick'[d] = pick[d]
      PROVE  Owned(d, j)'
  <2>1. CASE Exists(JobRow(j))
    BY <1>s, <2>1, RowFacts DEF Steady
  <2>2. CASE ~Exists(JobRow(j)) /\ pc[d] = "save" /\ item[d] = j /\ pick[d] = j
    BY <1>k, <2>2
  <2>3. CASE j \notin todo[d] /\ \E l \in Listings : lock[SrcRow(l)] = d /\ of[l] = j
    <3>1. PICK l \in Listings : lock[SrcRow(l)] = d /\ of[l] = j
      BY <2>3
    <3>2. of'[l] = j
      BY <1>s, <3>1, TxAssumption DEF Steady, Txs
    <3>3. item[d] \in Listings \/ pc[d] \notin Ingesting
      BY DEF TypeOK, ItemInv
    <3>4. lock'[SrcRow(l)] = d
      BY <1>k, <1>s, <3>1, <3>3, RowFacts DEF Steady
    <3> QED
      BY <1>k, <2>3, <3>2, <3>4
  <2> QED
    BY <1>k, <2>1, <2>2, <2>3 DEF JobInv
<1>p. ASSUME \A d \in Collections, j \in Listings :
               lock'[JobRow(j)] = d =>
                 /\ lock[JobRow(j)] = d /\ todo'[d] \subseteq todo[d] /\ pc'[d] # "idle"
                 /\ pc[d] = "save" /\ item[d] = j /\ pick[d] = j /\ ~Exists(JobRow(j)) =>
                      pc'[d] = "save" /\ item'[d] = item[d] /\ pick'[d] = pick[d]
      PROVE  JobInv'
  BY <1>k, <1>p DEF JobInv
<1> HIDE DEF Owned
<1> USE RowFacts, TxAssumption DEF TypeOK, IdleInv, Txs
<1>1. ASSUME NEW c \in Collections, Discover(c) PROVE JobInv'
  BY <1>1, <1>p DEF Discover, Goto, rows
<1>2. ASSUME NEW c \in Collections, TouchJobs(c) PROVE JobInv'
  <2>1. /\ UNCHANGED task /\ pc' = [pc EXCEPT ![c] = "touch_sources"] /\ pc[c] = "touch_jobs"
        /\ Write(c, [x \in {JobRow(of[l]) : l \in Known(c)} |-> "active"])
    BY <1>2 DEF TouchJobs, Goto
  <2>2. ASSUME NEW d \in Collections, NEW j \in Listings, lock'[JobRow(j)] = d PROVE Owned(d, j)'
    <3>1. CASE lock[JobRow(j)] = d
      BY <1>k, <2>1, <3>1 DEF task
    <3>2. CASE lock[JobRow(j)] # d
      <4>1. d = c /\ JobRow(j) \in {JobRow(of[l]) : l \in Known(c)}
        BY <2>1, <2>2, <3>2 DEF Write
      <4>2. PICK l \in Listings : Read(c, SrcRow(l)) # "absent" /\ of[l] = j
        BY <4>1 DEF Known
      <4>3. Exists(JobRow(j))
        BY <3>2, <4>1, <4>2, SeenIsWhole DEF Read, Exists
      <4> QED
        BY <1>s, <4>3 DEF Steady, Owned
    <3> QED
      BY <3>1, <3>2
  <2> QED
    BY <2>2 DEF JobInv, Owned
<1>3. ASSUME NEW c \in Collections, TouchSources(c) PROVE JobInv'
  <2>1. /\ UNCHANGED task /\ pc' = [pc EXCEPT ![c] = "fetch"] /\ pc[c] = "touch_sources"
        /\ Write(c, [x \in {SrcRow(l) : l \in Known(c)} |-> "active"])
    BY <1>3 DEF TouchSources, Goto
  <2>2. \A j \in Listings : lock'[JobRow(j)] = lock[JobRow(j)]
    <3>1. \A j \in Listings : JobRow(j) \notin {SrcRow(l) : l \in Known(c)}
      BY DEF Known
    <3> QED
      BY <2>1, <3>1 DEF Write
  <2> QED
    BY <1>p, <2>1, <2>2 DEF task
<1>4. ASSUME NEW c \in Collections, Fetch(c) PROVE JobInv'
  BY <1>4, <1>p DEF Fetch, Goto, rows
<1>5. ASSUME NEW c \in Collections, NEW l \in Listings, Upsert(c, l) PROVE JobInv'
  <2>1. UNCHANGED <<lock, pick>> /\ pc[c] = "items"
    BY <1>5 DEF Upsert, rows
  <2>2. pc' = [pc EXCEPT ![c] = "ingest"] \/ pc' = [pc EXCEPT ![c] = "items"]
    BY <1>5 DEF Upsert, NextItem, Goto
  <2>3. item' = item \/ item' = [item EXCEPT ![c] = l]
    BY <1>5 DEF Upsert
  <2>4. todo' = todo \/ todo' = [todo EXCEPT ![c] = todo[c] \ {l}]
    BY <1>5 DEF Upsert, NextItem
  <2>5. \A d \in Collections : todo'[d] \subseteq todo[d]
    <3>1. todo \in [Collections -> SUBSET Listings]
      OBVIOUS
    <3> HIDE DEF TypeOK, IdleInv, Txs
    <3>2. \A d \in Collections : todo'[d] = todo[d] \/ todo'[d] = todo[d] \ {l}
      BY <2>4, <3>1
    <3> QED
      BY <3>2
  <2>6. \A d \in Collections \ {c} : pc'[d] = pc[d] /\ item'[d] = item[d]
    BY <2>2, <2>3
  <2> QED
    BY <1>p, <2>1, <2>2, <2>5, <2>6
<1>6. ASSUME NEW c \in Collections, Load(c) PROVE JobInv'
  BY <1>6, <1>p DEF Load, Goto, rows
<1>7. ASSUME NEW c \in Collections, Resolve(c) PROVE JobInv'
  <2>1. /\ UNCHANGED <<todo, item>> /\ pc' = [pc EXCEPT ![c] = "save"] /\ pc[c] = "resolve"
        /\ \A d \in Collections \ {c} : pick'[d] = pick[d]
    BY <1>7 DEF Resolve, Goto
  <2>2. \/ lock' = lock
        \/ pick'[c] = item[c] /\ Write(c, [x \in {JobRow(item[c])} |-> "active"])
    BY <1>7 DEF Resolve, rows
  <2>3. ASSUME NEW d \in Collections, NEW j \in Listings, lock'[JobRow(j)] = d PROVE Owned(d, j)'
    <3>1. CASE lock[JobRow(j)] = d
      BY <1>k, <2>1, <3>1
    <3>2. CASE lock[JobRow(j)] # d
      <4>1. d = c /\ JobRow(j) = JobRow(item[c]) /\ pick'[c] = item[c]
        BY <2>2, <2>3, <3>2 DEF Write
      <4>2. item[c] \in Listings
        BY <2>1 DEF ItemInv, Ingesting
      <4> QED
        BY <2>1, <4>1, <4>2 DEF Owned
    <3> QED
      BY <3>1, <3>2
  <2> QED
    BY <2>3 DEF JobInv, Owned
<1>8. ASSUME NEW c \in Collections, Save(c) PROVE JobInv'
  <2> DEFINE s == SrcRow(item[c])
             p == JobRow(pick[c])
  <2>0. pc[c] = "save"
    BY <1>8 DEF Save
  <2>1. /\ item[c] \in Listings /\ pick[c] \in Listings /\ item[c] \in todo[c]
        /\ \A x \in Rows : lock'[x] = IF x \in {s, p} THEN c ELSE lock[x]
        /\ of' = [of EXCEPT ![item[c]] = pick[c]]
        /\ pc' = [pc EXCEPT ![c] = "items"] /\ todo' = [todo EXCEPT ![c] = todo[c] \ {item[c]}]
        /\ UNCHANGED <<item, pick>>
    <3> HIDE DEF TypeOK, IdleInv, Txs
    <3> QED
      BY <1>8, SaveStep
  <2>2. pick[c] \notin todo'[c] \/ Exists(p)
    BY <1>8, PickedIsDone, <2>1
  <2>3. ASSUME NEW d \in Collections, NEW j \in Listings, lock'[JobRow(j)] = d PROVE Owned(d, j)'
    <3>1. CASE d = c /\ j = pick[c]
      <4>1. Exists(p) => Exists(p)'
        BY <1>s, <2>1 DEF Steady
      <4>2. lock'[s] = c /\ of'[item[c]] = j
        BY <2>1, <3>1
      <4> QED
        BY <2>1, <2>2, <3>1, <4>1, <4>2 DEF Owned
    <3>2. CASE ~(d = c /\ j = pick[c])
      <4>1. lock[JobRow(j)] = d
        BY <2>1, <2>3, <3>2
      <4>2. pc[d] # "idle"
        BY <2>0, <4>1
      <4>3. todo'[d] \subseteq todo[d]
        <5>1. todo \in [Collections -> SUBSET Listings]
          OBVIOUS
        <5> HIDE DEF TypeOK, IdleInv, Txs
        <5>2. todo'[d] = todo[d] \/ todo'[d] = todo[d] \ {item[c]}
          BY <2>1, <5>1
        <5> QED
          BY <5>2
      <4>4. pc'[d] # "idle" /\ (d # c => pc'[d] = pc[d])
        BY <2>1, <4>2
      <4> QED
        BY <1>k, <2>1, <3>2, <4>1, <4>3, <4>4
    <3> QED
      BY <3>1, <3>2
  <2> QED
    BY <2>3 DEF JobInv, Owned
<1>9. ASSUME NEW c \in Collections, FailItem(c) PROVE JobInv'
  BY <1>9, <1>p DEF FailItem, Forget, NextItem, Goto, LockedBy, Exists
<1>10. ASSUME NEW c \in Collections, Commit(c) PROVE JobInv'
  BY <1>10, <1>p DEF Commit, CommitRows, Forget, End, Goto, LockedBy, Exists
<1>11. ASSUME NEW c \in Collections, Abort(c) PROVE JobInv'
  BY <1>11, <1>p DEF Abort, Rollback, Forget, End, Goto, LockedBy, Exists
<1>12. ASSUME NEW s, Deactivate(s) PROVE JobInv'
  BY <1>12, <1>p, CronWrites DEF task
<1>13. ASSUME Scan PROVE JobInv'
  BY <1>13, <1>p DEF Scan, rows, task
<1>14. ASSUME Apply PROVE JobInv'
  BY <1>14, <1>p, CronWrites DEF task
<1>15. ASSUME CronCommit PROVE JobInv'
  BY <1>15, <1>p DEF CronCommit, CommitRows, Forget, task, LockedBy, Exists
<1>16. ASSUME CronAbort PROVE JobInv'
  BY <1>16, <1>p DEF CronAbort, Rollback, Forget, task, LockedBy, Exists
<1>17. ASSUME TimePasses PROVE JobInv'
  BY <1>17, <1>p DEF TimePasses, rows, task
<1>18. CASE UNCHANGED vars
  BY <1>18, <1>p DEF vars, rows, task
<1> QED
  BY <1>1, <1>2, <1>3, <1>4, <1>5, <1>6, <1>7, <1>8, <1>9, <1>10, <1>11, <1>12, <1>13, <1>14, <1>15, <1>16, <1>17, <1>18
  DEF Next, Collect, Freshness

\* An observation is written together with its job, or of a job that is there.
LEMMA NextSrcInv ==
  TypeOK /\ RowInv /\ IdleInv /\ ItemInv /\ LoadedInv /\ PickInv /\ FoundInv
    /\ JobInv /\ SrcInv /\ NoOrphanJob /\ [Next]_vars => SrcInv'
<1> SUFFICES ASSUME TypeOK, RowInv, IdleInv, ItemInv, LoadedInv, PickInv, FoundInv,
                    JobInv, SrcInv, NoOrphanJob, [Next]_vars
             PROVE  SrcInv'
  OBVIOUS
<1>s. Steady
  BY NextSteady
<1> DEFINE Linked(d, l) == \/ Exists(JobRow(of[l]))
                           \/ lock[JobRow(of[l])] = d /\ of[l] \notin todo[d]
<1>k. ASSUME NEW d \in Collections, NEW l \in Listings, lock[SrcRow(l)] = d,
             todo'[d] \subseteq todo[d], pc'[d] # "idle"
      PROVE  Linked(d, l)'
  <2>1. of[l] \in Listings /\ JobRow(of[l]) \in Rows /\ of'[l] = of[l]
    BY <1>k, <1>s, RowFacts, TxAssumption DEF Steady, Txs, TypeOK
  <2>2. CASE Exists(JobRow(of[l]))
    BY <1>s, <2>1, <2>2 DEF Steady
  <2>3. CASE lock[JobRow(of[l])] = d /\ of[l] \notin todo[d]
    <3>1. pc[d] \in Ingesting => item[d] \in Listings /\ JobRow(of[l]) # JobRow(item[d])
      BY <2>1, <2>3, RowFacts DEF ItemInv, TypeOK
    <3>2. lock'[JobRow(of[l])] = d
      BY <1>k, <1>s, <2>1, <2>3, <3>1 DEF Steady
    <3> QED
      BY <1>k, <2>1, <2>3, <3>2
  <2> QED
    BY <1>k, <2>2, <2>3 DEF SrcInv
<1>p. ASSUME \A d \in Collections, l \in Listings :
               lock'[SrcRow(l)] = d =>
                 lock[SrcRow(l)] = d /\ todo'[d] \subseteq todo[d] /\ pc'[d] # "idle"
      PROVE  SrcInv'
  BY <1>k, <1>p DEF SrcInv
<1> HIDE DEF Linked
<1> USE RowFacts, TxAssumption DEF TypeOK, IdleInv, Txs
<1>1. ASSUME NEW c \in Collections, Discover(c) PROVE SrcInv'
  BY <1>1, <1>p DEF Discover, Goto, rows
<1>2. ASSUME NEW c \in Collections, TouchJobs(c) PROVE SrcInv'
  <2>1. /\ UNCHANGED task /\ pc' = [pc EXCEPT ![c] = "touch_sources"] /\ pc[c] = "touch_jobs"
        /\ Write(c, [x \in {JobRow(of[l]) : l \in Known(c)} |-> "active"])
    BY <1>2 DEF TouchJobs, Goto
  <2>2. \A l \in Listings : lock'[SrcRow(l)] = lock[SrcRow(l)]
    <3>1. \A l \in Listings : SrcRow(l) \notin {JobRow(of[k]) : k \in Known(c)}
      BY DEF Known
    <3> QED
      BY <2>1, <3>1 DEF Write
  <2> QED
    BY <1>p, <2>1, <2>2 DEF task
<1>3. ASSUME NEW c \in Collections, TouchSources(c) PROVE SrcInv'
  <2>1. /\ UNCHANGED task /\ pc' = [pc EXCEPT ![c] = "fetch"] /\ pc[c] = "touch_sources" /\ of' = of
        /\ Write(c, [x \in {SrcRow(l) : l \in Known(c)} |-> "active"])
    BY <1>3 DEF TouchSources, Goto
  <2>2. ASSUME NEW d \in Collections, NEW l \in Listings, lock'[SrcRow(l)] = d PROVE Linked(d, l)'
    <3>1. CASE lock[SrcRow(l)] = d
      BY <1>k, <2>1, <3>1 DEF task
    <3>2. CASE lock[SrcRow(l)] # d
      <4>1. d = c /\ SrcRow(l) \in {SrcRow(k) : k \in Known(c)}
        BY <2>1, <2>2, <3>2 DEF Write
      <4>2. Exists(SrcRow(l))
        BY <3>2, <4>1 DEF Known, Read, Exists
      <4>3. Exists(JobRow(of[l])) /\ of[l] \in Listings
        BY <4>2 DEF NoOrphanJob
      <4>4. Exists(JobRow(of[l]))'
        BY <1>s, <2>1, <4>3 DEF Steady
      <4> QED
        BY <2>1, <4>4 DEF Linked
    <3> QED
      BY <3>1, <3>2
  <2> QED
    BY <2>2 DEF SrcInv, Linked
<1>4. ASSUME NEW c \in Collections, Fetch(c) PROVE SrcInv'
  BY <1>4, <1>p DEF Fetch, Goto, rows
<1>5. ASSUME NEW c \in Collections, NEW l \in Listings, Upsert(c, l) PROVE SrcInv'
  <2>1. lock' = lock /\ pc[c] = "items"
    BY <1>5 DEF Upsert, rows
  <2>2. pc' = [pc EXCEPT ![c] = "ingest"] \/ pc' = [pc EXCEPT ![c] = "items"]
    BY <1>5 DEF Upsert, NextItem, Goto
  <2>3. \A d \in Collections : todo'[d] \subseteq todo[d]
    <3>1. todo \in [Collections -> SUBSET Listings] /\ (todo' = todo \/ todo' = [todo EXCEPT ![c] = todo[c] \ {l}])
      BY <1>5 DEF Upsert, NextItem
    <3> HIDE DEF TypeOK, IdleInv, Txs
    <3>2. \A d \in Collections : todo'[d] = todo[d] \/ todo'[d] = todo[d] \ {l}
      BY <3>1
    <3> QED
      BY <3>2
  <2> QED
    BY <1>p, <2>1, <2>2, <2>3
<1>6. ASSUME NEW c \in Collections, Load(c) PROVE SrcInv'
  BY <1>6, <1>p DEF Load, Goto, rows
<1>7. ASSUME NEW c \in Collections, Resolve(c) PROVE SrcInv'
  <2>1. todo' = todo /\ pc' = [pc EXCEPT ![c] = "save"] /\ pc[c] = "resolve" /\ item[c] \in Listings
    BY <1>7 DEF Resolve, Goto, ItemInv, Ingesting
  <2>2. lock' = lock \/ Write(c, [x \in {JobRow(item[c])} |-> "active"])
    BY <1>7 DEF Resolve, rows
  <2>3. \A l \in Listings : lock'[SrcRow(l)] = lock[SrcRow(l)]
    BY <2>1, <2>2 DEF Write
  <2> QED
    BY <1>p, <2>1, <2>3
<1>8. ASSUME NEW c \in Collections, Save(c) PROVE SrcInv'
  <2> DEFINE s == SrcRow(item[c])
             p == JobRow(pick[c])
  <2>0. pc[c] = "save"
    BY <1>8 DEF Save
  <2>1. /\ item[c] \in Listings /\ pick[c] \in Listings /\ item[c] \in todo[c]
        /\ \A x \in Rows : lock'[x] = IF x \in {s, p} THEN c ELSE lock[x]
        /\ of' = [of EXCEPT ![item[c]] = pick[c]]
        /\ pc' = [pc EXCEPT ![c] = "items"] /\ todo' = [todo EXCEPT ![c] = todo[c] \ {item[c]}]
        /\ UNCHANGED pick
    <3> HIDE DEF TypeOK, IdleInv, Txs
    <3> QED
      BY <1>8, SaveStep
  <2>2. pick[c] \notin todo'[c] \/ Exists(p)
    BY <1>8, PickedIsDone
  <2>3. ASSUME NEW d \in Collections, NEW l \in Listings, lock'[SrcRow(l)] = d PROVE Linked(d, l)'
    <3>1. CASE l = item[c]
      <4>1. d = c /\ of'[l] = pick[c] /\ lock'[p] = c
        BY <2>1, <2>3, <3>1
      <4>2. Exists(p) => Exists(p)'
        BY <1>s, <2>1 DEF Steady
      <4> QED
        BY <2>1, <2>2, <4>1, <4>2 DEF Linked, Exists
    <3>2. CASE l # item[c]
      <4>1. lock[SrcRow(l)] = d
        BY <2>1, <2>3, <3>2
      <4>2. pc'[d] # "idle"
        BY <2>0, <2>1, <4>1
      <4>3. todo'[d] \subseteq todo[d]
        <5>1. todo \in [Collections -> SUBSET Listings]
          OBVIOUS
        <5> HIDE DEF TypeOK, IdleInv, Txs
        <5>2. todo'[d] = todo[d] \/ todo'[d] = todo[d] \ {item[c]}
          BY <2>1, <5>1
        <5> QED
          BY <5>2
      <4> QED
        BY <1>k, <4>1, <4>2, <4>3
    <3> QED
      BY <3>1, <3>2
  <2> QED
    BY <2>3 DEF SrcInv, Linked
<1>9. ASSUME NEW c \in Collections, FailItem(c) PROVE SrcInv'
  BY <1>9, <1>p DEF FailItem, Forget, NextItem, Goto, LockedBy, Exists
<1>10. ASSUME NEW c \in Collections, Commit(c) PROVE SrcInv'
  BY <1>10, <1>p DEF Commit, CommitRows, Forget, End, Goto, LockedBy, Exists
<1>11. ASSUME NEW c \in Collections, Abort(c) PROVE SrcInv'
  BY <1>11, <1>p DEF Abort, Rollback, Forget, End, Goto, LockedBy, Exists
<1>12. ASSUME NEW s, Deactivate(s) PROVE SrcInv'
  BY <1>12, <1>p, CronWrites DEF task
<1>13. ASSUME Scan PROVE SrcInv'
  BY <1>13, <1>p DEF Scan, rows, task
<1>14. ASSUME Apply PROVE SrcInv'
  BY <1>14, <1>p, CronWrites DEF task
<1>15. ASSUME CronCommit PROVE SrcInv'
  BY <1>15, <1>p DEF CronCommit, CommitRows, Forget, task, LockedBy, Exists
<1>16. ASSUME CronAbort PROVE SrcInv'
  BY <1>16, <1>p DEF CronAbort, Rollback, Forget, task, LockedBy, Exists
<1>17. ASSUME TimePasses PROVE SrcInv'
  BY <1>17, <1>p DEF TimePasses, rows, task
<1>18. CASE UNCHANGED vars
  BY <1>18, <1>p DEF vars, rows, task
<1> QED
  BY <1>1, <1>2, <1>3, <1>4, <1>5, <1>6, <1>7, <1>8, <1>9, <1>10, <1>11, <1>12, <1>13, <1>14, <1>15, <1>16, <1>17, <1>18
  DEF Next, Collect, Freshness

\* A commit publishes every new job with an observation and every new observation with a job.
LEMMA NextNoOrphanJob ==
  TypeOK /\ RowInv /\ IdleInv /\ ItemInv /\ LoadedInv /\ PickInv /\ FoundInv
    /\ JobInv /\ SrcInv /\ NoOrphanJob /\ [Next]_vars => NoOrphanJob'
<1> SUFFICES ASSUME TypeOK, RowInv, IdleInv, ItemInv, LoadedInv, PickInv, FoundInv,
                    JobInv, SrcInv, NoOrphanJob, [Next]_vars
             PROVE  NoOrphanJob'
  OBVIOUS
<1>s. Steady
  BY NextSteady
<1>k. \A l \in Listings : Exists(SrcRow(l)) =>
        /\ Exists(SrcRow(l))' /\ of[l] \in Listings /\ of'[l] = of[l]
        /\ Exists(JobRow(of[l])) /\ Exists(JobRow(of[l]))'
  BY <1>s, RowFacts DEF Steady, NoOrphanJob, TypeOK
<1>j. \A j \in Listings : Exists(JobRow(j)) =>
        \E l \in Listings : Exists(SrcRow(l))' /\ of'[l] = j
  BY <1>k DEF NoOrphanJob
<1>p. ASSUME \A x \in Rows : Exists(x)' => Exists(x) PROVE NoOrphanJob'
  <2>1. \A j \in Listings : Exists(JobRow(j))' => \E l \in Listings : Exists(SrcRow(l))' /\ of'[l] = j
    BY <1>j, <1>p, RowFacts
  <2>2. ASSUME NEW l \in Listings, Exists(SrcRow(l))' PROVE Exists(JobRow(of[l]))'
    BY <1>k, <1>p, <2>2, RowFacts DEF Exists
  <2> QED
    BY <2>1, <2>2 DEF NoOrphanJob
<1>v. ASSUME val' = val PROVE NoOrphanJob'
  BY <1>p, <1>v DEF Exists
<1>1. ASSUME NEW c \in Collections, Discover(c) PROVE NoOrphanJob'
  BY <1>1, <1>v DEF Discover, rows
<1>2. ASSUME NEW c \in Collections, TouchJobs(c) PROVE NoOrphanJob'
  BY <1>2, <1>v DEF TouchJobs, Write
<1>3. ASSUME NEW c \in Collections, TouchSources(c) PROVE NoOrphanJob'
  BY <1>3, <1>v DEF TouchSources, Write
<1>4. ASSUME NEW c \in Collections, Fetch(c) PROVE NoOrphanJob'
  BY <1>4, <1>v DEF Fetch, rows
<1>5. ASSUME NEW c \in Collections, NEW l \in Listings, Upsert(c, l) PROVE NoOrphanJob'
  BY <1>5, <1>v DEF Upsert, rows
<1>6. ASSUME NEW c \in Collections, Load(c) PROVE NoOrphanJob'
  BY <1>6, <1>v DEF Load, rows
<1>7. ASSUME NEW c \in Collections, Resolve(c) PROVE NoOrphanJob'
  BY <1>7, <1>v DEF Resolve, Write, rows
<1>8. ASSUME NEW c \in Collections, Save(c) PROVE NoOrphanJob'
  BY <1>8, <1>v DEF Save, Write
<1>9. ASSUME NEW c \in Collections, FailItem(c) PROVE NoOrphanJob'
  BY <1>9, <1>v DEF FailItem
<1>10. ASSUME NEW c \in Collections, Commit(c) PROVE NoOrphanJob'
  <2>1. val' = [x \in Rows |-> Read(c, x)] /\ of' = of /\ pc[c] = "items"
    BY <1>10 DEF Commit, CommitRows, End
  <2>2. \A x \in Rows : Exists(x)' <=> Exists(x) \/ lock[x] = c
    BY <2>1, TxAssumption DEF Exists, Read, RowInv, Txs
  <2>3. ASSUME NEW j \in Listings, Exists(JobRow(j))'
        PROVE  \E l \in Listings : Exists(SrcRow(l))' /\ of'[l] = j
    <3>1. CASE Exists(JobRow(j))
      BY <1>j, <3>1
    <3>2. CASE ~Exists(JobRow(j))
      <4>1. PICK l \in Listings : lock[SrcRow(l)] = c /\ of[l] = j
        BY <2>1, <2>2, <2>3, <3>2, RowFacts DEF JobInv
      <4> QED
        BY <2>1, <2>2, <4>1, RowFacts
    <3> QED
      BY <3>1, <3>2
  <2>4. ASSUME NEW l \in Listings, Exists(SrcRow(l))' PROVE Exists(JobRow(of[l]))'
    <3>1. CASE Exists(SrcRow(l))
      BY <1>k, <2>1, <3>1 DEF Exists
    <3>2. CASE ~Exists(SrcRow(l))
      <4>1. of[l] \in Listings /\ (Exists(JobRow(of[l])) \/ lock[JobRow(of[l])] = c)
        BY <2>2, <2>4, <3>2, RowFacts DEF SrcInv, TypeOK
      <4> QED
        BY <2>1, <2>2, <4>1, RowFacts DEF Exists
    <3> QED
      BY <3>1, <3>2
  <2> QED
    BY <2>3, <2>4 DEF NoOrphanJob
<1>11. ASSUME NEW c \in Collections, Abort(c) PROVE NoOrphanJob'
  BY <1>11, <1>v DEF Abort, Rollback
<1>12. ASSUME NEW s, Deactivate(s) PROVE NoOrphanJob'
  BY <1>12, <1>v DEF Deactivate, Write
<1>13. ASSUME Scan PROVE NoOrphanJob'
  BY <1>13, <1>v DEF Scan, rows
<1>14. ASSUME Apply PROVE NoOrphanJob'
  BY <1>14, <1>v DEF Apply, Write
<1>15. ASSUME CronCommit PROVE NoOrphanJob'
  <2>1. val' = [x \in Rows |-> Read(Cron, x)]
    BY <1>15 DEF CronCommit, CommitRows
  <2> QED
    BY <1>p, <2>1 DEF Exists, Read, RowInv
<1>16. ASSUME CronAbort PROVE NoOrphanJob'
  BY <1>16, <1>v DEF CronAbort, Rollback
<1>17. ASSUME TimePasses PROVE NoOrphanJob'
  BY <1>17, <1>v DEF TimePasses, rows
<1>18. CASE UNCHANGED vars
  BY <1>18, <1>v DEF vars, rows
<1> QED
  BY <1>1, <1>2, <1>3, <1>4, <1>5, <1>6, <1>7, <1>8, <1>9, <1>10, <1>11, <1>12, <1>13, <1>14, <1>15, <1>16, <1>17, <1>18
  DEF Next, Collect, Freshness


-----------------------------------------------------------------------------
(* The theorems.                                                           *)

\* The invariant holds of the empty database.
LEMMA InitGraphInv == Init => GraphInv
<1> SUFFICES ASSUME Init PROVE GraphInv
  OBVIOUS
<1>1. TypeOK
  BY StaleAssumption DEF Init, TypeOK, Values
<1>2. RowInv /\ IdleInv
  BY TxAssumption DEF Init, RowInv, IdleInv, Exists, Txs
<1>3. ItemInv /\ LoadedInv /\ PickInv
  BY DEF Init, ItemInv, LoadedInv, PickInv, Ingesting
<1>4. JobInv /\ SrcInv /\ FoundInv /\ FreshInv
  BY RowFacts, TxAssumption DEF Init, JobInv, SrcInv, FoundInv, FreshInv, Txs
<1>5. NoOrphanJob
  BY RowFacts DEF Init, NoOrphanJob, Exists
<1> QED
  BY <1>1, <1>2, <1>3, <1>4, <1>5 DEF GraphInv

\* Every step preserves it.
LEMMA NextGraphInv == GraphInv /\ [Next]_vars => GraphInv'
<1> SUFFICES ASSUME GraphInv, [Next]_vars PROVE GraphInv'
  OBVIOUS
<1> USE DEF GraphInv
<1>1. TypeOK' /\ RowInv' /\ IdleInv' /\ ItemInv' /\ FoundInv' /\ FreshInv'
  BY NextTypes, NextRowInv, NextIdleInv, NextItemInv, NextFoundInv, NextFreshInv
<1>2. LoadedInv' /\ PickInv'
  BY NextLoadedInv, NextPickInv
<1>3. JobInv' /\ SrcInv' /\ NoOrphanJob'
  BY NextJobInv, NextSrcInv, NextNoOrphanJob
<1> QED
  BY <1>1, <1>2, <1>3

\* The graph is whole but for the listings in hand, at every moment.
THEOREM GraphSafety == Spec => []GraphInv
<1>1. Init => GraphInv
  BY InitGraphInv
<1>2. GraphInv /\ [Next]_vars => GraphInv'
  BY NextGraphInv
<1> QED
  BY <1>1, <1>2, PTL DEF Spec

\* The transactions of ingestion and freshness keep their types, and a listing is never
\* saved without a job.
THEOREM IngestionTypes == Spec => []TypeOK
<1>1. GraphInv => TypeOK
  BY DEF GraphInv
<1> QED
  BY <1>1, GraphSafety, PTL

\* A committed job has a committed observation and every observation its job, whatever
\* listing, savepoint or transaction fails, and whoever else collects or deactivates.
THEOREM GraphStaysWhole == Spec => []NoOrphanJob
<1>1. GraphInv => NoOrphanJob
  BY DEF GraphInv
<1> QED
  BY <1>1, GraphSafety, PTL

FreshStep ==
  \A l \in Listings :
    val[SrcRow(l)] = "active" /\ age[l] < StaleAge => val'[SrcRow(l)] = "active"

\* No step takes down an observation that was confirmed recently: a collection leaves it
\* active, and the cron holds the rows of stale ones only.
LEMMA NextIsFresh == GraphInv /\ [Next]_vars => FreshStep
<1> SUFFICES ASSUME GraphInv, [Next]_vars PROVE FreshStep
  OBVIOUS
<1>v. ASSUME val' = val PROVE FreshStep
  BY <1>v DEF FreshStep
<1>r. ASSUME NEW t \in Txs, val' = [x \in Rows |-> Read(t, x)] PROVE FreshStep
  <2> SUFFICES ASSUME NEW l \in Listings, val[SrcRow(l)] = "active", age[l] < StaleAge
               PROVE  val'[SrcRow(l)] = "active"
    BY DEF FreshStep
  <2>1. val'[SrcRow(l)] = IF lock[SrcRow(l)] = t THEN new[SrcRow(l)] ELSE val[SrcRow(l)]
    BY <1>r, RowFacts DEF Read
  <2>2. age[l] # StaleAge
    BY StaleAssumption DEF GraphInv, TypeOK
  <2>3. t \in Collections \/ t = Cron
    BY DEF Txs
  <2> QED
    BY <2>1, <2>2, <2>3 DEF GraphInv, FreshInv
<1>1. ASSUME NEW c \in Collections, Discover(c) PROVE FreshStep
  BY <1>1, <1>v DEF Discover, rows
<1>2. ASSUME NEW c \in Collections, TouchJobs(c) PROVE FreshStep
  BY <1>2, <1>v DEF TouchJobs, Write
<1>3. ASSUME NEW c \in Collections, TouchSources(c) PROVE FreshStep
  BY <1>3, <1>v DEF TouchSources, Write
<1>4. ASSUME NEW c \in Collections, Fetch(c) PROVE FreshStep
  BY <1>4, <1>v DEF Fetch, rows
<1>5. ASSUME NEW c \in Collections, NEW l \in Listings, Upsert(c, l) PROVE FreshStep
  BY <1>5, <1>v DEF Upsert, rows
<1>6. ASSUME NEW c \in Collections, Load(c) PROVE FreshStep
  BY <1>6, <1>v DEF Load, rows
<1>7. ASSUME NEW c \in Collections, Resolve(c) PROVE FreshStep
  BY <1>7, <1>v DEF Resolve, Write, rows
<1>8. ASSUME NEW c \in Collections, Save(c) PROVE FreshStep
  BY <1>8, <1>v DEF Save, Write
<1>9. ASSUME NEW c \in Collections, FailItem(c) PROVE FreshStep
  BY <1>9, <1>v DEF FailItem
<1>10. ASSUME NEW c \in Collections, Commit(c) PROVE FreshStep
  BY <1>10, <1>r DEF Commit, CommitRows, Txs
<1>11. ASSUME NEW c \in Collections, Abort(c) PROVE FreshStep
  BY <1>11, <1>v DEF Abort, Rollback
<1>12. ASSUME NEW s, Deactivate(s) PROVE FreshStep
  BY <1>12, <1>v DEF Deactivate, Write
<1>13. ASSUME Scan PROVE FreshStep
  BY <1>13, <1>v DEF Scan, rows
<1>14. ASSUME Apply PROVE FreshStep
  BY <1>14, <1>v DEF Apply, Write
<1>15. ASSUME CronCommit PROVE FreshStep
  BY <1>15, <1>r DEF CronCommit, CommitRows, Txs
<1>16. ASSUME CronAbort PROVE FreshStep
  BY <1>16, <1>v DEF CronAbort, Rollback
<1>17. ASSUME TimePasses PROVE FreshStep
  BY <1>17, <1>v DEF TimePasses, rows
<1>18. CASE UNCHANGED vars
  BY <1>18, <1>v DEF vars, rows
<1> QED
  BY <1>1, <1>2, <1>3, <1>4, <1>5, <1>6, <1>7, <1>8, <1>9, <1>10, <1>11, <1>12, <1>13, <1>14, <1>15, <1>16, <1>17, <1>18
  DEF Next, Collect, Freshness

\* A listing confirmed recently is never taken down.
THEOREM FreshListingsStay == Spec => FreshStaysActive
<1>1. GraphInv /\ [Next]_vars => [FreshStep]_vars
  BY NextIsFresh
<1>2. [][Next]_vars /\ []GraphInv => [][FreshStep]_vars
  BY <1>1, PTL
<1> QED
  BY <1>2, GraphSafety, PTL DEF Spec, FreshStaysActive, FreshStep
=============================================================================
