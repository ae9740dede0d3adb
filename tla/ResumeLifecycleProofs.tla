------------------------ MODULE ResumeLifecycleProofs ------------------------
(***************************************************************************)
(* Proofs about ResumeLifecycle for any set of requests, resumes, owners   *)
(* and reconcilers and any batch limit.                                    *)
(*                                                                         *)
(* RaceInv holds however slow requests are and whatever a failed upload    *)
(* did.  JournalInv, on top of it, needs requests that end within the 15   *)
(* minutes of their intent and uploads that store nothing when they fail.  *)
(***************************************************************************)
EXTENDS ResumeLifecycle, TLAPS

USE DEF Ids, Statuses, Steps, Replies, Active, db, args, sweep

\* Types, on their own.
LEMMA InitTypeOK == Init => TypeOK
BY RequestsAssumption DEF Init, TypeOK

\* Every step of a request or of a reconciler keeps the types.
LEMMA NextTypeOK == TypeOK /\ [Next]_vars => TypeOK'
<1> SUFFICES ASSUME TypeOK, [Next]_vars PROVE TypeOK'
  OBVIOUS
<1> USE RequestsAssumption DEF TypeOK
<1>1. ASSUME NEW r \in Requests, BeginUpload(r) PROVE TypeOK'
  BY <1>1 DEF BeginUpload, Goto
<1>2. ASSUME NEW r \in Requests, NEW t \in Ids \ {r}, BeginReplace(r, t) PROVE TypeOK'
  BY <1>2 DEF BeginReplace, get_owned, Goto, Answer
<1>3. ASSUME NEW r \in Requests, NEW t \in Ids \ {r}, BeginDelete(r, t) PROVE TypeOK'
  BY <1>3 DEF BeginDelete, get_owned, Goto, Answer
<1>4. ASSUME NEW r \in Requests, Reserve(r) PROVE TypeOK'
  BY <1>4 DEF Reserve, Goto, Answer
<1>5. ASSUME NEW r \in Requests, Put(r) PROVE TypeOK'
  BY <1>5 DEF Put, Upload, UploadFails, Goto, AnswerAfter
<1>6. ASSUME NEW r \in Requests, Parse(r) PROVE TypeOK'
  BY <1>6 DEF Parse, Goto, AnswerAfter
<1>7. ASSUME NEW r \in Requests, PersistUpload(r) PROVE TypeOK'
  <2>1. status' \in [Ids -> Statuses] /\ version' \in [Ids -> Nat]
    BY <1>7 DEF PersistUpload, RemoveIntent, Answer, AnswerAfter
  <2>2. intent' \in [Ids -> Ids \cup {None}] /\ due' \subseteq Ids
    BY <1>7 DEF PersistUpload, RemoveIntent, Answer, AnswerAfter
  <2>3. pc' \in [Requests -> Steps] /\ reply' \in [Requests -> Replies]
    BY <1>7 DEF PersistUpload, RemoveIntent, Answer, AnswerAfter
  <2> QED
    BY <1>7, <2>1, <2>2, <2>3 DEF PersistUpload
<1>8. ASSUME NEW r \in Requests, PersistReplace(r) PROVE TypeOK'
  BY <1>8 DEF PersistReplace, Fresh, Goto, AnswerAfter
<1>9. ASSUME NEW r \in Requests, Retire(r) PROVE TypeOK'
  <2>1. status' \in [Ids -> Statuses] /\ version' \in [Ids -> Nat]
    BY <1>9 DEF Retire, Fresh, Goto, Answer
  <2>2. intent' \in [Ids -> Ids \cup {None}] /\ due' \subseteq Ids
    BY <1>9 DEF Retire, Fresh, Goto, Answer
  <2>3. pc' \in [Requests -> Steps] /\ reply' \in [Requests -> Replies]
    BY <1>9 DEF Retire, Fresh, Goto, Answer
  <2> QED
    BY <1>9, <2>1, <2>2, <2>3 DEF Retire
<1>10. ASSUME NEW r \in Requests, Lookup(r) PROVE TypeOK'
  BY <1>10 DEF Lookup, Goto
<1>11. ASSUME NEW r \in Requests, Relist(r) PROVE TypeOK'
  BY <1>11 DEF Relist, Goto, Answer
<1>12. ASSUME NEW r \in Requests, Compensate(r) PROVE TypeOK'
  BY <1>12 DEF Compensate, Delete, DeleteFails, Goto, Answer
<1>13. ASSUME NEW r \in Requests, Clear(r) PROVE TypeOK'
  BY <1>13 DEF Clear, RemoveIntent, Goto
<1>14. ASSUME NEW r \in Requests, Drop(r) PROVE TypeOK'
  BY <1>14 DEF Drop, Delete, DeleteFails, Goto, Answer
<1>15. ASSUME NEW r \in Requests, ClearTarget(r) PROVE TypeOK'
  BY <1>15 DEF ClearTarget, RemoveIntent, Answer
<1>16. ASSUME NEW r \in Requests, Cancel(r) PROVE TypeOK'
  BY <1>16 DEF Cancel, Upload, InFlight, Answer
<1>17. ASSUME NEW r \in Requests, BecomeDue(r) PROVE TypeOK'
  BY <1>17 DEF BecomeDue, InFlight
<1>18. ASSUME NEW w \in Reconcilers, BeginSweep(w) PROVE TypeOK'
  BY <1>18 DEF BeginSweep, Held
<1>19. ASSUME NEW w \in Reconcilers, CommitSweep(w) PROVE TypeOK'
  BY <1>19 DEF CommitSweep
<1>20. ASSUME NEW w \in Reconcilers, FailCommit(w) PROVE TypeOK'
  BY <1>20 DEF FailCommit
<1>21. ASSUME NEW w \in Reconcilers, NEW k \in Ids, Purge(w, k) PROVE TypeOK'
  BY <1>21 DEF Purge, Delete
<1>22. ASSUME NEW w \in Reconcilers, LoseTransaction(w) PROVE TypeOK'
  BY <1>22 DEF LoseTransaction
<1>23. ASSUME NEW w \in Reconcilers, AbortSweep(w) PROVE TypeOK'
  BY <1>23 DEF AbortSweep
<1>24. ASSUME NEW w \in Reconcilers, NEW k \in Ids, PurgeFails(w, k) PROVE TypeOK'
  BY <1>24 DEF PurgeFails, DeleteFails
<1>25. CASE UNCHANGED vars
  BY <1>25 DEF vars
<1> QED
  BY <1>1, <1>2, <1>3, <1>4, <1>5, <1>6, <1>7, <1>8, <1>9, <1>10, <1>11, <1>12, <1>13, <1>14, <1>15, <1>16, <1>17, <1>18, <1>19, <1>20, <1>21, <1>22, <1>23, <1>24, <1>25
  DEF Next, Begin, Continue, Sweep, Outage

\* The state of the resume subsystem always has its types.
THEOREM TypeCorrect == Spec => []TypeOK
BY InitTypeOK, NextTypeOK, PTL DEF Spec

-----------------------------------------------------------------------------
(* What holds however the requests race.                                   *)

\* The version counts the committed changes of a row.
VersionInv ==
  \A k \in Ids :
    version[k] = CASE status[k] = "absent" -> 0
                   [] status[k] = "deleted" -> 2
                   [] OTHER -> 1

\* A request has no row before its own commit, a delete request never has, and
\* it has no answer before it fails or ends.
OwnInv ==
  \A r \in Requests :
    /\ pc[r] \in {"idle", "reserve", "put", "parse", "persist", "persist_failed",
                  "compensate", "clear"} => status[r] = "absent"
    /\ op[r] = "delete" => status[r] = "absent"
    /\ pc[r] \in {"retire", "lookup", "relist"} => op[r] = "delete"
    /\ pc[r] \notin {"compensate", "clear", "done"} => reply[r] = "none"

\* The version a request has read is that of an active resume; a request that
\* is to remove its target's object has seen it deleted.
TargetInv ==
  \A r \in Requests :
    /\ \/ pc[r] = "retire"
       \/ op[r] = "replace" /\ pc[r] \in {"reserve", "put", "parse", "persist"}
       => seen[r] = 1 /\ tgt[r] # r
    /\ pc[r] \in {"lookup", "relist", "drop", "clear_tgt"} =>
         status[tgt[r]] = "deleted"
    /\ pc[r] = "clear_tgt" => tgt[r] \notin objects

RaceInv ==
  /\ VersionInv /\ OwnInv /\ TargetInv
  /\ OneSuccessor /\ AcknowledgedErasure /\ FailureIsInvisible

\* Before the first request nothing has raced.
LEMMA InitRaceInv == Init => RaceInv
BY RequestsAssumption
DEF Init, RaceInv, VersionInv, OwnInv, TargetInv, OneSuccessor, AcknowledgedErasure,
    FailureIsInvisible

\* No step of a request or of a reconciler breaks RaceInv.
LEMMA NextRaceInv == TypeOK /\ RaceInv /\ [Next]_vars => RaceInv'
<1> SUFFICES ASSUME TypeOK, TypeOK', RaceInv, [Next]_vars PROVE RaceInv'
  BY NextTypeOK
<1> USE RequestsAssumption
    DEF TypeOK, RaceInv, VersionInv, OwnInv, TargetInv, OneSuccessor,
        AcknowledgedErasure, FailureIsInvisible
<1>1. ASSUME NEW r \in Requests, BeginUpload(r) PROVE RaceInv'
  BY <1>1 DEF BeginUpload, Goto
<1>2. ASSUME NEW r \in Requests, NEW t \in Ids \ {r}, BeginReplace(r, t) PROVE RaceInv'
  BY <1>2 DEF BeginReplace, get_owned, Goto, Answer
<1>3. ASSUME NEW r \in Requests, NEW t \in Ids \ {r}, BeginDelete(r, t) PROVE RaceInv'
  BY <1>3 DEF BeginDelete, get_owned, Goto, Answer
<1>4. ASSUME NEW r \in Requests, Reserve(r) PROVE RaceInv'
  BY <1>4 DEF Reserve, Goto, Answer
<1>5. ASSUME NEW r \in Requests, Put(r) PROVE RaceInv'
  BY <1>5 DEF Put, Upload, UploadFails, Goto, AnswerAfter
<1>6. ASSUME NEW r \in Requests, Parse(r) PROVE RaceInv'
  BY <1>6 DEF Parse, Goto, AnswerAfter
<1>7. ASSUME NEW r \in Requests, PersistUpload(r) PROVE RaceInv'
  <2>1. CASE UNCHANGED db
    BY <1>7, <2>1 DEF PersistUpload, RemoveIntent, Answer, AnswerAfter
  <2>2. CASE ~UNCHANGED db
    <3>1. VersionInv'
      BY <1>7, <2>2 DEF PersistUpload, RemoveIntent, Answer, AnswerAfter
    <3>2. OwnInv'
      BY <1>7, <2>2 DEF PersistUpload, RemoveIntent, Answer, AnswerAfter
    <3>3. TargetInv'
      BY <1>7, <2>2 DEF PersistUpload, RemoveIntent, Answer, AnswerAfter
    <3>4. OneSuccessor'
      BY <1>7, <2>2 DEF PersistUpload, RemoveIntent, Answer, AnswerAfter
    <3>5. AcknowledgedErasure'
      BY <1>7, <2>2 DEF PersistUpload, RemoveIntent, Answer, AnswerAfter
    <3>6. FailureIsInvisible'
      BY <1>7, <2>2 DEF PersistUpload, RemoveIntent, Answer, AnswerAfter
    <3> QED
      BY <3>1, <3>2, <3>3, <3>4, <3>5, <3>6
  <2> QED
    BY <2>1, <2>2
<1>8. ASSUME NEW r \in Requests, PersistReplace(r) PROVE RaceInv'
  <2>1. CASE UNCHANGED db
    BY <1>8, <2>1 DEF PersistReplace, Fresh, Goto, AnswerAfter
  <2>2. CASE ~UNCHANGED db
    <3>0. /\ tgt[r] \in Ids \ {r} /\ version[tgt[r]] = 1
          /\ status' = [status EXCEPT ![r] = "parsed", ![tgt[r]] = "deleted"]
          /\ version' = [version EXCEPT ![r] = 1, ![tgt[r]] = @ + 1]
      BY <1>8, <2>2 DEF PersistReplace, Fresh
    <3>a. version'[r] = 1 /\ status'[r] = "parsed"
      BY <3>0
    <3>b. version'[tgt[r]] = 2 /\ status'[tgt[r]] = "deleted"
      BY <3>0
    <3>c. \A k \in Ids \ {r, tgt[r]} : version'[k] = version[k] /\ status'[k] = status[k]
      BY <3>0
    <3>1. VersionInv'
      BY <3>a, <3>b, <3>c
    <3>2. OwnInv'
      BY <1>8, <2>2 DEF PersistReplace, Fresh, Goto, AnswerAfter
    <3>3. TargetInv'
      BY <1>8, <2>2 DEF PersistReplace, Fresh, Goto, AnswerAfter
    <3>4. OneSuccessor'
      BY <1>8, <2>2 DEF PersistReplace, Fresh, Goto, AnswerAfter
    <3>5. AcknowledgedErasure'
      BY <1>8, <2>2 DEF PersistReplace, Fresh, Goto, AnswerAfter
    <3>6. FailureIsInvisible'
      BY <1>8, <2>2 DEF PersistReplace, Fresh, Goto, AnswerAfter
    <3> QED
      BY <3>1, <3>2, <3>3, <3>4, <3>5, <3>6
  <2> QED
    BY <2>1, <2>2
<1>9. ASSUME NEW r \in Requests, Retire(r) PROVE RaceInv'
  BY <1>9 DEF Retire, Fresh, Goto, Answer
<1>10. ASSUME NEW r \in Requests, Lookup(r) PROVE RaceInv'
  BY <1>10 DEF Lookup, Goto
<1>11. ASSUME NEW r \in Requests, Relist(r) PROVE RaceInv'
  BY <1>11 DEF Relist, Goto, Answer
<1>12. ASSUME NEW r \in Requests, Compensate(r) PROVE RaceInv'
  BY <1>12 DEF Compensate, Delete, DeleteFails, Goto, Answer
<1>13. ASSUME NEW r \in Requests, Clear(r) PROVE RaceInv'
  BY <1>13 DEF Clear, RemoveIntent, Goto
<1>14. ASSUME NEW r \in Requests, Drop(r) PROVE RaceInv'
  BY <1>14 DEF Drop, Delete, DeleteFails, Goto, Answer
<1>15. ASSUME NEW r \in Requests, ClearTarget(r) PROVE RaceInv'
  BY <1>15 DEF ClearTarget, RemoveIntent, Answer
<1>16. ASSUME NEW r \in Requests, Cancel(r) PROVE RaceInv'
  BY <1>16 DEF Cancel, Upload, InFlight, Answer
<1>17. ASSUME NEW r \in Requests, BecomeDue(r) PROVE RaceInv'
  BY <1>17 DEF BecomeDue, InFlight
<1>18. ASSUME NEW w \in Reconcilers, BeginSweep(w) PROVE RaceInv'
  BY <1>18 DEF BeginSweep, Held
<1>19. ASSUME NEW w \in Reconcilers, CommitSweep(w) PROVE RaceInv'
  BY <1>19 DEF CommitSweep
<1>20. ASSUME NEW w \in Reconcilers, FailCommit(w) PROVE RaceInv'
  BY <1>20 DEF FailCommit
<1>21. ASSUME NEW w \in Reconcilers, NEW k \in Ids, Purge(w, k) PROVE RaceInv'
  BY <1>21 DEF Purge, Delete
<1>22. ASSUME NEW w \in Reconcilers, LoseTransaction(w) PROVE RaceInv'
  BY <1>22 DEF LoseTransaction
<1>23. ASSUME NEW w \in Reconcilers, AbortSweep(w) PROVE RaceInv'
  BY <1>23 DEF AbortSweep
<1>24. ASSUME NEW w \in Reconcilers, NEW k \in Ids, PurgeFails(w, k) PROVE RaceInv'
  BY <1>24 DEF PurgeFails, DeleteFails
<1>25. CASE UNCHANGED vars
  BY <1>25 DEF vars
<1> QED
  BY <1>1, <1>2, <1>3, <1>4, <1>5, <1>6, <1>7, <1>8, <1>9, <1>10, <1>11, <1>12, <1>13, <1>14, <1>15, <1>16, <1>17, <1>18, <1>19, <1>20, <1>21, <1>22, <1>23, <1>24, <1>25
  DEF Next, Begin, Continue, Sweep, Outage

\* However requests race, a resume has at most one successor, and that one is visible
\* only once the resume it replaces is not.
THEOREM SuccessorIsUnique == Spec => []OneSuccessor
<1>1. TypeOK /\ RaceInv => OneSuccessor
  BY DEF RaceInv
<1> QED
  BY <1>1, InitTypeOK, NextTypeOK, InitRaceInv, NextRaceInv, PTL DEF Spec

\* An acknowledged replace or delete has erased the old document, and no request or
\* reconciler that is still at work brings it back.
THEOREM ErasureIsFinal == Spec => []AcknowledgedErasure
<1>1. TypeOK /\ RaceInv => AcknowledgedErasure
  BY DEF RaceInv
<1> QED
  BY <1>1, InitTypeOK, NextTypeOK, InitRaceInv, NextRaceInv, PTL DEF Spec

\* A request that answered an error has published nothing, then or later.
THEOREM FailurePublishesNothing == Spec => []FailureIsInvisible
<1>1. TypeOK /\ RaceInv => FailureIsInvisible
  BY DEF RaceInv
<1> QED
  BY <1>1, InitTypeOK, NextTypeOK, InitRaceInv, NextRaceInv, PTL DEF Spec

-----------------------------------------------------------------------------
(* The journal of cleanup intents.                                         *)

\* The request that would have published k is over and did not, or k was
\* published and has been retired: nobody will show k again.
Condemned(k) ==
  \/ status[k] = "deleted"
  \/ status[k] = "absent" /\ k \in Requests /\ pc[k] = "done"

\* Between the reservation and the commit, a request's object is covered by its
\* intent, and it is stored from the upload on.
OwnJournal ==
  \A r \in Requests :
    /\ pc[r] \in {"idle", "reserve", "put", "clear"} => r \notin objects
    /\ pc[r] \in {"idle", "reserve"} => intent[r] = None
    /\ pc[r] \in {"put", "parse", "persist", "persist_failed", "compensate"} =>
         intent[r] # None
    /\ pc[r] \in {"parse", "persist", "persist_failed"} => r \in objects

\* A reconciler only ever looks at condemned keys, and what it has purged is gone.
SweepInv ==
  /\ \A k \in due : Condemned(k)
  /\ \A w \in Reconcilers :
       /\ \A k \in held[w] \cup todo[w] \cup purged[w] : Condemned(k)
       /\ purged[w] \cap objects = {}

JournalInv == EveryObjectTracked /\ VisibleResumeStored /\ OwnJournal /\ SweepInv

\* Requests outlive no intent, and an upload that fails has stored nothing.
Prompt == SlowRequests = FALSE /\ AmbiguousUpload = FALSE

\* Initially exactly the existing resumes are stored, and nothing is listed.
LEMMA InitJournalInv == Init => JournalInv
BY RequestsAssumption
DEF Init, JournalInv, EveryObjectTracked, VisibleResumeStored, OwnJournal, SweepInv, Condemned

\* No step of a request or of a reconciler breaks the journal.
LEMMA NextJournalInv ==
  Prompt /\ TypeOK /\ RaceInv /\ JournalInv /\ [Next]_vars => JournalInv'
<1> SUFFICES ASSUME Prompt, TypeOK, TypeOK', VersionInv, OwnInv, TargetInv, JournalInv,
                    [Next]_vars
             PROVE  JournalInv'
  BY NextTypeOK DEF RaceInv
<1> USE RequestsAssumption
    DEF Prompt, TypeOK, VersionInv, OwnInv, TargetInv, JournalInv, EveryObjectTracked,
        VisibleResumeStored, OwnJournal, SweepInv, Condemned
<1>1. ASSUME NEW r \in Requests, BeginUpload(r) PROVE JournalInv'
  BY <1>1 DEF BeginUpload, Goto
<1>2. ASSUME NEW r \in Requests, NEW t \in Ids \ {r}, BeginReplace(r, t) PROVE JournalInv'
  BY <1>2 DEF BeginReplace, get_owned, Goto, Answer
<1>3. ASSUME NEW r \in Requests, NEW t \in Ids \ {r}, BeginDelete(r, t) PROVE JournalInv'
  BY <1>3 DEF BeginDelete, get_owned, Goto, Answer
<1>4. ASSUME NEW r \in Requests, Reserve(r) PROVE JournalInv'
  BY <1>4 DEF Reserve, Goto, Answer
<1>5. ASSUME NEW r \in Requests, Put(r) PROVE JournalInv'
  BY <1>5 DEF Put, Upload, UploadFails, Goto, AnswerAfter
<1>6. ASSUME NEW r \in Requests, Parse(r) PROVE JournalInv'
  BY <1>6 DEF Parse, Goto, AnswerAfter
<1>7. ASSUME NEW r \in Requests, PersistUpload(r) PROVE JournalInv'
  <2>1. CASE UNCHANGED db
    BY <1>7, <2>1 DEF PersistUpload, RemoveIntent, Answer, AnswerAfter
  <2>2. CASE ~UNCHANGED db
    <3>a. /\ r \in objects /\ objects' = objects /\ sweep' = sweep
          /\ r \notin Held /\ status'[r] \in {"parsed", "parse_failed"}
          /\ intent'[r] = None /\ due' = due \ {r} /\ status[r] = "absent"
          /\ pc[r] # "done" /\ pc'[r] = "done"
      BY <1>7, <2>2 DEF PersistUpload, RemoveIntent, Answer
    <3>b. \A k \in Ids \ {r} : status'[k] = status[k] /\ intent'[k] = intent[k]
      BY <1>7, <2>2 DEF PersistUpload, RemoveIntent
    <3>c. \A q \in Requests \ {r} : pc'[q] = pc[q]
      BY <1>7, <2>2 DEF PersistUpload, Answer
    <3>d. ~Condemned(r) /\ \A k \in Ids \ {r} : Condemned(k) => Condemned(k)'
      BY <3>a, <3>b, <3>c
    <3>1. EveryObjectTracked'
      BY <3>a, <3>b
    <3>2. VisibleResumeStored'
      BY <3>a, <3>b
    <3>3. OwnJournal'
      BY <3>a, <3>b, <3>c
    <3>4. SweepInv'
      BY <3>a, <3>d
    <3> QED
      BY <3>1, <3>2, <3>3, <3>4
  <2> QED
    BY <2>1, <2>2
<1>8. ASSUME NEW r \in Requests, PersistReplace(r) PROVE JournalInv'
  <2>1. CASE UNCHANGED db
    BY <1>8, <2>1 DEF PersistReplace, Fresh, Goto, AnswerAfter
  <2>2. CASE ~UNCHANGED db
    <3>a. /\ r \in objects /\ objects' = objects /\ sweep' = sweep
          /\ tgt[r] \in Ids \ {r} /\ version[tgt[r]] = 1
          /\ status' = [status EXCEPT ![r] = "parsed", ![tgt[r]] = "deleted"]
          /\ intent' = [intent EXCEPT ![r] = None, ![tgt[r]] = r]
          /\ due' = (due \ {r}) \cup {tgt[r]}
          /\ pc' = [pc EXCEPT ![r] = "drop"]
          /\ pc[r] = "persist" /\ status[r] = "absent"
      BY <1>8, <2>2 DEF PersistReplace, Fresh, Goto
    <3>b. status'[r] = "parsed" /\ intent'[r] = None /\ pc'[r] = "drop"
      BY <3>a
    <3>c. status'[tgt[r]] = "deleted" /\ intent'[tgt[r]] = r /\ r # None
      BY <3>a
    <3>d. \A k \in Ids \ {r, tgt[r]} : status'[k] = status[k] /\ intent'[k] = intent[k]
      BY <3>a
    <3>e. \A q \in Requests \ {r} : pc'[q] = pc[q]
      BY <3>a
    <3>f. ~Condemned(r) /\ \A k \in Ids \ {r} : Condemned(k) => Condemned(k)'
      BY <3>a, <3>c, <3>d, <3>e
    <3>g. status[tgt[r]] \in {"parsed", "parse_failed"}
      BY <3>a
    <3>1. EveryObjectTracked'
      BY <3>a, <3>b, <3>c, <3>d
    <3>2. VisibleResumeStored'
      BY <3>a, <3>b, <3>c, <3>d
    <3>3. OwnJournal'
      BY <3>a, <3>b, <3>c, <3>d, <3>e, <3>g
    <3>4. SweepInv'
      BY <3>a, <3>c, <3>f
    <3> QED
      BY <3>1, <3>2, <3>3, <3>4
  <2> QED
    BY <2>1, <2>2
<1>9. ASSUME NEW r \in Requests, Retire(r) PROVE JournalInv'
  <2>1. CASE UNCHANGED db
    BY <1>9, <2>1 DEF Retire, Fresh, Goto, Answer
  <2>2. CASE ~UNCHANGED db
    <3>a. /\ objects' = objects /\ sweep' = sweep
          /\ tgt[r] \in Ids \ {r} /\ version[tgt[r]] = 1
          /\ status' = [status EXCEPT ![tgt[r]] = "deleted"]
          /\ intent' = [intent EXCEPT ![tgt[r]] = r]
          /\ due' = due \cup {tgt[r]}
          /\ pc' = [pc EXCEPT ![r] = "drop"]
          /\ pc[r] = "retire"
      BY <1>9, <2>2 DEF Retire, Fresh, Goto
    <3>c. status'[tgt[r]] = "deleted" /\ intent'[tgt[r]] = r /\ r # None
      BY <3>a
    <3>d. \A k \in Ids \ {tgt[r]} : status'[k] = status[k] /\ intent'[k] = intent[k]
      BY <3>a
    <3>e. pc'[r] = "drop" /\ \A q \in Requests \ {r} : pc'[q] = pc[q]
      BY <3>a
    <3>f. \A k \in Ids : Condemned(k) => Condemned(k)'
      BY <3>a, <3>c, <3>d, <3>e
    <3>g. status[tgt[r]] \in {"parsed", "parse_failed"}
      BY <3>a
    <3>1. EveryObjectTracked'
      BY <3>a, <3>c, <3>d
    <3>2. VisibleResumeStored'
      BY <3>a, <3>c, <3>d
    <3>3. OwnJournal'
      BY <3>a, <3>c, <3>d, <3>e, <3>g
    <3>4. SweepInv'
      BY <3>a, <3>c, <3>f
    <3> QED
      BY <3>1, <3>2, <3>3, <3>4
  <2> QED
    BY <2>1, <2>2
<1>10. ASSUME NEW r \in Requests, Lookup(r) PROVE JournalInv'
  BY <1>10 DEF Lookup, Goto
<1>11. ASSUME NEW r \in Requests, Relist(r) PROVE JournalInv'
  BY <1>11 DEF Relist, Goto, Answer
<1>12. ASSUME NEW r \in Requests, Compensate(r) PROVE JournalInv'
  BY <1>12 DEF Compensate, Delete, DeleteFails, Goto, Answer
<1>13. ASSUME NEW r \in Requests, Clear(r) PROVE JournalInv'
  BY <1>13 DEF Clear, RemoveIntent, Goto
<1>14. ASSUME NEW r \in Requests, Drop(r) PROVE JournalInv'
  BY <1>14 DEF Drop, Delete, DeleteFails, Goto, Answer
<1>15. ASSUME NEW r \in Requests, ClearTarget(r) PROVE JournalInv'
  BY <1>15 DEF ClearTarget, RemoveIntent, Answer
<1>16. ASSUME NEW r \in Requests, Cancel(r) PROVE JournalInv'
  BY <1>16 DEF Cancel, Upload, InFlight, Answer
<1>17. ASSUME NEW r \in Requests, BecomeDue(r) PROVE JournalInv'
  <2>1. intent[r] # None /\ pc[r] = "done"
    BY <1>17 DEF BecomeDue, InFlight
  <2>2. Condemned(r)
    BY <2>1
  <2> QED
    BY <1>17, <2>2 DEF BecomeDue
<1>18. ASSUME NEW w \in Reconcilers, BeginSweep(w) PROVE JournalInv'
  BY <1>18 DEF BeginSweep, Held
<1>19. ASSUME NEW w \in Reconcilers, CommitSweep(w) PROVE JournalInv'
  BY <1>19 DEF CommitSweep
<1>20. ASSUME NEW w \in Reconcilers, FailCommit(w) PROVE JournalInv'
  BY <1>20 DEF FailCommit
<1>21. ASSUME NEW w \in Reconcilers, NEW k \in Ids, Purge(w, k) PROVE JournalInv'
  BY <1>21 DEF Purge, Delete
<1>22. ASSUME NEW w \in Reconcilers, LoseTransaction(w) PROVE JournalInv'
  BY <1>22 DEF LoseTransaction
<1>23. ASSUME NEW w \in Reconcilers, AbortSweep(w) PROVE JournalInv'
  BY <1>23 DEF AbortSweep
<1>24. ASSUME NEW w \in Reconcilers, NEW k \in Ids, PurgeFails(w, k) PROVE JournalInv'
  BY <1>24 DEF PurgeFails, DeleteFails
<1>25. CASE UNCHANGED vars
  BY <1>25 DEF vars
<1> QED
  BY <1>1, <1>2, <1>3, <1>4, <1>5, <1>6, <1>7, <1>8, <1>9, <1>10, <1>11, <1>12, <1>13, <1>14, <1>15, <1>16, <1>17, <1>18, <1>19, <1>20, <1>21, <1>22, <1>23, <1>24, <1>25
  DEF Next, Begin, Continue, Sweep, Outage

\* With prompt requests and unambiguous uploads no object is ever orphaned, whatever
\* else fails or crashes.
THEOREM NoOrphanedObject == Prompt => (Spec => []EveryObjectTracked)
<1> SUFFICES ASSUME Prompt PROVE Spec => []EveryObjectTracked
  OBVIOUS
<1>1. TypeOK /\ RaceInv /\ JournalInv /\ [Next]_vars => JournalInv'
  BY NextJournalInv
<1>2. JournalInv => EveryObjectTracked
  BY DEF JournalInv
<1> QED
  BY <1>1, <1>2, InitTypeOK, NextTypeOK, InitRaceInv, NextRaceInv, InitJournalInv, PTL
  DEF Spec

\* Under the same conditions no visible resume ever loses its document.
THEOREM VisibleKeepsDocument == Prompt => (Spec => []VisibleResumeStored)
<1> SUFFICES ASSUME Prompt PROVE Spec => []VisibleResumeStored
  OBVIOUS
<1>1. TypeOK /\ RaceInv /\ JournalInv /\ [Next]_vars => JournalInv'
  BY NextJournalInv
<1>2. JournalInv => VisibleResumeStored
  BY DEF JournalInv
<1> QED
  BY <1>1, <1>2, InitTypeOK, NextTypeOK, InitRaceInv, NextRaceInv, InitJournalInv, PTL
  DEF Spec

-----------------------------------------------------------------------------
(* The resume subsystem implements the ledger of objects.                  *)

\* The row, the intent and the object of k are left alone.
Same(k) ==
  /\ status'[k] = status[k] /\ intent'[k] = intent[k]
  /\ k \in objects' <=> k \in objects

\* What the phase of a key says about its row, its intent and its object.
LEMMA PhaseMeaning ==
  ASSUME NEW k
  PROVE  /\ Phase(k) = "live" <=> Active(k)
         /\ Phase(k) = "stored" <=> ~Active(k) /\ k \in objects
         /\ Phase(k) = "pending" <=> ~Active(k) /\ k \notin objects /\ intent[k] # None
         /\ Phase(k) = "vacant" <=> ~Active(k) /\ k \notin objects /\ intent[k] = None
  BY DEF Phase

\* The same after a step.
LEMMA PhaseMeaningNext ==
  ASSUME NEW k
  PROVE  /\ Phase(k)' = "live" <=> Active(k)'
         /\ Phase(k)' = "stored" <=> ~Active(k)' /\ k \in objects'
         /\ Phase(k)' = "pending" <=> ~Active(k)' /\ k \notin objects' /\ intent'[k] # None
         /\ Phase(k)' = "vacant" <=> ~Active(k)' /\ k \notin objects' /\ intent'[k] = None
  BY DEF Phase

\* A key that a step leaves alone keeps its phase.
LEMMA SamePhase == \A k : Same(k) => Phase(k)' = Phase(k)
  BY DEF Same, Phase

\* A step that leaves the phases and the withdrawn resumes alone is a stutter of
\* the ledger.
LEMMA LedgerStutter ==
  ASSUME \A k \in Ids : Phase(k)' = Phase(k) /\ (status'[k] = "deleted" <=> status[k] = "deleted")
  PROVE  UNCHANGED Ledger!vars
  BY DEF Ledger!vars

\* A step that moves one key from one phase to another is a move of the ledger.
LEMMA LedgerMove ==
  ASSUME NEW k \in Ids, NEW from, NEW to,
         Phase(k) = from, Phase(k)' = to,
         \A j \in Ids \ {k} : Phase(j)' = Phase(j),
         \A j \in Ids : status'[j] = "deleted" <=> status[j] = "deleted"
  PROVE  Ledger!Move(k, from, to)
  BY DEF Ledger!Move

\* Deleting the object of a resume that is not visible, with whatever outcome, erases
\* a listed object or changes nothing.
LEMMA LedgerErase ==
  ASSUME EveryObjectTracked, NEW k \in Ids, ~Active(k), objects' \in {objects, objects \ {k}},
         UNCHANGED <<status, intent>>
  PROVE  [Ledger!Next]_(Ledger!vars)
<1>1. \A j \in Ids \ {k} : Phase(j)' = Phase(j)
  BY SamePhase DEF Same
<1>2. CASE k \in objects /\ objects' = objects \ {k}
  <2>1. Phase(k) = "stored" /\ Phase(k)' = "pending"
    BY <1>2, PhaseMeaning, PhaseMeaningNext DEF EveryObjectTracked
  <2> QED
    BY <1>1, <2>1, LedgerMove DEF Ledger!Next, Ledger!Erase
<1>3. CASE ~(k \in objects /\ objects' = objects \ {k})
  <2>1. Same(k)
    BY <1>3 DEF Same
  <2> QED
    BY <1>1, <2>1, SamePhase, LedgerStutter
<1> QED
  BY <1>2, <1>3

\* Removing the cleanup rows of keys whose objects are gone unlists those that were
\* listed.
LEMMA LedgerUnlist ==
  ASSUME TypeOK, NEW S \in SUBSET Ids, \A k \in S : ~Active(k) /\ k \notin objects,
         intent' = [k \in Ids |-> IF k \in S THEN None ELSE intent[k]],
         UNCHANGED <<status, objects>>
  PROVE  [Ledger!Next]_(Ledger!vars)
<1> DEFINE Listed == {k \in S : intent[k] # None}
<1>1. \A k \in Ids \ Listed : Phase(k)' = Phase(k)
  BY SamePhase DEF Same
<1>2. \A k \in Listed : Phase(k) = "pending" /\ Phase(k)' = "vacant"
  BY PhaseMeaning, PhaseMeaningNext
<1>3. CASE Listed = {}
  BY <1>1, <1>3, LedgerStutter
<1>4. CASE Listed # {}
  <2> HIDE DEF Listed
  <2>1. Listed \in SUBSET Ids
    BY DEF Listed
  <2>2. Ledger!Unlist(Listed)
    BY <1>1, <1>2, <1>4, <2>1 DEF Ledger!Unlist
  <2> QED
    BY <2>1, <2>2 DEF Ledger!Next
<1> QED
  BY <1>3, <1>4

\* The object of a request that is putting it there arrives, or does not.
LEMMA LedgerStore ==
  ASSUME OwnInv, OwnJournal, NEW r \in Requests, pc[r] = "put",
         objects' \in {objects, objects \cup {r}}, UNCHANGED <<status, intent>>
  PROVE  [Ledger!Next]_(Ledger!vars)
<1>1. \A j \in Ids \ {r} : Phase(j)' = Phase(j)
  BY SamePhase DEF Same
<1>2. status[r] = "absent" /\ r \notin objects /\ intent[r] # None
  BY DEF OwnInv, OwnJournal
<1>3. CASE objects' = objects \cup {r}
  <2>1. Phase(r) = "pending" /\ Phase(r)' = "stored"
    BY <1>2, <1>3, PhaseMeaning, PhaseMeaningNext
  <2>2. Ledger!Store(r)
    BY <1>1, <1>2, <2>1, LedgerMove DEF Ledger!Store
  <2> QED
    BY <2>2 DEF Ledger!Next
<1>4. CASE objects' = objects
  BY <1>1, <1>4, SamePhase, LedgerStutter DEF Same
<1> QED
  BY <1>3, <1>4

\* A step that touches neither rows nor intents nor objects is a stutter.
LEMMA LedgerIdle ==
  ASSUME UNCHANGED <<status, intent, objects>>
  PROVE  [Ledger!Next]_(Ledger!vars)
  BY SamePhase, LedgerStutter DEF Same

\* A cleanup row is inserted for a key that has neither row nor object to show.
LEMMA LedgerList ==
  ASSUME TypeOK, NEW k \in Ids, ~Active(k), k \notin objects, intent[k] = None,
         NEW r \in Requests, intent' = [intent EXCEPT ![k] = r], UNCHANGED <<status, objects>>
  PROVE  [Ledger!Next]_(Ledger!vars)
<1>1. \A j \in Ids \ {k} : Phase(j)' = Phase(j)
  BY SamePhase DEF Same, TypeOK
<1>2. Phase(k) = "vacant" /\ Phase(k)' = "pending"
  BY PhaseMeaning, PhaseMeaningNext, RequestsAssumption DEF TypeOK
<1>3. Ledger!List(k)
  BY <1>1, <1>2, LedgerMove DEF Ledger!List
<1> QED
  BY <1>3 DEF Ledger!Next

\* Every step of a request or of a reconciler is a step of the ledger or a stutter.
LEMMA NextImplementsLedger ==
  Prompt /\ TypeOK /\ RaceInv /\ JournalInv /\ [Next]_vars => [Ledger!Next]_(Ledger!vars)
<1> DEFINE Step == [Ledger!Next]_(Ledger!vars)
<1> SUFFICES ASSUME Prompt, TypeOK, RaceInv, JournalInv, [Next]_vars PROVE Step
  OBVIOUS
<1> HIDE DEF Step
<1>e. EveryObjectTracked /\ VisibleResumeStored /\ OwnJournal /\ SweepInv
  BY DEF JournalInv
<1>r. VersionInv /\ OwnInv /\ TargetInv
  BY DEF RaceInv
<1>i. ASSUME UNCHANGED <<status, intent, objects>> PROVE Step
  BY <1>i, LedgerIdle DEF Step
<1>d. ASSUME NEW k \in Ids, ~Active(k), objects' \in {objects, objects \ {k}},
             UNCHANGED <<status, intent>>
      PROVE  Step
  BY <1>e, <1>d, LedgerErase DEF Step
<1>u. ASSUME NEW k \in Ids, ~Active(k), k \notin objects, RemoveIntent(k),
             UNCHANGED <<status, objects>>
      PROVE  Step
  <2>1. intent' = [j \in Ids |-> IF j \in {k} THEN None ELSE intent[j]]
    BY <1>u DEF RemoveIntent, TypeOK
  <2> QED
    BY <1>u, <2>1, LedgerUnlist DEF Step
<1>1. ASSUME NEW r \in Requests, Begin(r) PROVE Step
  BY <1>1, <1>i DEF Begin, BeginUpload, BeginReplace, BeginDelete
<1>2. ASSUME NEW r \in Requests, Reserve(r) PROVE Step
  <2>1. ~Active(r) /\ r \notin objects /\ intent[r] = None
    BY <1>2, <1>e, <1>r DEF Reserve, OwnInv, OwnJournal
  <2>2. CASE intent' = [intent EXCEPT ![r] = r]
    BY <1>2, <2>1, <2>2, LedgerList DEF Reserve, Step
  <2> QED
    BY <1>2, <1>i, <2>2 DEF Reserve
<1>3. ASSUME NEW r \in Requests, Put(r) PROVE Step
  BY <1>3, <1>e, <1>r, LedgerStore DEF Put, Upload, UploadFails, Step
<1>4. ASSUME NEW r \in Requests, Parse(r) PROVE Step
  BY <1>4, <1>i DEF Parse
<1>5. ASSUME NEW r \in Requests, PersistUpload(r) PROVE Step
  <2>1. CASE UNCHANGED db
    BY <1>5, <1>i, <2>1 DEF PersistUpload
  <2>2. CASE ~UNCHANGED db
    <3>1. /\ status[r] = "absent" /\ r \in objects /\ objects' = objects
          /\ status'[r] \in {"parsed", "parse_failed"}
      BY <1>5, <1>e, <1>r, <2>2 DEF PersistUpload, OwnInv, OwnJournal, TypeOK
    <3>2. \A k \in Ids \ {r} : Same(k)
      BY <1>5, <2>2 DEF PersistUpload, RemoveIntent, Same, TypeOK
    <3>3. Phase(r) = "stored" /\ Phase(r)' = "live"
      BY <3>1, PhaseMeaning, PhaseMeaningNext
    <3>4. Ledger!Publish(r)
      BY <3>1, <3>2, <3>3, SamePhase, LedgerMove DEF Ledger!Publish, Same
    <3> QED
      BY <3>4 DEF Ledger!Next, Step
  <2> QED
    BY <2>1, <2>2
<1>6. ASSUME NEW r \in Requests, PersistReplace(r) PROVE Step
  <2>1. CASE UNCHANGED db
    BY <1>6, <1>i, <2>1 DEF PersistReplace
  <2>2. CASE ~UNCHANGED db
    <3>0. PICK t \in Ids : t = tgt[r]
      BY DEF TypeOK
    <3>1. /\ status[r] = "absent" /\ r \in objects /\ objects' = objects
          /\ t \in Ids \ {r} /\ version[t] = 1
          /\ status' = [status EXCEPT ![r] = "parsed", ![t] = "deleted"]
          /\ intent' = [intent EXCEPT ![r] = None, ![t] = r]
      BY <1>6, <1>e, <1>r, <2>2, <3>0 DEF PersistReplace, Fresh, OwnInv, OwnJournal, TargetInv, TypeOK
    <3>2. Active(t) /\ t \in objects
      BY <1>e, <1>r, <3>1 DEF VersionInv, VisibleResumeStored, TypeOK
    <3>3. status'[r] = "parsed" /\ status'[t] = "deleted"
      BY <3>1 DEF TypeOK
    <3>4. \A k \in Ids \ {r, t} : Same(k)
      BY <3>1 DEF Same, TypeOK
    <3>5. Phase(r) = "stored" /\ Phase(r)' = "live" /\ Phase(t) = "live" /\ Phase(t)' = "stored"
      BY <3>1, <3>2, <3>3, PhaseMeaning, PhaseMeaningNext
    <3>6. \A k \in Ids \ {r, t} : Phase(k)' = Phase(k) /\ status'[k] = status[k]
      BY <3>4, SamePhase DEF Same
    <3>7. Ledger!Swap(r, t)
      BY <3>1, <3>3, <3>5, <3>6 DEF Ledger!Swap
    <3> QED
      BY <3>1, <3>7 DEF Ledger!Next, Step
  <2> QED
    BY <2>1, <2>2
<1>7. ASSUME NEW r \in Requests, Retire(r) PROVE Step
  <2>1. CASE UNCHANGED db
    BY <1>7, <1>i, <2>1 DEF Retire
  <2>2. CASE ~UNCHANGED db
    <3>0. PICK t \in Ids : t = tgt[r]
      BY DEF TypeOK
    <3>1. /\ objects' = objects /\ t \in Ids /\ version[t] = 1
          /\ status' = [status EXCEPT ![t] = "deleted"]
          /\ intent' = [intent EXCEPT ![t] = r]
      BY <1>7, <1>r, <2>2, <3>0 DEF Retire, Fresh, TargetInv, TypeOK
    <3>2. Active(t) /\ t \in objects /\ status'[t] = "deleted"
      BY <1>e, <1>r, <3>1 DEF VersionInv, VisibleResumeStored, TypeOK
    <3>3. Phase(t) = "live" /\ Phase(t)' = "stored"
      BY <3>1, <3>2, PhaseMeaning, PhaseMeaningNext
    <3>4. \A k \in Ids \ {t} : Phase(k)' = Phase(k) /\ status'[k] = status[k]
      BY <3>1, SamePhase DEF Same, TypeOK
    <3>5. Ledger!Withdraw(t)
      BY <3>1, <3>2, <3>3, <3>4 DEF Ledger!Withdraw
    <3> QED
      BY <3>1, <3>5 DEF Ledger!Next, Step
  <2> QED
    BY <2>1, <2>2
<1>8. ASSUME NEW r \in Requests, Lookup(r) PROVE Step
  BY <1>8, <1>i DEF Lookup
<1>9. ASSUME NEW r \in Requests, Relist(r) PROVE Step
  <2>1. tgt[r] \in Ids /\ status[tgt[r]] = "deleted"
    BY <1>9, <1>r DEF Relist, TargetInv, TypeOK
  <2>2. CASE UNCHANGED intent
    BY <1>9, <1>i, <2>2 DEF Relist
  <2>3. CASE ~UNCHANGED intent
    BY <1>9, <1>e, <2>1, <2>3, LedgerList DEF Relist, EveryObjectTracked, Step
  <2> QED
    BY <2>2, <2>3
<1>10. ASSUME NEW r \in Requests, Compensate(r) PROVE Step
  BY <1>10, <1>d, <1>r DEF Compensate, Delete, DeleteFails, OwnInv
<1>11. ASSUME NEW r \in Requests, Clear(r) PROVE Step
  <2>1. ~Active(r) /\ r \notin objects
    BY <1>11, <1>e, <1>r DEF Clear, OwnInv, OwnJournal
  <2> QED
    BY <1>11, <1>i, <1>u, <2>1 DEF Clear
<1>12. ASSUME NEW r \in Requests, Drop(r) PROVE Step
  <2>1. tgt[r] \in Ids /\ status[tgt[r]] = "deleted"
    BY <1>12, <1>r DEF Drop, TargetInv, TypeOK
  <2> QED
    BY <1>12, <1>d, <2>1 DEF Drop, Delete, DeleteFails
<1>13. ASSUME NEW r \in Requests, ClearTarget(r) PROVE Step
  <2>1. tgt[r] \in Ids /\ status[tgt[r]] = "deleted" /\ tgt[r] \notin objects
    BY <1>13, <1>r DEF ClearTarget, TargetInv, TypeOK
  <2> QED
    BY <1>13, <1>i, <1>u, <2>1 DEF ClearTarget
<1>14. ASSUME NEW r \in Requests, Cancel(r) PROVE Step
  BY <1>14, <1>e, <1>r, <1>i, LedgerStore DEF Cancel, Upload, Step
<1>15. ASSUME NEW r \in Requests, BecomeDue(r) PROVE Step
  BY <1>15, <1>i DEF BecomeDue
<1>16. ASSUME NEW w \in Reconcilers, CommitSweep(w) PROVE Step
  <2>1. purged[w] \in SUBSET Ids /\ \A k \in purged[w] : ~Active(k) /\ k \notin objects
    BY <1>e DEF SweepInv, Condemned, TypeOK
  <2> QED
    BY <1>16, <2>1, LedgerUnlist DEF CommitSweep, Step
<1>17. ASSUME NEW w \in Reconcilers, NEW k \in Ids, Purge(w, k) \/ PurgeFails(w, k) PROVE Step
  <2>1. ~Active(k)
    BY <1>17, <1>e DEF Purge, PurgeFails, SweepInv, Condemned
  <2> QED
    BY <1>17, <1>d, <2>1 DEF Purge, PurgeFails, Delete, DeleteFails
<1>18. ASSUME NEW w \in Reconcilers,
              BeginSweep(w) \/ FailCommit(w) \/ LoseTransaction(w) \/ AbortSweep(w)
       PROVE  Step
  BY <1>18, <1>i DEF BeginSweep, FailCommit, LoseTransaction, AbortSweep
<1>19. CASE UNCHANGED vars
  BY <1>19, <1>i DEF vars
<1> QED
  BY <1>1, <1>2, <1>3, <1>4, <1>5, <1>6, <1>7, <1>8, <1>9, <1>10, <1>11, <1>12, <1>13,
     <1>14, <1>15, <1>16, <1>17, <1>18, <1>19
  DEF Next, Continue, Sweep, Outage

\* The existing resumes are the ledger's visible ones.
LEMMA InitImplementsLedger == Init => Ledger!Init
<1> SUFFICES ASSUME Init PROVE Ledger!Init
  OBVIOUS
<1>1. \A k \in Ids : Phase(k) = IF k \in Existing THEN "live" ELSE "vacant"
  BY RequestsAssumption, PhaseMeaning DEF Init
<1> QED
  BY <1>1 DEF Init, Ledger!Init

\* The requests and the reconcilers, two stores without a common transaction, crashes
\* and races included, implement the ledger of objects: an object is listed before it
\* exists and until after it is gone, a replacement appears in the step that withdraws
\* the old resume, and a withdrawn resume never comes back.
THEOREM LedgerIsImplemented == Prompt => (Spec => ImplementsLedger)
<1> SUFFICES ASSUME Prompt PROVE Spec => ImplementsLedger
  OBVIOUS
<1>1. TypeOK /\ RaceInv /\ JournalInv /\ [Next]_vars => JournalInv'
  BY NextJournalInv
<1>2. TypeOK /\ RaceInv /\ JournalInv /\ [Next]_vars => [Ledger!Next]_(Ledger!vars)
  BY NextImplementsLedger
<1> QED
  BY <1>1, <1>2, InitTypeOK, NextTypeOK, InitRaceInv, NextRaceInv, InitJournalInv,
     InitImplementsLedger, PTL
  DEF Spec, ImplementsLedger, Ledger!Spec
-----------------------------------------------------------------------------
(* Owners.                                                                 *)

\* The resume a request has looked up and still works on is its owner's.
OwnedTarget ==
  \A r \in Requests :
    /\ pc[r] = "idle" => tgt[r] = r
    /\ InFlight(r) => Owner[tgt[r]] = Owner[r]

\* Initially every request points at itself.
LEMMA InitOwnedTarget == Init => OwnedTarget
  BY DEF Init, OwnedTarget, InFlight

\* The owner-scoped lookup comes first, and the target never changes after it.
LEMMA NextOwnedTarget == TypeOK /\ OwnedTarget /\ [Next]_vars => OwnedTarget'
<1> SUFFICES ASSUME TypeOK, OwnedTarget, [Next]_vars PROVE OwnedTarget'
  OBVIOUS
<1> USE DEF TypeOK, OwnedTarget, InFlight
<1>1. ASSUME NEW r \in Requests, BeginUpload(r) PROVE OwnedTarget'
  BY <1>1 DEF BeginUpload, Goto
<1>2. ASSUME NEW r \in Requests, NEW t \in Ids \ {r}, BeginReplace(r, t) PROVE OwnedTarget'
  BY <1>2 DEF BeginReplace, get_owned, Goto, Answer
<1>3. ASSUME NEW r \in Requests, NEW t \in Ids \ {r}, BeginDelete(r, t) PROVE OwnedTarget'
  BY <1>3 DEF BeginDelete, get_owned, Goto, Answer
<1>4. ASSUME NEW r \in Requests, Reserve(r) PROVE OwnedTarget'
  BY <1>4 DEF Reserve, Goto, Answer
<1>5. ASSUME NEW r \in Requests, Put(r) PROVE OwnedTarget'
  BY <1>5 DEF Put, Upload, UploadFails, Goto, AnswerAfter
<1>6. ASSUME NEW r \in Requests, Parse(r) PROVE OwnedTarget'
  BY <1>6 DEF Parse, Goto, AnswerAfter
<1>7. ASSUME NEW r \in Requests, PersistUpload(r) PROVE OwnedTarget'
  BY <1>7 DEF PersistUpload, RemoveIntent, Answer, AnswerAfter
<1>8. ASSUME NEW r \in Requests, PersistReplace(r) PROVE OwnedTarget'
  BY <1>8 DEF PersistReplace, Goto, AnswerAfter
<1>9. ASSUME NEW r \in Requests, Retire(r) PROVE OwnedTarget'
  BY <1>9 DEF Retire, Goto, Answer
<1>10. ASSUME NEW r \in Requests, Lookup(r) PROVE OwnedTarget'
  BY <1>10 DEF Lookup, Goto
<1>11. ASSUME NEW r \in Requests, Relist(r) PROVE OwnedTarget'
  BY <1>11 DEF Relist, Goto, Answer
<1>12. ASSUME NEW r \in Requests, Compensate(r) PROVE OwnedTarget'
  BY <1>12 DEF Compensate, Delete, DeleteFails, Goto, Answer
<1>13. ASSUME NEW r \in Requests, Clear(r) PROVE OwnedTarget'
  BY <1>13 DEF Clear, RemoveIntent, Goto
<1>14. ASSUME NEW r \in Requests, Drop(r) PROVE OwnedTarget'
  BY <1>14 DEF Drop, Delete, DeleteFails, Goto, Answer
<1>15. ASSUME NEW r \in Requests, ClearTarget(r) PROVE OwnedTarget'
  BY <1>15 DEF ClearTarget, RemoveIntent, Answer
<1>16. ASSUME NEW r \in Requests, Cancel(r) PROVE OwnedTarget'
  BY <1>16 DEF Cancel, Upload, Answer
<1>17. ASSUME NEW r \in Requests, BecomeDue(r) PROVE OwnedTarget'
  BY <1>17 DEF BecomeDue
<1>18. ASSUME NEW w \in Reconcilers, Sweep(w) \/ Outage(w) PROVE OwnedTarget'
  BY <1>18 DEF Sweep, Outage, BeginSweep, CommitSweep, FailCommit, Purge, LoseTransaction,
     AbortSweep, PurgeFails
<1>19. CASE UNCHANGED vars
  BY <1>19 DEF vars
<1> QED
  BY <1>1, <1>2, <1>3, <1>4, <1>5, <1>6, <1>7, <1>8, <1>9, <1>10, <1>11, <1>12, <1>13,
     <1>14, <1>15, <1>16, <1>17, <1>18, <1>19
  DEF Next, Begin, Continue

\* A step of a request touches its own resume and its target, nobody else's.
LEMMA IsolatedStep ==
  TypeOK /\ OwnedTarget /\ [Next]_vars =>
    \A r \in Requests, k \in Ids :
       pc'[r] # pc[r] /\ Owner[r] # Owner[k] => Same(k)
<1> DEFINE Isolated ==
      \A q \in Requests, k \in Ids : pc'[q] # pc[q] /\ Owner[q] # Owner[k] => Same(k)
<1> SUFFICES ASSUME TypeOK, OwnedTarget, [Next]_vars PROVE Isolated
  OBVIOUS
<1> USE DEF TypeOK, OwnedTarget, InFlight, Same
<1>1. ASSUME NEW r \in Requests, BeginUpload(r) PROVE Isolated
  BY <1>1 DEF BeginUpload, Goto
<1>2. ASSUME NEW r \in Requests, NEW t \in Ids \ {r}, BeginReplace(r, t) PROVE Isolated
  BY <1>2 DEF BeginReplace, get_owned, Goto, Answer
<1>3. ASSUME NEW r \in Requests, NEW t \in Ids \ {r}, BeginDelete(r, t) PROVE Isolated
  BY <1>3 DEF BeginDelete, get_owned, Goto, Answer
<1>4. ASSUME NEW r \in Requests, Reserve(r) PROVE Isolated
  BY <1>4 DEF Reserve, Goto, Answer
<1>5. ASSUME NEW r \in Requests, Put(r) PROVE Isolated
  BY <1>5 DEF Put, Upload, UploadFails, Goto, AnswerAfter
<1>6. ASSUME NEW r \in Requests, Parse(r) PROVE Isolated
  BY <1>6 DEF Parse, Goto, AnswerAfter
<1>7. ASSUME NEW r \in Requests, PersistUpload(r) PROVE Isolated
  BY <1>7 DEF PersistUpload, RemoveIntent, Answer, AnswerAfter
<1>8. ASSUME NEW r \in Requests, PersistReplace(r) PROVE Isolated
  <2>1. \A k \in Ids \ {r, tgt[r]} : Same(k)
    BY <1>8 DEF PersistReplace, Goto, AnswerAfter
  <2>2. Owner[tgt[r]] = Owner[r] /\ \A q \in Requests \ {r} : pc'[q] = pc[q]
    BY <1>8 DEF PersistReplace, Goto, AnswerAfter
  <2> QED
    BY <2>1, <2>2
<1>9. ASSUME NEW r \in Requests, Retire(r) PROVE Isolated
  BY <1>9 DEF Retire, Goto, Answer
<1>10. ASSUME NEW r \in Requests, Lookup(r) PROVE Isolated
  BY <1>10 DEF Lookup, Goto
<1>11. ASSUME NEW r \in Requests, Relist(r) PROVE Isolated
  BY <1>11 DEF Relist, Goto, Answer
<1>12. ASSUME NEW r \in Requests, Compensate(r) PROVE Isolated
  BY <1>12 DEF Compensate, Delete, DeleteFails, Goto, Answer
<1>13. ASSUME NEW r \in Requests, Clear(r) PROVE Isolated
  BY <1>13 DEF Clear, RemoveIntent, Goto
<1>14. ASSUME NEW r \in Requests, Drop(r) PROVE Isolated
  BY <1>14 DEF Drop, Delete, DeleteFails, Goto, Answer
<1>15. ASSUME NEW r \in Requests, ClearTarget(r) PROVE Isolated
  BY <1>15 DEF ClearTarget, RemoveIntent, Answer
<1>16. ASSUME NEW r \in Requests, Cancel(r) PROVE Isolated
  BY <1>16 DEF Cancel, Upload, Answer
<1>17. ASSUME NEW r \in Requests, BecomeDue(r) PROVE Isolated
  BY <1>17 DEF BecomeDue
<1>18. ASSUME NEW w \in Reconcilers, Sweep(w) \/ Outage(w) PROVE Isolated
  BY <1>18 DEF Sweep, Outage, BeginSweep, CommitSweep, FailCommit, Purge, LoseTransaction,
     AbortSweep, PurgeFails
<1>19. CASE UNCHANGED vars
  BY <1>19 DEF vars
<1> QED
  BY <1>1, <1>2, <1>3, <1>4, <1>5, <1>6, <1>7, <1>8, <1>9, <1>10, <1>11, <1>12, <1>13,
     <1>14, <1>15, <1>16, <1>17, <1>18, <1>19
  DEF Next, Begin, Continue

\* No step of a request changes the row, the intent or the document of somebody
\* else's resume.
THEOREM OwnersAreIsolated == Spec => OwnerIsolation
<1>1. TypeOK /\ OwnedTarget /\ [Next]_vars =>
        [\A r \in Requests, k \in Ids :
           pc'[r] # pc[r] /\ Owner[r] # Owner[k] =>
             /\ status'[k] = status[k] /\ intent'[k] = intent[k]
             /\ k \in objects' <=> k \in objects]_vars
  BY IsolatedStep DEF Same
<1> QED
  BY <1>1, InitTypeOK, NextTypeOK, InitOwnedTarget, NextOwnedTarget, PTL
  DEF Spec, OwnerIsolation
=============================================================================
