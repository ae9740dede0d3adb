------------------------ MODULE SearchLifecycleProofs ------------------------
(***************************************************************************)
(* Proofs about SearchLifecycle, for any searches, executions and number   *)
(* of tries, and any choice of the searches whose enqueue is ambiguous or  *)
(* whose job arq hands out while it still runs; and about Matching, for    *)
(* any jobs, profiles, searches and limits.                                *)
(*                                                                         *)
(* ExecutionInv ties executions, row locks and the queue together; with it *)
(* the types are inductive.  CleanInv says that a clean search has at most *)
(* one delivery, queued or running, and that one which has not committed   *)
(* yet finds the row without a final status.                               *)
(*                                                                         *)
(* The rankings: both orders are strict, so a job has fewer before it than *)
(* any that it is before (FewerBefore).  The number of those before it is  *)
(* therefore the place of each job in the list (ListPlaces), and cutting   *)
(* the list leaves those with few before them (FirstInOrder).              *)
(***************************************************************************)
EXTENDS JobSearch, FiniteSetTheorems, TLAPS

\* An execution is at work exactly while it has a job.
BusyInv == \A e \in Executions : exec[e] # "idle" <=> job[e] # None

\* A search that start_search has not enqueued has no delivery and no row lock.
FreshInv ==
  \A s \in Searches : api[s] \in {"idle", "created"} =>
    s \notin queued /\ tries[s] = 0 /\ \A e \in Executions : job[e] # s

\* A queued job has a try left.
TriesInv == \A s \in queued : tries[s] < MaxTries

\* A row is locked by the one execution that processes it, and by no other.
LockInv ==
  /\ \A e \in Executions : exec[e] = "processing" => lock[job[e]] = e
  /\ \A s \in Searches : lock[s] # None => exec[lock[s]] = "processing" /\ job[lock[s]] = s

ExecutionInv == TypeOK /\ BusyInv /\ FreshInv /\ TriesInv /\ LockInv

\* A clean search has one delivery at most, queued or running.
OneDelivery ==
  /\ \A e \in Executions : job[e] \in Clean => job[e] \notin queued
  /\ \A e, f \in Executions : job[e] \in Clean /\ job[e] = job[f] => e = f

\* Where start_search runs into a failed enqueue, the job of a clean search never
\* reached the queue.
NeverQueued ==
  \A s \in Clean : api[s] \in {"marking", "unavailable"} =>
    s \notin queued /\ \A e \in Executions : job[e] # s

\* A row that start_search or an execution is about to decide is undecided.
Undecided ==
  /\ \A s \in Clean : api[s] \in {"idle", "created", "marking"} => status[s] \notin Terminal
  /\ \A e \in Executions :
       job[e] \in Clean /\ exec[e] \in {"loaded", "processing", "failing"}
         => status[job[e]] \notin Terminal

CleanInv == OneDelivery /\ NeverQueued /\ Undecided /\ ResultsMeanCompleted

\* The initial state has no executions, no queue and no locks.
LEMMA InitExecutionInv == Init => ExecutionInv
  BY SearchConstants
  DEF Init, ExecutionInv, TypeOK, BusyInv, FreshInv, TriesInv, LockInv, Terminal

\* Every step of start_search, of a worker and of arq keeps the execution invariant.
LEMMA NextExecutionInv == ExecutionInv /\ [Next]_vars => ExecutionInv'
<1> SUFFICES ASSUME ExecutionInv, [Next]_vars PROVE ExecutionInv'
  OBVIOUS
<1> USE SearchConstants
    DEF ExecutionInv, TypeOK, BusyInv, FreshInv, TriesInv, LockInv, Terminal, row
<1>1. ASSUME NEW s \in Searches, CreateSearch(s) PROVE ExecutionInv'
  BY <1>1 DEF CreateSearch
<1>2. ASSUME NEW s \in Searches, Enqueue(s) PROVE ExecutionInv'
  BY <1>2 DEF Enqueue
<1>3. ASSUME NEW s \in Searches, MarkQueueFailed(s) PROVE ExecutionInv'
  BY <1>3 DEF MarkQueueFailed
<1>4. ASSUME NEW s \in Searches, CancelStart(s) PROVE ExecutionInv'
  BY <1>4 DEF CancelStart
<1>5. ASSUME NEW e \in Executions, NEW s \in Searches, Load(e, s) PROVE ExecutionInv'
  BY <1>5 DEF Load
<1>6. ASSUME NEW e \in Executions, Claim(e) PROVE ExecutionInv'
  BY <1>6 DEF Claim, Goto
<1>7. ASSUME NEW e \in Executions, NoProfile(e) PROVE ExecutionInv'
  BY <1>7 DEF NoProfile, Goto
<1>8. ASSUME NEW e \in Executions, Complete(e) PROVE ExecutionInv'
  BY <1>8 DEF Complete, Goto
<1>9. ASSUME NEW e \in Executions, Fail(e) PROVE ExecutionInv'
  BY <1>9 DEF Fail, Goto
<1>10. ASSUME NEW e \in Executions, MarkFailed(e) PROVE ExecutionInv'
  BY <1>10 DEF MarkFailed, Goto
<1>11. ASSUME NEW e \in Executions, Acknowledge(e) PROVE ExecutionInv'
  BY <1>11 DEF Acknowledge, Rest
<1>12. ASSUME NEW e \in Executions, ClaimFails(e) PROVE ExecutionInv'
  BY <1>12 DEF ClaimFails, Rest
<1>13. ASSUME NEW e \in Executions, MarkFails(e) PROVE ExecutionInv'
  BY <1>13 DEF MarkFails, Rest
<1>14. ASSUME NEW e \in Executions, TimeOut(e) PROVE ExecutionInv'
  BY <1>14 DEF TimeOut, Rollback, Rest
<1>15. ASSUME NEW e \in Executions, LoseWorker(e) PROVE ExecutionInv'
  BY <1>15 DEF LoseWorker, Rollback, Rest
<1>16. ASSUME NEW e \in Executions, Redeliver(e) PROVE ExecutionInv'
  BY <1>16 DEF Redeliver
<1>17. CASE UNCHANGED vars
  BY <1>17 DEF vars
<1> QED
  BY <1>1, <1>2, <1>3, <1>4, <1>5, <1>6, <1>7, <1>8, <1>9, <1>10, <1>11, <1>12, <1>13,
     <1>14, <1>15, <1>16, <1>17
  DEF Next, Start, Execute, Disturb

\* The initial state has no deliveries and no decided rows.
LEMMA InitCleanInv == Init => CleanInv
  BY SearchConstants
  DEF Init, CleanInv, OneDelivery, NeverQueued, Undecided, ResultsMeanCompleted, Clean, Terminal

\* Every step keeps the deliveries of clean searches single and their rows undecided
\* until the one delivery decides them.
LEMMA NextCleanInv == ExecutionInv /\ CleanInv /\ [Next]_vars => CleanInv'
<1> SUFFICES ASSUME ExecutionInv, CleanInv, [Next]_vars PROVE CleanInv'
  OBVIOUS
<1> USE SearchConstants
    DEF ExecutionInv, TypeOK, BusyInv, FreshInv, LockInv, CleanInv, OneDelivery, NeverQueued,
        Undecided, ResultsMeanCompleted, Clean, Terminal, row
<1>1. ASSUME NEW s \in Searches, CreateSearch(s) PROVE CleanInv'
  BY <1>1 DEF CreateSearch
<1>2. ASSUME NEW s \in Searches, Enqueue(s) PROVE CleanInv'
  BY <1>2 DEF Enqueue
<1>3. ASSUME NEW s \in Searches, MarkQueueFailed(s) PROVE CleanInv'
  BY <1>3 DEF MarkQueueFailed
<1>4. ASSUME NEW s \in Searches, CancelStart(s) PROVE CleanInv'
  BY <1>4 DEF CancelStart
<1>5. ASSUME NEW e \in Executions, NEW s \in Searches, Load(e, s) PROVE CleanInv'
  BY <1>5 DEF Load
<1>6. ASSUME NEW e \in Executions, Claim(e) PROVE CleanInv'
  BY <1>6 DEF Claim, Goto
<1>7. ASSUME NEW e \in Executions, NoProfile(e) PROVE CleanInv'
  BY <1>7 DEF NoProfile, Goto
<1>8. ASSUME NEW e \in Executions, Complete(e) PROVE CleanInv'
  BY <1>8 DEF Complete, Goto
<1>9. ASSUME NEW e \in Executions, Fail(e) PROVE CleanInv'
  BY <1>9 DEF Fail, Goto
<1>10. ASSUME NEW e \in Executions, MarkFailed(e) PROVE CleanInv'
  BY <1>10 DEF MarkFailed, Goto
<1>11. ASSUME NEW e \in Executions, Acknowledge(e) PROVE CleanInv'
  BY <1>11 DEF Acknowledge, Rest
<1>12. ASSUME NEW e \in Executions, ClaimFails(e) PROVE CleanInv'
  BY <1>12 DEF ClaimFails, Rest
<1>13. ASSUME NEW e \in Executions, MarkFails(e) PROVE CleanInv'
  BY <1>13 DEF MarkFails, Rest
<1>14. ASSUME NEW e \in Executions, TimeOut(e) PROVE CleanInv'
  BY <1>14 DEF TimeOut, Rollback, Rest
<1>15. ASSUME NEW e \in Executions, LoseWorker(e) PROVE CleanInv'
  BY <1>15 DEF LoseWorker, Rollback, Rest
<1>16. ASSUME NEW e \in Executions, Redeliver(e) PROVE CleanInv'
  BY <1>16 DEF Redeliver
<1>17. CASE UNCHANGED vars
  BY <1>17 DEF vars
<1> QED
  BY <1>1, <1>2, <1>3, <1>4, <1>5, <1>6, <1>7, <1>8, <1>9, <1>10, <1>11, <1>12, <1>13,
     <1>14, <1>15, <1>16, <1>17
  DEF Next, Start, Execute, Disturb

\* What start_search and the workers commit has its types: PROCESSING is never
\* committed, and arq delivers a job at most max_tries times.
THEOREM SearchTypes == Spec => []TypeOK
<1>1. ExecutionInv => TypeOK
  BY DEF ExecutionInv
<1> QED
  BY <1>1, InitExecutionInv, NextExecutionInv, PTL DEF Spec

\* A search that has result rows is COMPLETED, whichever workers are lost, whichever
\* transactions fail and however often its job is delivered again.
THEOREM ResultsAreOfCompleted == Spec => []ResultsMeanCompleted
<1>1. CleanInv => ResultsMeanCompleted
  BY DEF CleanInv
<1> QED
  BY <1>1, InitExecutionInv, NextExecutionInv, InitCleanInv, NextCleanInv, PTL DEF Spec

\* A final status is never replaced: the redelivery of a search that was decided is
\* dropped when it loads the row, and no other writer is left.
LEMMA FinalStep ==
  ExecutionInv /\ CleanInv /\ [Next]_vars
    => \A s \in Clean : status[s] \in Terminal => status'[s] = status[s]
<1> DEFINE Final == \A s \in Clean : status[s] \in Terminal => status'[s] = status[s]
<1> SUFFICES ASSUME ExecutionInv, CleanInv, [Next]_vars PROVE Final
  OBVIOUS
<1> USE SearchConstants
    DEF ExecutionInv, TypeOK, BusyInv, CleanInv, Undecided, Clean, Terminal, row
<1>1. ASSUME NEW s \in Searches, CreateSearch(s) PROVE Final
  BY <1>1 DEF CreateSearch
<1>2. ASSUME NEW s \in Searches, Enqueue(s) PROVE Final
  BY <1>2 DEF Enqueue
<1>3. ASSUME NEW s \in Searches, MarkQueueFailed(s) PROVE Final
  BY <1>3 DEF MarkQueueFailed
<1>4. ASSUME NEW s \in Searches, CancelStart(s) PROVE Final
  BY <1>4 DEF CancelStart
<1>5. ASSUME NEW e \in Executions, NEW s \in Searches, Load(e, s) PROVE Final
  BY <1>5 DEF Load
<1>6. ASSUME NEW e \in Executions, Claim(e) PROVE Final
  BY <1>6 DEF Claim, Goto
<1>7. ASSUME NEW e \in Executions, NoProfile(e) PROVE Final
  BY <1>7 DEF NoProfile, Goto
<1>8. ASSUME NEW e \in Executions, Complete(e) PROVE Final
  BY <1>8 DEF Complete, Goto
<1>9. ASSUME NEW e \in Executions, Fail(e) PROVE Final
  BY <1>9 DEF Fail, Goto
<1>10. ASSUME NEW e \in Executions, MarkFailed(e) PROVE Final
  BY <1>10 DEF MarkFailed, Goto
<1>11. ASSUME NEW e \in Executions, Acknowledge(e) PROVE Final
  BY <1>11 DEF Acknowledge, Rest
<1>12. ASSUME NEW e \in Executions, ClaimFails(e) PROVE Final
  BY <1>12 DEF ClaimFails, Rest
<1>13. ASSUME NEW e \in Executions, MarkFails(e) PROVE Final
  BY <1>13 DEF MarkFails, Rest
<1>14. ASSUME NEW e \in Executions, TimeOut(e) PROVE Final
  BY <1>14 DEF TimeOut, Rollback, Rest
<1>15. ASSUME NEW e \in Executions, LoseWorker(e) PROVE Final
  BY <1>15 DEF LoseWorker, Rollback, Rest
<1>16. ASSUME NEW e \in Executions, Redeliver(e) PROVE Final
  BY <1>16 DEF Redeliver
<1>17. CASE UNCHANGED vars
  BY <1>17 DEF vars
<1> QED
  BY <1>1, <1>2, <1>3, <1>4, <1>5, <1>6, <1>7, <1>8, <1>9, <1>10, <1>11, <1>12, <1>13,
     <1>14, <1>15, <1>16, <1>17
  DEF Next, Start, Execute, Disturb

\* A client that was shown a final status of a clean search is never shown another.
THEOREM FinalStatusStays == Spec => TerminalIsFinal
<1>1. ExecutionInv /\ CleanInv /\ [Next]_vars
        => [\A s \in Clean : status[s] \in Terminal => status'[s] = status[s]]_vars
  BY FinalStep
<1> QED
  BY <1>1, InitExecutionInv, NextExecutionInv, InitCleanInv, NextCleanInv, PTL
  DEF Spec, TerminalIsFinal
-----------------------------------------------------------------------------
(* What an execution finds.                                                *)

\* R orders the members of P strictly, any two of them.
StrictOrder(P, R) ==
  /\ \A a \in P : <<a, a>> \notin R
  /\ \A a, b \in P : a # b => <<a, b>> \in R \/ <<b, a>> \in R
  /\ \A a, b, c \in P : <<a, b>> \in R /\ <<b, c>> \in R => <<a, c>> \in R

\* Those of S that are before x.
Before(S, R, x) == {k \in S : <<k, x>> \in R}

InOrderList(s, S, R) ==
  /\ s \in [1 .. Cardinality(S) -> S]
  /\ \A i, j \in DOMAIN s : i < j => <<s[i], s[j]>> \in R

\* One that is before another has fewer before it.
LEMMA FewerBefore ==
  ASSUME NEW S, IsFiniteSet(S), NEW R, StrictOrder(S, R), NEW a \in S, NEW b \in S, <<a, b>> \in R
  PROVE  Cardinality(Before(S, R, a)) < Cardinality(Before(S, R, b))
<1>1. Before(S, R, a) \subseteq Before(S, R, b)
  BY DEF Before, StrictOrder
<1>2. a \in Before(S, R, b) /\ a \notin Before(S, R, a)
  BY DEF Before, StrictOrder
<1>3. Before(S, R, b) \in SUBSET S
  BY DEF Before
<1>4. IsFiniteSet(Before(S, R, b))
  BY <1>3, FS_Subset
<1>5. /\ IsFiniteSet(Before(S, R, a))
      /\ Cardinality(Before(S, R, a)) <= Cardinality(Before(S, R, b))
      /\ Cardinality(Before(S, R, a)) # Cardinality(Before(S, R, b))
  BY <1>1, <1>2, <1>4, FS_Subset
<1>6. Cardinality(Before(S, R, a)) \in Nat /\ Cardinality(Before(S, R, b)) \in Nat
  BY <1>4, <1>5, FS_CardinalityType
<1> QED BY <1>5, <1>6

\* So the number of those before it, and one more, is the place of each.
LEMMA ListExists ==
  ASSUME NEW S, IsFiniteSet(S), NEW R, StrictOrder(S, R)
  PROVE  \E s : InOrderList(s, S, R)
<1> DEFINE n == Cardinality(S)
           place == [x \in S |-> Cardinality(Before(S, R, x)) + 1]
<1>1. n \in Nat /\ Cardinality(S) = n /\ IsFiniteSet(1 .. n) /\ Cardinality(1 .. n) = n
  BY FS_CardinalityType, FS_Interval
<1>2. ASSUME NEW x \in S PROVE place[x] \in 1 .. n
  <2>1. Before(S, R, x) \in SUBSET (S \ {x})
    BY DEF Before, StrictOrder
  <2>2. IsFiniteSet(S \ {x}) /\ Cardinality(S \ {x}) = n - 1
    BY FS_RemoveElement
  <2>3. /\ IsFiniteSet(Before(S, R, x)) /\ Cardinality(Before(S, R, x)) <= n - 1
    BY <2>1, <2>2, FS_Subset
  <2>4. Cardinality(Before(S, R, x)) \in Nat
    BY <2>3, FS_CardinalityType
  <2> QED BY <1>1, <2>3, <2>4
<1>3. \A x, y \in S : <<x, y>> \in R => place[x] < place[y]
  <2> SUFFICES ASSUME NEW x \in S, NEW y \in S, <<x, y>> \in R PROVE place[x] < place[y]
    OBVIOUS
  <2>1. Cardinality(Before(S, R, x)) < Cardinality(Before(S, R, y))
    BY FewerBefore
  <2>2. place[x] = Cardinality(Before(S, R, x)) + 1 /\ place[y] = Cardinality(Before(S, R, y)) + 1
    OBVIOUS
  <2>3. \A z \in S : IsFiniteSet(Before(S, R, z))
    <3>1. \A z \in S : Before(S, R, z) \in SUBSET S
      BY DEF Before
    <3> QED BY <3>1, FS_Subset
  <2>4. Cardinality(Before(S, R, x)) \in Nat /\ Cardinality(Before(S, R, y)) \in Nat
    BY <2>3, FS_CardinalityType
  <2> QED BY <2>1, <2>2, <2>4
<1>4. place \in [S -> 1 .. n]
  BY <1>2
<1> HIDE DEF place, n
<1>5. place \in Injection(S, 1 .. n)
  <2>1. ASSUME NEW x \in S, NEW y \in S, x # y PROVE place[x] # place[y]
    <3>1. <<x, y>> \in R \/ <<y, x>> \in R
      BY <2>1 DEF StrictOrder
    <3>2. place[x] < place[y] \/ place[y] < place[x]
      BY <1>3, <3>1
    <3>3. place[x] \in Int /\ place[y] \in Int
      BY <1>1, <1>4
    <3> QED BY <3>2, <3>3
  <2> QED BY <1>4, <2>1 DEF Injection, IsInjective
<1>6. place \in Surjection(S, 1 .. n)
  BY <1>1, <1>5, FS_Injection
<1>7. \A i \in 1 .. n : \E x \in S : place[x] = i
  BY <1>6 DEF Surjection
<1> DEFINE s == [i \in 1 .. n |-> CHOOSE x \in S : place[x] = i]
<1>8. s \in [1 .. n -> S] /\ \A i \in 1 .. n : place[s[i]] = i
  BY <1>7
<1> HIDE DEF s
<1>9. ASSUME NEW i \in DOMAIN s, NEW j \in DOMAIN s, i < j PROVE <<s[i], s[j]>> \in R
  <2>1. i \in 1 .. n /\ j \in 1 .. n /\ s[i] \in S /\ s[j] \in S /\ place[s[i]] = i /\ place[s[j]] = j
    BY <1>8
  <2>2. s[i] # s[j] /\ ~(place[s[j]] < place[s[i]])
    BY <1>1, <1>9, <2>1
  <2>3. <<s[j], s[i]>> \notin R
    BY <1>3, <2>1, <2>2
  <2> QED BY <2>1, <2>2, <2>3 DEF StrictOrder
<1> QED BY <1>8, <1>9 DEF InOrderList, n

\* In a list in order, as many are before the one at place i as there are places.
LEMMA ListPlaces ==
  ASSUME NEW S, IsFiniteSet(S), NEW R, StrictOrder(S, R), NEW s, InOrderList(s, S, R)
  PROVE  /\ \A x \in S : \E i \in 1 .. Cardinality(S) : s[i] = x
         /\ \A i \in 1 .. Cardinality(S) : Cardinality(Before(S, R, s[i])) = i - 1
<1> DEFINE n == Cardinality(S)
<1>1. n \in Nat /\ Cardinality(S) = n /\ IsFiniteSet(1 .. n) /\ Cardinality(1 .. n) = n
  BY FS_CardinalityType, FS_Interval
<1>2. s \in [1 .. n -> S] /\ \A i, j \in 1 .. n : i < j => <<s[i], s[j]>> \in R
  BY DEF InOrderList
<1> HIDE DEF n
<1>3. ASSUME NEW i \in 1 .. n, NEW j \in 1 .. n, <<s[i], s[j]>> \in R PROVE i < j
  <2>1. s[i] \in S /\ s[j] \in S
    BY <1>2
  <2>2. <<s[i], s[i]>> \notin R
    BY <2>1 DEF StrictOrder
  <2>3. <<s[j], s[i]>> \notin R
    BY <1>3, <2>1, <2>2 DEF StrictOrder
  <2>4. i # j
    BY <1>3, <2>2
  <2>5. ~(j < i)
    BY <1>2, <2>3
  <2> QED BY <1>1, <2>4, <2>5
<1>4. ASSUME NEW i \in 1 .. n, NEW j \in 1 .. n, i # j PROVE s[i] # s[j]
  <2>1. i < j \/ j < i
    BY <1>1, <1>4
  <2>2. <<s[i], s[j]>> \in R \/ <<s[j], s[i]>> \in R
    BY <1>2, <2>1
  <2>3. s[i] \in S /\ s[j] \in S
    BY <1>2
  <2> QED BY <2>2, <2>3 DEF StrictOrder
<1>5. s \in Injection(1 .. n, S)
  BY <1>2, <1>4 DEF Injection, IsInjective
<1>6. s \in Surjection(1 .. n, S)
  BY <1>1, <1>5, FS_Injection
<1>7. \A x \in S : \E i \in 1 .. n : s[i] = x
  BY <1>6 DEF Surjection
<1>8. ASSUME NEW i \in 1 .. n PROVE Cardinality(Before(S, R, s[i])) = i - 1
  <2> DEFINE f == [k \in 1 .. i - 1 |-> s[k]]
             B == Before(S, R, s[i])
  <2>1. \A k \in 1 .. i - 1 : k \in 1 .. n /\ k < i
    BY <1>1
  <2>2. \A k \in 1 .. i - 1 : s[k] \in B
    BY <1>2, <2>1 DEF Before
  <2>3. \A x \in B : \E k \in 1 .. i - 1 : s[k] = x
    <3> SUFFICES ASSUME NEW x \in B PROVE \E k \in 1 .. i - 1 : s[k] = x
      OBVIOUS
    <3>1. x \in S /\ <<x, s[i]>> \in R
      BY DEF Before
    <3>2. PICK k \in 1 .. n : s[k] = x
      BY <1>7, <3>1
    <3>3. k < i
      BY <1>3, <3>1, <3>2
    <3> QED BY <1>1, <3>2, <3>3
  <2> HIDE DEF B
  <2>4. f \in [1 .. i - 1 -> B] /\ \A k \in 1 .. i - 1 : f[k] = s[k]
    BY <2>2
  <2> HIDE DEF f
  <2>5. f \in Injection(1 .. i - 1, B)
    BY <1>4, <2>1, <2>4 DEF Injection, IsInjective
  <2>6. f \in Surjection(1 .. i - 1, B)
    BY <2>3, <2>4 DEF Surjection
  <2>7. ExistsBijection(1 .. i - 1, B)
    BY <2>5, <2>6 DEF ExistsBijection, Bijection
  <2>8. IsFiniteSet(1 .. i - 1) /\ Cardinality(1 .. i - 1) = i - 1
    BY <1>1, FS_Interval
  <2>9. Cardinality(B) = i - 1
    BY <2>7, <2>8, FS_Bijection
  <2> QED BY <2>9 DEF B
<1> QED BY <1>7, <1>8 DEF n

LEMMA MinOfTwo ==
  ASSUME NEW a \in Nat, NEW b \in Nat
  PROVE  Min({a, b}) \in {a, b} /\ Min({a, b}) <= a /\ Min({a, b}) <= b
BY DEF Min

\* The first m of a list in order are those that fewer than m precede.
LEMMA FirstInOrder ==
  ASSUME NEW S, IsFiniteSet(S), NEW R, StrictOrder(S, R), NEW m \in Nat
  PROVE  LET res == FirstN(InOrder(S, R), m)
         IN /\ ToSet(res) = {x \in S : Cardinality(Before(S, R, x)) < m}
            /\ \A i \in DOMAIN res : res[i] \in S /\ Cardinality(Before(S, R, res[i])) = i - 1
<1> DEFINE s == InOrder(S, R)
           n == Cardinality(S)
           k == Min({m, Len(s)})
           res == SubSeq(s, 1, k)
<1>1. InOrderList(s, S, R)
  <2>1. \E t \in [1 .. Cardinality(S) -> S] : \A i, j \in DOMAIN t : i < j => <<t[i], t[j]>> \in R
    BY ListExists DEF InOrderList
  <2> QED BY <2>1 DEF InOrder, InOrderList
<1>2. n \in Nat
  BY FS_CardinalityType
<1> HIDE DEF s
<1>3. /\ \A x \in S : \E i \in 1 .. n : s[i] = x
      /\ \A i \in 1 .. n : Cardinality(Before(S, R, s[i])) = i - 1
  BY <1>1, ListPlaces
<1>4. s \in [1 .. n -> S]
  BY <1>1 DEF InOrderList
<1> HIDE DEF n
<1>5. s \in Seq(S) /\ Len(s) = n
  BY <1>2, <1>4
<1>6. k \in 0 .. n /\ \A i \in 1 .. n : i <= k <=> i <= m
  <2>1. k \in {m, n} /\ k <= m /\ k <= n
    BY <1>2, <1>5, MinOfTwo
  <2> HIDE DEF k
  <2> QED BY <1>2, <2>1
<1> HIDE DEF k
<1>7. DOMAIN res = 1 .. k /\ \A i \in 1 .. k : res[i] = s[i]
  BY <1>2, <1>5, <1>6
<1> HIDE DEF res
<1>8. \A i \in 1 .. k : i \in 1 .. n /\ s[i] \in S
  BY <1>2, <1>4, <1>6
<1>9. \A i \in DOMAIN res : res[i] \in S /\ Cardinality(Before(S, R, res[i])) = i - 1
  BY <1>3, <1>7, <1>8
<1>10. ToSet(res) = {x \in S : Cardinality(Before(S, R, x)) < m}
  <2>1. ToSet(res) = {res[i] : i \in DOMAIN res}
    BY DEF ToSet
  <2>2. ASSUME NEW i \in DOMAIN res PROVE Cardinality(Before(S, R, res[i])) < m
    <3>1. i \in 1 .. n /\ i <= m /\ Cardinality(Before(S, R, res[i])) = i - 1
      BY <1>2, <1>6, <1>7, <1>8, <1>9
    <3> QED BY <1>2, <3>1
  <2>3. ASSUME NEW x \in S, Cardinality(Before(S, R, x)) < m PROVE \E i \in DOMAIN res : res[i] = x
    <3>1. PICK i \in 1 .. n : s[i] = x
      BY <1>3
    <3>2. i - 1 < m
      BY <1>3, <2>3, <3>1
    <3>3. i \in 1 .. k
      BY <1>2, <1>6, <3>2
    <3> QED BY <1>7, <3>1, <3>3
  <2> QED BY <1>9, <2>1, <2>2, <2>3
<1>11. FirstN(InOrder(S, R), m) = res
  BY DEF FirstN, s, k, res
<1> QED BY <1>9, <1>10, <1>11

LEMMA MaxOfTwo ==
  ASSUME NEW a \in Int, NEW b \in Int
  PROVE  Max({a, b}) \in {a, b} /\ Max({a, b}) >= a /\ Max({a, b}) >= b
BY DEF Max

\* A larger number of equal parts is more.
LEMMA MoreParts ==
  ASSUME NEW q \in Nat, NEW k \in Nat, NEW d \in Nat, k <= d
  PROVE  q * k \in Nat /\ q * k <= q * d
<1>1. d - k \in Nat /\ d = k + (d - k)
  OBVIOUS
<1>2. q * d = q * k + q * (d - k)
  BY <1>1
<1>3. q * k \in Nat /\ q * (d - k) \in Nat
  BY <1>1
<1> QED BY <1>2, <1>3

\* The parts of a score.
LEMMA SkillsBounded ==
  ASSUME NEW c, NEW j \in Jobs
  PROVE  SkillsScore(c, j) \in 0 .. 30 * Scale
<1> DEFINE d == Cardinality(j.skills)
           k == Cardinality(j.skills \cap c.skills)
           full == 30 * Scale
           q == full \div d
<1>1. IsFiniteSet(j.skills) /\ full \in Nat
  BY MatchingConstants
<1>2. d \in Nat /\ k \in Nat /\ k <= d /\ (d = 0 <=> j.skills = {})
  BY <1>1, FS_CardinalityType, FS_Intersection, FS_EmptySet
<1>3. j.skills # {} => full % d = 0
  BY MatchingConstants
<1>4. SkillsScore(c, j) = IF j.skills = {} THEN 0 ELSE q * k
  BY DEF SkillsScore
<1> HIDE DEF d, k, full
<1>5. CASE j.skills = {}
  BY <1>1, <1>4, <1>5 DEF full
<1>6. CASE j.skills # {}
  <2>1. d \in Nat /\ d > 0 /\ full % d = 0
    BY <1>2, <1>3, <1>6
  <2>2. q \in Nat /\ q * d = full
    BY <1>1, <2>1
  <2>3. q * k \in Nat /\ q * k <= q * d
    <3> HIDE DEF q
    <3> QED BY <1>2, <2>2, MoreParts
  <2> HIDE DEF q
  <2> QED BY <1>1, <1>4, <1>6, <2>2, <2>3 DEF full
<1> QED BY <1>5, <1>6

LEMMA FreshnessBounded ==
  ASSUME NEW j \in Jobs, NEW now \in Nat
  PROVE  FreshnessScore(j, now) \in 0 .. 10 * Scale
<1> DEFINE time == IF j.posted # Unset THEN j.posted ELSE j.sourceSeen
           old == Max({0, now - time})
           full == 10 * Scale
<1>1. time \in Nat /\ full \in Nat
  BY MatchingConstants
<1>2. old \in Nat
  <2>1. \A x \in Int : Max({0, x}) \in {0, x} /\ Max({0, x}) >= 0
    <3>1. SUFFICES ASSUME NEW x \in Int
                   PROVE  Max({0, x}) \in {0, x} /\ Max({0, x}) >= 0
      OBVIOUS
    <3>2. 0 \in Int
      OBVIOUS
    <3> QED BY <3>2, MaxOfTwo
  <2>2. now - time \in Int
    BY <1>1
  <2> HIDE DEF time
  <2> QED BY <2>1, <2>2 DEF old
<1>3. Max({0, full - old}) \in 0 .. full
  <2> HIDE DEF old, full
  <2>1. full - old \in Int
    BY <1>1, <1>2
  <2>2. Max({0, full - old}) \in {0, full - old} /\ Max({0, full - old}) >= 0
    BY <2>1, MaxOfTwo
  <2> QED BY <1>1, <1>2, <2>2
<1> QED BY <1>3 DEF FreshnessScore, time, old, full

LEMMA ScoreIsPercentage ==
  ASSUME NEW c, NEW j \in Jobs, NEW now \in Nat
  PROVE  score_job(c, j, now) \in 0 .. 100 * Scale
<1>1. SkillsScore(c, j) \in 0 .. 30 * Scale /\ FreshnessScore(j, now) \in 0 .. 10 * Scale
  BY SkillsBounded, FreshnessBounded
<1>2. ExperienceScore(c, j) \in {0, 20 * Scale}
  BY DEF ExperienceScore
<1>3. LocationScore(c, j) \in {0, 10 * Scale}
  BY DEF LocationScore
<1>4. (IF j.role \in Compatible(c.role) THEN 30 * Scale ELSE 0) \in {0, 30 * Scale}
  OBVIOUS
<1>5. Scale \in Nat
  BY MatchingConstants
<1> QED BY <1>1, <1>2, <1>3, <1>4, <1>5 DEF score_job

LEMMA OrdersAreStrict ==
  ASSUME NEW c, NEW now \in Nat
  PROVE  StrictOrder(Jobs, ReadOrder) /\ StrictOrder(Jobs, RankOrder(c, now))
<1>1. \A a \in Jobs : a.id \in Nat /\ a.seen \in Nat /\ a.posted \in Nat \cup {Unset}
  BY MatchingConstants
<1>2. \A a, b \in Jobs : a # b => a.id # b.id
  BY MatchingConstants
<1>3. StrictOrder(Jobs, ReadOrder)
  <2> DEFINE time(a) == IF a.posted = Unset THEN -1 ELSE a.posted
  <2>1. \A a \in Jobs : time(a) \in Int
    BY <1>1
  <2>2. \A a, b \in Jobs : <<a, b>> \in ReadOrder <=>
          \/ time(a) > time(b)
          \/ time(a) = time(b) /\ (a.seen > b.seen \/ (a.seen = b.seen /\ a.id < b.id))
    BY DEF ReadOrder, ReadBefore
  <2> HIDE DEF time
  <2>3. \A a \in Jobs : <<a, a>> \notin ReadOrder
    BY <1>1, <2>1, <2>2
  <2>4. \A a, b \in Jobs : a # b => <<a, b>> \in ReadOrder \/ <<b, a>> \in ReadOrder
    BY <1>1, <1>2, <2>1, <2>2
  <2>5. \A a, b, d \in Jobs : <<a, b>> \in ReadOrder /\ <<b, d>> \in ReadOrder => <<a, d>> \in ReadOrder
    BY <1>1, <2>1, <2>2
  <2> QED BY <2>3, <2>4, <2>5 DEF StrictOrder
<1>4. StrictOrder(Jobs, RankOrder(c, now))
  <2> DEFINE score(a) == score_job(c, a, now)
             R == RankOrder(c, now)
  <2>1. \A a \in Jobs : score(a) \in Int
    BY ScoreIsPercentage
  <2>2. \A a, b \in Jobs : <<a, b>> \in R <=> score(a) > score(b) \/ (score(a) = score(b) /\ a.id < b.id)
    BY DEF RankOrder, RankedBefore
  <2> HIDE DEF score, R
  <2>3. \A a \in Jobs : <<a, a>> \notin R
    BY <1>1, <2>1, <2>2
  <2>4. \A a, b \in Jobs : a # b => <<a, b>> \in R \/ <<b, a>> \in R
    BY <1>1, <1>2, <2>1, <2>2
  <2>5. \A a, b, d \in Jobs : <<a, b>> \in R /\ <<b, d>> \in R => <<a, d>> \in R
    BY <1>1, <2>1, <2>2
  <2> QED BY <2>3, <2>4, <2>5 DEF StrictOrder, R
<1> QED BY <1>3, <1>4

\* What a search saves is what ResultsAreBest says, for every pool of jobs.
LEMMA BestResults ==
  ASSUME NEW pool \in SUBSET Jobs, NEW c, NEW w \in Wishes, NEW now \in Nat
  PROVE  ResultsAreBest(pool, c, w, now)
<1> DEFINE shown == Shown(pool, w.remote)
           read == {j \in shown : Cardinality({k \in shown : ReadBefore(k, j)}) < CandidateLimit}
           eligible == {j \in read : is_eligible(c, j)}
           before(j) == {k \in eligible : RankedBefore(c, now, k, j)}
           R == RankOrder(c, now)
           res == FirstN(InOrder(eligible, R), w.limit)
<1>1. \A S \in SUBSET Jobs : /\ IsFiniteSet(S)
                             /\ StrictOrder(S, ReadOrder) /\ StrictOrder(S, R)
  <2>1. StrictOrder(Jobs, ReadOrder) /\ StrictOrder(Jobs, R)
    BY OrdersAreStrict
  <2> HIDE DEF R
  <2>2. \A S \in SUBSET Jobs : StrictOrder(S, ReadOrder) /\ StrictOrder(S, R)
    BY <2>1 DEF StrictOrder
  <2>3. \A S \in SUBSET Jobs : IsFiniteSet(S)
    BY MatchingConstants, FS_Subset
  <2> QED BY <2>2, <2>3
<1>2. CandidateLimit \in Nat /\ w.limit \in Nat
  BY MatchingConstants
<1>3. shown \in SUBSET Jobs
  BY DEF Shown
<1>4. ToSet(Retrieve(pool, w.remote)) = read
  <2>1. ToSet(Retrieve(pool, w.remote)) = {j \in shown : Cardinality(Before(shown, ReadOrder, j)) < CandidateLimit}
    <3> HIDE DEF R, shown
    <3>1. ToSet(FirstN(InOrder(shown, ReadOrder), CandidateLimit)) =
            {j \in shown : Cardinality(Before(shown, ReadOrder, j)) < CandidateLimit}
      BY <1>1, <1>2, <1>3, FirstInOrder
    <3> QED BY <3>1 DEF Retrieve, shown
  <2> HIDE DEF shown
  <2>2. \A j \in shown : Before(shown, ReadOrder, j) = {k \in shown : ReadBefore(k, j)}
    BY <1>3 DEF Before, ReadOrder
  <2> QED BY <2>1, <2>2
<1>5. Results(pool, c, w, now) = res
  <2> HIDE DEF read
  <2> QED BY <1>4 DEF Results, rank_matches
<1> HIDE DEF shown
<1>6. eligible \in SUBSET Jobs
  BY <1>3
<1> HIDE DEF eligible
<1>7. \A j \in eligible : Before(eligible, R, j) = before(j)
  BY <1>6 DEF Before, RankOrder
<1> HIDE DEF R
<1>8. /\ ToSet(res) = {x \in eligible : Cardinality(Before(eligible, R, x)) < w.limit}
      /\ \A n \in DOMAIN res : res[n] \in eligible /\ Cardinality(Before(eligible, R, res[n])) = n - 1
  <2>1. IsFiniteSet(eligible) /\ StrictOrder(eligible, R)
    BY <1>1, <1>6
  <2> QED BY <1>2, <2>1, FirstInOrder
<1> HIDE DEF res
<1>9. ToSet(res) = {x \in eligible : Cardinality(before(x)) < w.limit}
  BY <1>7, <1>8
<1>10. \A n \in DOMAIN res : /\ Cardinality(before(res[n])) = n - 1
                             /\ score_job(c, res[n], now) \in 0 .. 100 * Scale
  BY <1>6, <1>7, <1>8, ScoreIsPercentage
<1> QED BY <1>5, <1>9, <1>10 DEF ResultsAreBest, eligible, shown

\* The search saves the best of the jobs that it may show, for every set of jobs with
\* distinct ids and every profile and search: the first CandidateLimit in the order of
\* the read, filtered, ranked and cut by execute, are those the definition names.
THEOREM BestAreFound == Spec => []SearchFindsBest
<1>1. SearchFindsBest
  <2>1. Today \in Nat
    BY MatchingConstants
  <2> QED BY <2>1, BestResults DEF SearchFindsBest
<1> QED BY <1>1, PTL

=============================================================================
