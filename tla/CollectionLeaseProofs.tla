------------------------ MODULE CollectionLeaseProofs ------------------------
(***************************************************************************)
(* Proof of NonOverlap for any number of jobs, targets and tries and for   *)
(* any task timeout, delivery lag and lock TTL that satisfy                *)
(* LeaseOutlivesTask.                                                      *)
(***************************************************************************)
EXTENDS CollectionLease, TLAPS

\* The lease of a running collection is its own and outlives the timeout.
Guarded ==
  \A j \in Jobs :
    pc[j] = "collecting" =>
      /\ lease[TargetOf[j]] = Token(j)
      /\ left[TargetOf[j]] + age[j] >= LockTtl

\* A release script that outlived its task belongs to a try that is over.
DetachedAreOver ==
  \A j \in Jobs : Token(j) \in detached => pc[j] = "done"

\* No token of a try to come is in use.
DetachedArePast ==
  \A k \in detached : k[2] <= try[k[1]]

IInv == TypeOK /\ Guarded /\ DetachedAreOver /\ DetachedArePast

USE DEF Running, Results

\* Tokens of different jobs, and of different tries, differ.
LEMMA TokenFacts ==
  ASSUME TypeOK
  PROVE  /\ \A j \in Jobs : Token(j) \in Tokens /\ Token(j) # None
         /\ \A i, j \in Jobs : Token(i) = Token(j) => i = j
BY NoneAssumption DEF Token, TypeOK, Tokens

\* Initially nothing is held and nothing detached.
LEMMA InitIInv == Init => IInv
BY TriesAssumption, TimesAssumption
DEF Init, IInv, TypeOK, Guarded, DetachedAreOver, DetachedArePast, Tokens

\* Every step of a job, every late release and every tick keep the types.
LEMMA NextTypeOK == TypeOK /\ [Next]_vars => TypeOK'
<1> SUFFICES ASSUME TypeOK, [Next]_vars PROVE TypeOK'
  OBVIOUS
<1> USE TargetAssumption, TriesAssumption, TimesAssumption DEF TypeOK
<1>1. ASSUME NEW j \in Jobs, Start(j) PROVE TypeOK'
  BY <1>1 DEF Start, Goto
<1>2. ASSUME NEW j \in Jobs, AcquireLease(j) PROVE TypeOK'
  BY <1>2, TokenFacts DEF AcquireLease, SetNx, Goto
<1>3. ASSUME NEW j \in Jobs, Collect(j) PROVE TypeOK'
  BY <1>3 DEF Collect, Goto
<1>4. ASSUME NEW j \in Jobs, ReleaseLease(j) PROVE TypeOK'
  BY <1>4 DEF ReleaseLease, CompareAndDelete, Finish, Goto
<1>5. ASSUME NEW j \in Jobs, NEW why \in {"timeout", "lost"}, Interrupt(j, why)
      PROVE  TypeOK'
  BY <1>5, TokenFacts DEF Interrupt, SetNx, Finish, Goto
<1>6. ASSUME NEW j \in Jobs, LoseWorker(j) PROVE TypeOK'
  BY <1>6 DEF LoseWorker, Finish, Goto
<1>7. ASSUME NEW k \in detached, LateRelease(k) PROVE TypeOK'
  BY <1>7 DEF LateRelease, CompareAndDelete
<1>8. ASSUME Tick PROVE TypeOK'
  BY <1>8 DEF Tick
<1>9. CASE UNCHANGED vars
  BY <1>9 DEF vars
<1> QED
  BY <1>1, <1>2, <1>3, <1>4, <1>5, <1>6, <1>7, <1>8, <1>9 DEF Next, TimeOut, ShutDown

\* The inductive step of the lease argument.
LEMMA NextIInv == IInv /\ [Next]_vars => IInv'
<1> SUFFICES ASSUME IInv, [Next]_vars PROVE (Guarded /\ DetachedAreOver /\ DetachedArePast)'
  BY NextTypeOK DEF IInv
<1> USE TargetAssumption, TriesAssumption, TimesAssumption, TokenFacts, NextTypeOK
    DEF IInv, Guarded, DetachedAreOver, DetachedArePast, Token
<1>0. TypeOK /\ TypeOK'
  OBVIOUS
<1>1. ASSUME NEW j \in Jobs, Start(j) PROVE (Guarded /\ DetachedAreOver /\ DetachedArePast)'
  BY <1>0, <1>1 DEF Start, Goto, TypeOK
<1>2. ASSUME NEW j \in Jobs, AcquireLease(j)
      PROVE  (Guarded /\ DetachedAreOver /\ DetachedArePast)'
  <2>1. UNCHANGED <<try, age, detached>> /\ pc[j] = "starting"
    BY <1>2 DEF AcquireLease
  <2>2. \A i \in Jobs : i # j => pc'[i] = pc[i]
    BY <1>0, <1>2 DEF AcquireLease, Goto, TypeOK
  <2>3. \A t \in Targets : lease[t] # None => lease'[t] = lease[t] /\ left'[t] = left[t]
    BY <1>0, <1>2 DEF AcquireLease, SetNx, TypeOK
  <2>4. pc'[j] = "collecting" =>
          lease'[TargetOf[j]] = Token(j) /\ left'[TargetOf[j]] = LockTtl
    BY <1>0, <1>2 DEF AcquireLease, SetNx, Goto, TypeOK
  <2>5. Guarded'
    <3> SUFFICES ASSUME NEW i \in Jobs, pc'[i] = "collecting"
                 PROVE  /\ lease'[TargetOf[i]] = <<i, try[i]>>
                        /\ left'[TargetOf[i]] + age[i] >= LockTtl
      BY <2>1
    <3>1. TargetOf[i] \in Targets /\ age[i] \in Nat
      BY <1>0 DEF TypeOK
    <3>2. CASE i = j
      BY <2>4, <3>1, <3>2
    <3>3. CASE i # j
      <4>1. lease[TargetOf[i]] = <<i, try[i]>> /\ left[TargetOf[i]] + age[i] >= LockTtl
        BY <2>2, <3>3
      <4>2. lease[TargetOf[i]] # None
        BY <1>0, <4>1
      <4> QED
        BY <2>3, <3>1, <4>1, <4>2
    <3> QED
      BY <3>2, <3>3
  <2>6. (DetachedAreOver /\ DetachedArePast)'
    BY <1>0, <2>1, <2>2
  <2> QED
    BY <2>5, <2>6
<1>3. ASSUME NEW j \in Jobs, Collect(j) PROVE (Guarded /\ DetachedAreOver /\ DetachedArePast)'
  BY <1>0, <1>3 DEF Collect, Goto, TypeOK
<1>4. ASSUME NEW j \in Jobs, ReleaseLease(j)
      PROVE  (Guarded /\ DetachedAreOver /\ DetachedArePast)'
  BY <1>0, <1>4 DEF ReleaseLease, CompareAndDelete, Finish, Goto, TypeOK, Tokens
<1>5. ASSUME NEW j \in Jobs, NEW why \in {"timeout", "lost"}, Interrupt(j, why)
      PROVE  (Guarded /\ DetachedAreOver /\ DetachedArePast)'
  BY <1>0, <1>5 DEF Interrupt, SetNx, Finish, Goto, TypeOK, Tokens
<1>6. ASSUME NEW j \in Jobs, LoseWorker(j)
      PROVE  (Guarded /\ DetachedAreOver /\ DetachedArePast)'
  BY <1>0, <1>6 DEF LoseWorker, Finish, Goto, TypeOK, Tokens
<1>7. ASSUME NEW k \in detached, LateRelease(k)
      PROVE  (Guarded /\ DetachedAreOver /\ DetachedArePast)'
  BY <1>0, <1>7 DEF LateRelease, CompareAndDelete, TypeOK, Tokens
<1>8. ASSUME Tick PROVE (Guarded /\ DetachedAreOver /\ DetachedArePast)'
  BY <1>0, <1>8, LeaseOutlivesTask DEF Tick, TypeOK
<1>9. CASE UNCHANGED vars
  BY <1>9 DEF vars
<1> QED
  BY <1>1, <1>2, <1>3, <1>4, <1>5, <1>6, <1>7, <1>8, <1>9 DEF Next, TimeOut, ShutDown

\* The invariant says what NonOverlap says.
LEMMA IInvNonOverlap == IInv => NonOverlap
BY TargetAssumption, TimesAssumption, LeaseOutlivesTask, TokenFacts
DEF IInv, Guarded, NonOverlap, TypeOK

\* run_job_collection never runs twice at a time for a target, and a run that is
\* inside the collector owns the target's lease.
THEOREM CollectionsDoNotOverlap == Spec => [](TypeOK /\ NonOverlap)
<1>1. IInv => TypeOK /\ NonOverlap
  BY IInvNonOverlap DEF IInv
<1> QED
  BY <1>1, InitIInv, NextIInv, PTL DEF Spec
=============================================================================
