---------------------- MODULE CollectionSchedulerProofs ----------------------
(***************************************************************************)
(* Proofs about CollectionScheduler, for any profiles, queries, batch,     *)
(* interval and number of cron jobs.                                       *)
(*                                                                         *)
(* Only the cron job that claimed the interval enqueues, and it ends       *)
(* before the next claim (ClaimInv, OneInv).  So what it enqueues is at    *)
(* most MaxAge younger than its claim (SinceInv), and the next claim comes *)
(* an interval later.  Its own ids are known to arq as long as it runs     *)
(* (FirstInv), because its time is in the current window or the one before *)
(* (ClockInv) and they are younger than the time arq keeps them.           *)
(***************************************************************************)
EXTENDS CollectionScheduler, TLAPS

Period == Windows * Interval

\* The time that a cron job has read is as old as the cron job.
ClockInv == \A c \in Crons : pc[c] # "idle" => clock = (now[c] + age[c]) % Period

\* A cron job that enqueues has claimed the interval since it began.
ClaimInv == \A c \in Crons : pc[c] = "enqueue" => due + age[c] >= Interval

\* One cron job enqueues at a time.
OneInv == \A c, d \in Crons : pc[c] = "enqueue" /\ pc[d] = "enqueue" => c = d

\* A target was enqueued at most MaxAge later than the last claim.
SinceInv == \A t \in Targets : since[t] + due + MaxAge >= Interval

\* A cron job that enqueues finds a target due, or has enqueued it itself and its id known.
FirstInv ==
  \A c \in Crons : pc[c] = "enqueue" =>
    \A t \in Targets :
      \/ since[t] >= Interval - MaxAge
      \/ since[t] <= age[c] /\ <<t, Window(now[c])>> \in known

CadenceInv == TypeOK /\ ClockInv /\ ClaimInv /\ OneInv /\ SinceInv /\ FirstInv

-----------------------------------------------------------------------------
(* Time.                                                                   *)

\* The constants as numbers.
LEMMA Numbers ==
  /\ MaxQueries \in Nat \ {0} /\ Batch \in Nat \ {0} /\ Interval \in Nat \ {0}
  /\ MaxAge \in Nat /\ MaxAge < Interval /\ KeepResult \in Nat /\ MaxAge < KeepResult
  /\ Windows \in Nat /\ Windows > 2
  BY SchedulerConstants

\* A period is some number of minutes, at least one interval.
LEMMA PeriodIsNat == Period \in Nat /\ Period >= Interval /\ Period > 0
<1>1. \A w, i \in Nat \ {0} : w * i \in Nat /\ w * i >= i /\ w * i > 0
  OBVIOUS
<1> QED
  BY <1>1, Numbers DEF Period

\* A time of the period lies in one of its windows.
LEMMA WindowOf ==
  ASSUME NEW m \in 0 .. Period - 1
  PROVE  /\ Window(m) \in 0 .. Windows - 1
         /\ Interval * Window(m) <= m /\ m < Interval * Window(m) + Interval
<1> DEFINE q == m \div Interval
<1>1. q \in Nat /\ Interval * q <= m /\ m < Interval * q + Interval
  BY Numbers, PeriodIsNat
<1>2. q < Windows
  <2>1. ASSUME q >= Windows PROVE FALSE
    <3>1. Interval * q >= Interval * Windows
      BY <1>1, <2>1, Numbers
    <3> QED
      BY <1>1, <3>1, Numbers DEF Period
  <2> QED
    BY <1>1, <2>1, Numbers
<1>3. Window(m) = q
  BY <1>1, <1>2, Numbers DEF Window
<1> QED
  BY <1>1, <1>2, <1>3, Numbers

\* The remainder follows the number.
LEMMA ModNext ==
  ASSUME NEW m \in Nat, NEW n \in Nat, n > 0 PROVE ((m % n) + 1) % n = (m + 1) % n
<1> DEFINE q == m \div n
           r == m % n
<1>1. q \in Nat /\ r \in 0 .. n - 1 /\ m = n * q + r
  OBVIOUS
<1> HIDE DEF q, r
<1>2. CASE r + 1 < n
  <2>1. (r + 1) % n = r + 1
    BY <1>1, <1>2
  <2>2. (m + 1) % n = r + 1
    BY <1>1, <1>2
  <2> QED
    BY <2>1, <2>2 DEF r
<1>3. CASE r + 1 = n
  <2>1. (r + 1) % n = 0
    BY <1>1, <1>3
  <2>2. m + 1 = n * (q + 1)
    BY <1>1, <1>3
  <2>3. (m + 1) % n = 0
    BY <1>1, <2>2
  <2> QED
    BY <2>1, <2>3 DEF r
<1> QED
  BY <1>1, <1>2, <1>3

\* Before an interval is over, the window is the same or the next one.
LEMMA WindowStep ==
  ASSUME NEW m \in 0 .. Period - 1, NEW a \in 0 .. Interval - 1
  PROVE  (Window((m + a) % Period) - Window(m)) % Windows < 2
<1> DEFINE n == (m + a) % Period
           q == Window(m)
           r == Window(n)
<1>1. n \in 0 .. Period - 1 /\ (n = m + a \/ (n = m + a - Period /\ m + a >= Period))
  BY Numbers, PeriodIsNat
<1>2. /\ q \in 0 .. Windows - 1 /\ Interval * q <= m /\ m < Interval * q + Interval
      /\ r \in 0 .. Windows - 1 /\ Interval * r <= n /\ n < Interval * r + Interval
  BY <1>1, WindowOf
<1> HIDE DEF n, q, r
<1>3. ASSUME n = m + a PROVE (r - q) % Windows < 2
  <2>1. Interval * r < Interval * (q + 2) /\ Interval * (r + 1) > Interval * q
    BY <1>2, <1>3, Numbers, PeriodIsNat
  <2>2. r < q + 2 /\ r + 1 > q
    BY <1>2, <2>1, Numbers
  <2>3. r - q = 0 \/ r - q = 1
    BY <1>2, <2>2, Numbers
  <2> QED
    BY <2>3, Numbers
<1>4. ASSUME n = m + a - Period, m + a >= Period PROVE (r - q) % Windows < 2
  <2>1. Interval * r < Interval /\ Interval * (q + 2) > Interval * Windows
    BY <1>2, <1>4, Numbers, PeriodIsNat DEF Period
  <2>2. r = 0 /\ q = Windows - 1
    BY <1>2, <2>1, Numbers
  <2>3. r - q = 1 - Windows /\ (1 - Windows) % Windows = 1
    BY <2>2, Numbers
  <2> QED
    BY <2>3
<1>5. (r - q) % Windows < 2
  BY <1>1, <1>3, <1>4
<1> QED
  BY <1>5 DEF n, q, r


-----------------------------------------------------------------------------
(* Types.                                                                  *)

\* SeqOf holds the sequences up to a length.
LEMMA SeqOfIsSeq ==
  ASSUME NEW S, NEW n \in Nat, NEW s
  PROVE  s \in SeqOf(S, n) <=> s \in Seq(S) /\ Len(s) <= n
<1>1. ASSUME s \in SeqOf(S, n) PROVE s \in Seq(S) /\ Len(s) <= n
  <2>1. PICK m \in 0 .. n : s \in [1 .. m -> S]
    BY <1>1 DEF SeqOf
  <2>2. s \in Seq(S) /\ Len(s) = m
    BY <2>1
  <2> QED
    BY <2>1, <2>2
<1>2. ASSUME s \in Seq(S), Len(s) <= n PROVE s \in SeqOf(S, n)
  <2>1. Len(s) \in 0 .. n /\ s \in [1 .. Len(s) -> S]
    BY <1>2
  <2> QED
    BY <2>1 DEF SeqOf
<1> QED
  BY <1>1, <1>2

\* The batch behind any cursor is a list of targets, not longer than the whole list.
LEMMA SelectedTyped ==
  ASSUME NEW list \in SeqOf(Targets, MaxQueries), NEW start,
         Batch < Len(list) => start \in Nat
  PROVE  Selected(list, start) \in SeqOf(Targets, MaxQueries)
<1>1. list \in Seq(Targets) /\ Len(list) <= MaxQueries
  BY Numbers, SeqOfIsSeq
<1>2. CASE Batch >= Len(list)
  BY <1>2 DEF Selected
<1>3. CASE Batch < Len(list)
  <2> DEFINE at(i) == ((start + i - 1) % Len(list)) + 1
             batch == [i \in 1 .. Batch |-> list[at(i)]]
  <2>1. Selected(list, start) = batch
    BY <1>1, <1>3, Numbers DEF Selected
  <2>2. ASSUME NEW i \in 1 .. Batch PROVE list[at(i)] \in Targets
    <3>1. start + i - 1 \in Nat /\ Len(list) \in Nat \ {0}
      BY <1>1, <1>3, <2>2, Numbers
    <3>2. (start + i - 1) % Len(list) \in 0 .. Len(list) - 1
      BY <3>1
    <3>3. at(i) \in 1 .. Len(list)
      BY <3>1, <3>2
    <3> QED
      BY <1>1, <3>3
  <2>3. batch \in [1 .. Batch -> Targets]
    BY <2>2
  <2>4. Batch \in 0 .. MaxQueries
    BY <1>1, <1>3, Numbers
  <2> QED
    BY <2>1, <2>3, <2>4 DEF SeqOf
<1> QED
  BY <1>1, <1>2, <1>3, Numbers

\* The rotation keeps the cursor within the longest list.
LEMMA RotationTyped ==
  ASSUME NEW list \in SeqOf(Targets, MaxQueries), cursor \in 0 .. MaxQueries - 1,
         RotateQueries(list) \/ UNCHANGED cursor
  PROVE  cursor' \in 0 .. MaxQueries - 1
<1>1. list \in Seq(Targets) /\ Len(list) \in Nat /\ Len(list) <= MaxQueries
  BY Numbers, SeqOfIsSeq
<1>2. CASE UNCHANGED cursor
  BY <1>2
<1>3. CASE Batch < Len(list) /\ cursor' = NextOffset(cursor % Len(list), Len(list))
  <2>1. cursor % Len(list) \in Nat /\ Len(list) > 0
    BY <1>1, <1>3, Numbers
  <2>2. cursor' = ((cursor % Len(list)) + Batch) % Len(list)
    BY <1>3 DEF NextOffset
  <2>3. cursor' \in 0 .. Len(list) - 1
    BY <1>1, <2>1, <2>2, Numbers
  <2> QED
    BY <1>1, <2>3, Numbers
<1> QED
  BY <1>1, <1>2, <1>3, Numbers DEF RotateQueries

\* What a claim does.
LEMMA ClaimStep ==
  ASSUME TypeOK, NEW c \in Crons, Claim(c)
  PROVE  /\ pc[c] = "claim" /\ due = 0 /\ due' = Interval
         /\ cursor' \in 0 .. MaxQueries - 1
         /\ pc' = [pc EXCEPT ![c] = "enqueue"]
         /\ todo' \in [Crons -> SeqOf(Targets, MaxQueries)]
         /\ UNCHANGED <<now, age, clock, targets, known, since>>
<1> DEFINE list == todo[c]
<1>1. list \in SeqOf(Targets, MaxQueries) /\ cursor \in 0 .. MaxQueries - 1
  BY DEF TypeOK
<1>2. /\ pc[c] = "claim" /\ due = 0 /\ due' = Interval
      /\ UNCHANGED <<clock, targets, known, since>>
      /\ RotateQueries(list) \/ UNCHANGED cursor
      /\ Proceed(c, Selected(list, cursor % Len(list))) \/ Proceed(c, Selected(list, 0))
  BY DEF Claim, SetDue
<1>3. cursor' \in 0 .. MaxQueries - 1
  BY <1>1, <1>2, RotationTyped
<1>4. Selected(list, 0) \in SeqOf(Targets, MaxQueries)
  BY <1>1, SelectedTyped
<1>5. Selected(list, cursor % Len(list)) \in SeqOf(Targets, MaxQueries)
  <2>1. Len(list) \in Nat
    BY <1>1, SeqOfIsSeq, Numbers
  <2>2. Batch < Len(list) => cursor % Len(list) \in Nat
    <3>1. \A m, n \in Nat : n > 0 => m % n \in Nat
      OBVIOUS
    <3>2. cursor \in Nat
      BY <1>1, Numbers
    <3> HIDE DEF list
    <3> QED
      BY <2>1, <3>1, <3>2, Numbers
  <2> QED
    BY <1>1, <2>2, SelectedTyped
<1>6. PICK batch \in SeqOf(Targets, MaxQueries) : Proceed(c, batch)
  BY <1>2, <1>4, <1>5
<1> QED
  BY <1>2, <1>3, <1>6 DEF Proceed, TypeOK

\* What an enqueue does: the id of the next target, unless it is known or fails.
LEMMA EnqueueStep ==
  ASSUME TypeOK, NEW c \in Crons, Enqueue(c)
  PROVE  /\ pc[c] = "enqueue" /\ pc' = [pc EXCEPT ![c] = "enqueue"]
         /\ todo' \in [Crons -> SeqOf(Targets, MaxQueries)]
         /\ UNCHANGED <<now, age, clock, due, cursor, targets>>
         /\ \/ UNCHANGED <<known, since>>
            \/ \E t \in Targets :
                 /\ <<t, Window(now[c])>> \notin known
                 /\ known' = known \cup {<<t, Window(now[c])>>}
                 /\ since' = [since EXCEPT ![t] = 0]
<1>1. todo[c] \in Seq(Targets) /\ Len(todo[c]) <= MaxQueries /\ todo[c] # <<>>
  BY Numbers, SeqOfIsSeq DEF TypeOK, Enqueue
<1>2. /\ Head(todo[c]) \in Targets /\ Tail(todo[c]) \in Seq(Targets)
      /\ Len(Tail(todo[c])) <= MaxQueries
  BY <1>1, Numbers
<1>3. Tail(todo[c]) \in SeqOf(Targets, MaxQueries)
  BY <1>2, Numbers, SeqOfIsSeq
<1>4. Proceed(c, Tail(todo[c])) /\ pc[c] = "enqueue" /\ UNCHANGED <<clock, due, cursor, targets>>
  BY DEF Enqueue
<1>5. \/ UNCHANGED <<known, since>>
      \/ /\ <<Head(todo[c]), Window(now[c])>> \notin known
         /\ known' = known \cup {<<Head(todo[c]), Window(now[c])>>}
         /\ since' = [since EXCEPT ![Head(todo[c])] = 0]
  BY DEF Enqueue
<1> QED
  BY <1>2, <1>3, <1>4, <1>5 DEF Proceed, TypeOK

\* Every step keeps the types.
LEMMA NextTypes == TypeOK /\ [Next]_vars => TypeOK'
<1> SUFFICES ASSUME TypeOK, [Next]_vars PROVE TypeOK'
  OBVIOUS
<1>e. <<>> \in SeqOf(Targets, MaxQueries)
  <2>1. <<>> \in [1 .. 0 -> Targets] /\ 0 \in 0 .. MaxQueries
    BY Numbers
  <2> QED
    BY <2>1 DEF SeqOf
<1>r. ASSUME NEW c \in Crons, Rest(c)
      PROVE  /\ pc' \in [Crons -> {"idle", "claim", "enqueue"}]
             /\ now' \in [Crons -> 0 .. Windows * Interval - 1] /\ age' \in [Crons -> 0 .. MaxAge]
             /\ todo' \in [Crons -> SeqOf(Targets, MaxQueries)]
  <2>1. 0 \in 0 .. Windows * Interval - 1 /\ 0 \in 0 .. MaxAge
    BY PeriodIsNat, Numbers DEF Period
  <2> QED
    BY <1>e, <1>r, <2>1 DEF Rest, TypeOK
<1>1. ASSUME NEW c \in Crons, Begin(c) PROVE TypeOK'
  BY <1>1, Numbers DEF Begin, TypeOK
<1>2. ASSUME NEW c \in Crons, NotDue(c) PROVE TypeOK'
  BY <1>2, <1>r DEF NotDue, TypeOK
<1>3. ASSUME NEW c \in Crons, Claim(c) PROVE TypeOK'
  BY <1>3, ClaimStep, Numbers DEF TypeOK
<1>4. ASSUME NEW c \in Crons, Enqueue(c) PROVE TypeOK'
  <2>1. Window(now[c]) \in 0 .. Windows - 1
    BY WindowOf DEF TypeOK, Period
  <2>2. known' \subseteq Targets \X (0 .. Windows - 1) /\ since' \in [Targets -> 0 .. Interval]
    <3>1. known \subseteq Targets \X (0 .. Windows - 1) /\ since \in [Targets -> 0 .. Interval]
      BY DEF TypeOK
    <3>2. CASE UNCHANGED <<known, since>>
      BY <3>1, <3>2
    <3>3. ASSUME NEW t \in Targets, known' = known \cup {<<t, Window(now[c])>>},
                 since' = [since EXCEPT ![t] = 0]
          PROVE  known' \subseteq Targets \X (0 .. Windows - 1) /\ since' \in [Targets -> 0 .. Interval]
      <4>1. <<t, Window(now[c])>> \in Targets \X (0 .. Windows - 1)
        BY <2>1
      <4>2. 0 \in 0 .. Interval
        BY Numbers
      <4> QED
        BY <3>1, <3>3, <4>1, <4>2
    <3> QED
      BY <1>4, <3>2, <3>3, EnqueueStep
  <2> QED
    BY <1>4, <2>2, EnqueueStep DEF TypeOK
<1>5. ASSUME NEW c \in Crons, End(c) PROVE TypeOK'
  BY <1>5, <1>r DEF End, TypeOK
<1>6. ASSUME NEW c \in Crons, Crash(c) PROVE TypeOK'
  BY <1>6, <1>r DEF Crash, TypeOK
<1>7. CASE ChangeProfiles
  BY <1>7 DEF ChangeProfiles, BuildTargets, TypeOK, cron
<1>8. CASE Tick
  <2>1. clock' \in 0 .. Windows * Interval - 1
    BY <1>8, PeriodIsNat DEF Tick, TypeOK, Period
  <2>2. due' \in 0 .. Interval
    BY <1>8, Numbers DEF Tick, TypeOK
  <2>3. age' \in [Crons -> 0 .. MaxAge]
    BY <1>8, Numbers DEF Tick, TypeOK
  <2>4. since' \in [Targets -> 0 .. Interval]
    BY <1>8, Numbers DEF Tick, TypeOK
  <2>5. known' \subseteq known
    BY <1>8 DEF Tick
  <2> QED
    BY <1>8, <2>1, <2>2, <2>3, <2>4, <2>5 DEF Tick, TypeOK
<1>9. CASE UNCHANGED vars
  BY <1>9 DEF vars, cron, TypeOK
<1> QED
  BY <1>1, <1>2, <1>3, <1>4, <1>5, <1>6, <1>7, <1>8, <1>9 DEF Next, Step


-----------------------------------------------------------------------------
(* The cadence.                                                            *)

\* A cron job ages with the clock.
LEMMA NextClockInv == TypeOK /\ ClockInv /\ [Next]_vars => ClockInv'
<1> SUFFICES ASSUME TypeOK, ClockInv, [Next]_vars PROVE ClockInv'
  OBVIOUS
<1>w. \A a \in Crons : now[a] \in 0 .. Period - 1 /\ age[a] \in Nat
  BY Numbers DEF TypeOK, Period
<1> USE DEF TypeOK, ClockInv
<1>1. ASSUME NEW c \in Crons, Begin(c) PROVE ClockInv'
  <2>1. clock \in 0 .. Period - 1
    BY DEF Period
  <2>2. (clock + 0) % Period = clock
    BY <2>1, PeriodIsNat
  <2> QED
    BY <1>1, <2>2 DEF Begin
<1>2. ASSUME NEW c \in Crons, NotDue(c) PROVE ClockInv'
  BY <1>2 DEF NotDue, Rest
<1>3. ASSUME NEW c \in Crons, Claim(c) PROVE ClockInv'
  BY <1>3, ClaimStep
<1>4. ASSUME NEW c \in Crons, Enqueue(c) PROVE ClockInv'
  BY <1>4, EnqueueStep
<1>5. ASSUME NEW c \in Crons, End(c) PROVE ClockInv'
  BY <1>5 DEF End, Rest
<1>6. ASSUME NEW c \in Crons, Crash(c) PROVE ClockInv'
  BY <1>6 DEF Crash, Rest
<1>7. CASE ChangeProfiles
  BY <1>7 DEF ChangeProfiles, cron
<1>8. CASE Tick
  <2> SUFFICES ASSUME NEW c \in Crons, pc'[c] # "idle"
               PROVE  clock' = (now'[c] + age'[c]) % Period
    OBVIOUS
  <2>1. /\ clock = (now[c] + age[c]) % Period /\ clock' = (clock + 1) % Period
        /\ now'[c] = now[c] /\ age'[c] = age[c] + 1
    BY <1>8 DEF Tick, Period
  <2>2. PICK m \in Nat : m = now[c] + age[c]
    BY <1>w, PeriodIsNat
  <2>3. ((m % Period) + 1) % Period = (m + 1) % Period
    BY PeriodIsNat, ModNext
  <2>4. now'[c] + age'[c] = m + 1
    BY <1>w, <2>1, <2>2, PeriodIsNat
  <2> QED
    BY <2>1, <2>2, <2>3, <2>4
<1>9. CASE UNCHANGED vars
  BY <1>9 DEF vars, cron
<1> QED
  BY <1>1, <1>2, <1>3, <1>4, <1>5, <1>6, <1>7, <1>8, <1>9 DEF Next, Step

\* The claim of a cron job is younger than the cron job.
LEMMA NextClaimInv == TypeOK /\ ClaimInv /\ [Next]_vars => ClaimInv'
<1> SUFFICES ASSUME TypeOK, ClaimInv, [Next]_vars PROVE ClaimInv'
  OBVIOUS
<1> USE Numbers DEF TypeOK, ClaimInv
<1>1. ASSUME NEW c \in Crons, Begin(c) PROVE ClaimInv'
  BY <1>1 DEF Begin
<1>2. ASSUME NEW c \in Crons, NotDue(c) PROVE ClaimInv'
  BY <1>2 DEF NotDue, Rest
<1>3. ASSUME NEW c \in Crons, Claim(c) PROVE ClaimInv'
  BY <1>3, ClaimStep
<1>4. ASSUME NEW c \in Crons, Enqueue(c) PROVE ClaimInv'
  BY <1>4, EnqueueStep
<1>5. ASSUME NEW c \in Crons, End(c) PROVE ClaimInv'
  BY <1>5 DEF End, Rest
<1>6. ASSUME NEW c \in Crons, Crash(c) PROVE ClaimInv'
  BY <1>6 DEF Crash, Rest
<1>7. CASE ChangeProfiles
  BY <1>7 DEF ChangeProfiles, cron
<1>8. CASE Tick
  BY <1>8 DEF Tick
<1>9. CASE UNCHANGED vars
  BY <1>9 DEF vars, cron
<1> QED
  BY <1>1, <1>2, <1>3, <1>4, <1>5, <1>6, <1>7, <1>8, <1>9 DEF Next, Step

\* The claim of a cron job lasts until it has ended.
LEMMA NextOneInv == TypeOK /\ ClaimInv /\ OneInv /\ [Next]_vars => OneInv'
<1> SUFFICES ASSUME TypeOK, ClaimInv, OneInv, [Next]_vars PROVE OneInv'
  OBVIOUS
<1> USE DEF TypeOK, OneInv
<1>1. ASSUME NEW c \in Crons, Begin(c) PROVE OneInv'
  BY <1>1 DEF Begin
<1>2. ASSUME NEW c \in Crons, NotDue(c) PROVE OneInv'
  BY <1>2 DEF NotDue, Rest
<1>3. ASSUME NEW c \in Crons, Claim(c) PROVE OneInv'
  <2>1. \A d \in Crons : pc[d] # "enqueue"
    BY <1>3, ClaimStep, Numbers DEF ClaimInv
  <2> QED
    BY <1>3, <2>1, ClaimStep
<1>4. ASSUME NEW c \in Crons, Enqueue(c) PROVE OneInv'
  BY <1>4, EnqueueStep
<1>5. ASSUME NEW c \in Crons, End(c) PROVE OneInv'
  BY <1>5 DEF End, Rest
<1>6. ASSUME NEW c \in Crons, Crash(c) PROVE OneInv'
  BY <1>6 DEF Crash, Rest
<1>7. CASE ChangeProfiles
  BY <1>7 DEF ChangeProfiles, cron
<1>8. CASE Tick
  BY <1>8 DEF Tick
<1>9. CASE UNCHANGED vars
  BY <1>9 DEF vars, cron
<1> QED
  BY <1>1, <1>2, <1>3, <1>4, <1>5, <1>6, <1>7, <1>8, <1>9 DEF Next, Step

\* Nothing is enqueued later than MaxAge after a claim.
LEMMA NextSinceInv == TypeOK /\ ClaimInv /\ SinceInv /\ [Next]_vars => SinceInv'
<1> SUFFICES ASSUME TypeOK, ClaimInv, SinceInv, [Next]_vars PROVE SinceInv'
  OBVIOUS
<1> USE Numbers DEF TypeOK, SinceInv
<1>1. ASSUME NEW c \in Crons, Begin(c) PROVE SinceInv'
  BY <1>1 DEF Begin
<1>2. ASSUME NEW c \in Crons, NotDue(c) PROVE SinceInv'
  BY <1>2 DEF NotDue, Rest
<1>3. ASSUME NEW c \in Crons, Claim(c) PROVE SinceInv'
  BY <1>3, ClaimStep
<1>4. ASSUME NEW c \in Crons, Enqueue(c) PROVE SinceInv'
  <2>1. due' = due /\ due + MaxAge >= Interval
    BY <1>4, EnqueueStep DEF ClaimInv
  <2>2. \A t \in Targets : since'[t] = since[t] \/ since'[t] = 0
    BY <1>4, EnqueueStep
  <2> QED
    BY <2>1, <2>2
<1>5. ASSUME NEW c \in Crons, End(c) PROVE SinceInv'
  BY <1>5 DEF End, Rest
<1>6. ASSUME NEW c \in Crons, Crash(c) PROVE SinceInv'
  BY <1>6 DEF Crash, Rest
<1>7. CASE ChangeProfiles
  BY <1>7 DEF ChangeProfiles, cron
<1>8. CASE Tick
  BY <1>8 DEF Tick
<1>9. CASE UNCHANGED vars
  BY <1>9 DEF vars, cron
<1> QED
  BY <1>1, <1>2, <1>3, <1>4, <1>5, <1>6, <1>7, <1>8, <1>9 DEF Next, Step

\* A cron job forgets none of its own ids before it has ended.
LEMMA NextFirstInv == TypeOK /\ ClockInv /\ OneInv /\ SinceInv /\ FirstInv /\ [Next]_vars => FirstInv'
<1> SUFFICES ASSUME TypeOK, ClockInv, OneInv, SinceInv, FirstInv, [Next]_vars PROVE FirstInv'
  OBVIOUS
<1> USE DEF TypeOK, FirstInv
<1>1. ASSUME NEW c \in Crons, Begin(c) PROVE FirstInv'
  BY <1>1 DEF Begin
<1>2. ASSUME NEW c \in Crons, NotDue(c) PROVE FirstInv'
  BY <1>2 DEF NotDue, Rest
<1>3. ASSUME NEW c \in Crons, Claim(c) PROVE FirstInv'
  <2>1. \A t \in Targets : since[t] >= Interval - MaxAge
    BY <1>3, ClaimStep, Numbers DEF SinceInv
  <2> QED
    BY <1>3, <2>1, ClaimStep
<1>4. ASSUME NEW c \in Crons, Enqueue(c) PROVE FirstInv'
  <2> SUFFICES ASSUME NEW d \in Crons, pc'[d] = "enqueue", NEW t \in Targets
               PROVE  \/ since'[t] >= Interval - MaxAge
                      \/ since'[t] <= age'[d] /\ <<t, Window(now'[d])>> \in known'
    BY DEF Window
  <2>1. d = c /\ pc[c] = "enqueue" /\ now' = now /\ age' = age
    BY <1>4, EnqueueStep DEF OneInv
  <2>2. CASE UNCHANGED <<known, since>>
    BY <2>1, <2>2
  <2>3. ASSUME NEW u \in Targets, known' = known \cup {<<u, Window(now[c])>>}, since' = [since EXCEPT ![u] = 0]
        PROVE  \/ since'[t] >= Interval - MaxAge
               \/ since'[t] <= age'[d] /\ <<t, Window(now'[d])>> \in known'
    BY <2>1, <2>3, Numbers
  <2> QED
    BY <1>4, <2>2, <2>3, EnqueueStep
<1>5. ASSUME NEW c \in Crons, End(c) PROVE FirstInv'
  BY <1>5 DEF End, Rest
<1>6. ASSUME NEW c \in Crons, Crash(c) PROVE FirstInv'
  BY <1>6 DEF Crash, Rest
<1>7. CASE ChangeProfiles
  BY <1>7 DEF ChangeProfiles, cron
<1>8. CASE Tick
  <2> SUFFICES ASSUME NEW c \in Crons, pc'[c] = "enqueue", NEW t \in Targets
               PROVE  \/ since'[t] >= Interval - MaxAge
                      \/ since'[t] <= age'[c] /\ <<t, Window(now'[c])>> \in known'
    BY DEF Window
  <2>1. /\ pc[c] = "enqueue" /\ now' = now /\ age[c] < MaxAge /\ age'[c] = age[c] + 1
        /\ \A id \in known : since'[id[1]] < KeepResult
             /\ (Window(clock') - id[2]) % Windows < 2 => id \in known'
    BY <1>8, Numbers DEF Tick
  <2>2. since[t] >= Interval - MaxAge => since'[t] >= Interval - MaxAge
    BY <1>8, Numbers DEF Tick
  <2>3. clock' = (now[c] + (age[c] + 1)) % Period
    <3>1. ClockInv'
      BY NextClockInv
    <3> QED
      BY <2>1, <3>1 DEF ClockInv
  <2>4. (Window(clock') - Window(now[c])) % Windows < 2
    <3>1. now[c] \in 0 .. Period - 1 /\ age[c] + 1 \in 0 .. Interval - 1
      BY <2>1, Numbers DEF Period
    <3> QED
      BY <2>3, <3>1, WindowStep
  <2>5. ASSUME since[t] < Interval - MaxAge
        PROVE  since'[t] <= age'[c] /\ since'[t] < KeepResult
    <3>1. since' = [u \in Targets |-> IF since[u] < Interval THEN since[u] + 1 ELSE since[u]]
      BY <1>8 DEF Tick
    <3>2. since[t] \in Nat /\ age[c] \in Nat
      BY Numbers
    <3>3. since'[t] \in Nat /\ since'[t] <= since[t] + 1
      BY <3>1, <3>2, Numbers
    <3>4. since[t] <= age[c]
      <4>1. since[t] >= Interval - MaxAge \/ since[t] <= age[c]
        BY <2>1
      <4>2. ~(since[t] >= Interval - MaxAge)
        BY <2>5, <3>2, Numbers
      <4> QED
        BY <4>1, <4>2
    <3> QED
      BY <2>1, <3>2, <3>3, <3>4, Numbers
  <2>6. ASSUME since'[t] < KeepResult, <<t, Window(now[c])>> \in known
        PROVE  <<t, Window(now[c])>> \in known'
    <3> DEFINE id == <<t, Window(now[c])>>
    <3>1. id[1] = t /\ id[2] = Window(now[c])
      OBVIOUS
    <3> HIDE DEF id
    <3>2. id \in known => id \in known'
      BY <2>1, <2>4, <2>6, <3>1
    <3> QED
      BY <2>6, <3>2 DEF id
  <2> QED
    BY <2>1, <2>2, <2>5, <2>6, Numbers
<1>9. CASE UNCHANGED vars
  BY <1>9 DEF vars, cron
<1> QED
  BY <1>1, <1>2, <1>3, <1>4, <1>5, <1>6, <1>7, <1>8, <1>9 DEF Next, Step

-----------------------------------------------------------------------------
(* The theorems.                                                           *)

\* The invariant holds at the start.
LEMMA InitCadenceInv == Init => CadenceInv
<1> SUFFICES ASSUME Init PROVE CadenceInv
  OBVIOUS
<1>1. TypeOK
  <2>1. clock \in 0 .. Windows * Interval - 1 /\ 0 \in 0 .. Windows * Interval - 1
    BY PeriodIsNat, Numbers DEF Init, Period
  <2>2. <<>> \in [1 .. 0 -> Targets] /\ 0 \in 0 .. MaxQueries
    BY Numbers
  <2>3. <<>> \in SeqOf(Targets, MaxQueries)
    BY <2>2 DEF SeqOf
  <2>4. targets \in SeqOf(Targets, MaxQueries)
    BY DEF Init, BuildTargets
  <2> QED
    BY <2>1, <2>3, <2>4, Numbers DEF Init, TypeOK
<1>2. ClockInv /\ ClaimInv /\ OneInv /\ FirstInv
  BY DEF Init, ClockInv, ClaimInv, OneInv, FirstInv
<1>3. SinceInv
  BY Numbers DEF Init, SinceInv
<1> QED
  BY <1>1, <1>2, <1>3 DEF CadenceInv

\* One cron job enqueues at a time, and knows what it has enqueued: the invariant behind
\* the cadence.
THEOREM SchedulerSafety == Spec => []CadenceInv
<1>1. CadenceInv /\ [Next]_vars => CadenceInv'
  BY NextTypes, NextClockInv, NextClaimInv, NextOneInv, NextSinceInv, NextFirstInv DEF CadenceInv
<1> QED
  BY <1>1, InitCadenceInv, PTL DEF Spec

\* The scheduler keeps its types, and the rotation cursor stays within the longest list of
\* targets, whatever the profiles ask for.
THEOREM SchedulerTypes == Spec => []TypeOK
<1>1. CadenceInv => TypeOK
  BY DEF CadenceInv
<1> QED
  BY <1>1, SchedulerSafety, PTL

\* A step enqueues only targets whose last collection is an interval old, up to the time
\* that a cron job may take.
LEMMA NextKeepsCadence ==
  CadenceInv /\ [Next]_vars => \A id \in known' \ known : since[id[1]] >= Interval - MaxAge
<1> SUFFICES ASSUME CadenceInv, [Next]_vars, NEW id \in known' \ known
             PROVE  since[id[1]] >= Interval - MaxAge
  OBVIOUS
<1>1. PICK c \in Crons : Enqueue(c)
  <2>1. ASSUME NEW c \in Crons, Claim(c) PROVE known' = known
    BY <2>1 DEF Claim
  <2>2. Tick => known' \subseteq known
    BY DEF Tick
  <2> QED
    BY <2>1, <2>2 DEF Next, Step, Begin, NotDue, End, Crash, ChangeProfiles, vars
<1>2. PICK t \in Targets : <<t, Window(now[c])>> \notin known /\ id = <<t, Window(now[c])>>
  BY <1>1, EnqueueStep DEF CadenceInv
<1>3. pc[c] = "enqueue"
  BY <1>1 DEF Enqueue
<1> QED
  BY <1>2, <1>3 DEF CadenceInv, FirstInv

\* No target is collected again before its interval is over, up to the time that a cron
\* job may take: for every interval and timeout below it, however many cron jobs run.
THEOREM CadenceIsKept == Spec => Cadence
<1>1. CadenceInv /\ [Next]_vars => [\A id \in known' \ known : since[id[1]] >= Interval - MaxAge]_vars
  BY NextKeepsCadence
<1> QED
  BY <1>1, SchedulerSafety, PTL DEF Spec, Cadence
=============================================================================
