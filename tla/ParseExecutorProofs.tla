------------------------- MODULE ParseExecutorProofs -------------------------
(***************************************************************************)
(* Proofs about ParseExecutor, for any finite set of calls and any         *)
(* resume_parser_max_concurrency.                                          *)
(*                                                                         *)
(* ShapeInv describes where calls, threads and the semaphore's queue may   *)
(* be; it makes sure that a release is made by a call that owns a slot and *)
(* that the waiters it wakes own none.  With it the slots are counted.     *)
(***************************************************************************)
EXTENDS ParseExecutor, SequenceTheorems, FiniteSetTheorems, TLAPS

ShapeTypes ==
  /\ value \in Nat
  /\ waiters \in Seq(Calls)
  /\ call \in [Calls -> Ended \cup {"waiting", "leaving", "woken", "parsing"}]
  /\ thread \in [Calls -> Stopped \cup {"running"}]
  /\ deferred \subseteq Calls

\* The queue of the semaphore holds waiting calls, each of them once.
QueueInv ==
  /\ \A i \in 1 .. Len(waiters) : call[waiters[i]] = "waiting"
  /\ \A i, j \in 1 .. Len(waiters) : waiters[i] = waiters[j] => i = j

\* A slot whose release is deferred is that of a call which is over.
DeferredInv == \A c \in deferred : call[c] \in Ended

\* A thread that runs is waited for, or its slot is still to be released.
ThreadInv == \A c \in Calls : thread[c] = "running" => call[c] = "parsing" \/ c \in deferred

ShapeInv == ShapeTypes /\ QueueInv /\ DeferredInv /\ ThreadInv

\* The slots add up, and one that is free and waited for is about to be passed on.
SlotInv == SlotsConserved /\ NoLostWakeUp

\* The owners of slots can be counted.
LEMMA HoldersFinite == IsFiniteSet(Holders) /\ Cardinality(Holders) \in Nat
<1>1. Holders \in SUBSET Calls
  BY DEF Holders
<1> QED
  BY <1>1, CallsAssumption, FS_Subset, FS_CardinalityType

\* The first waiters are as many different calls as they are.
LEMMA FirstWaiters ==
  ASSUME ShapeInv, NEW n \in 0 .. Len(waiters)
  PROVE  LET W == {waiters[i] : i \in 1 .. n} IN IsFiniteSet(W) /\ Cardinality(W) = n
<1> DEFINE W == {waiters[i] : i \in 1 .. n}
           f == [i \in 1 .. n |-> waiters[i]]
<1>1. n \in Nat /\ 1 .. n \subseteq 1 .. Len(waiters)
  BY DEF ShapeInv, ShapeTypes
<1>2. f \in Bijection(1 .. n, W)
  <2>1. f \in [1 .. n -> W] /\ \A w \in W : \E i \in 1 .. n : f[i] = w
    OBVIOUS
  <2>2. \A i, j \in 1 .. n : f[i] = f[j] => i = j
    BY <1>1 DEF ShapeInv, QueueInv
  <2> QED
    BY <2>1, <2>2 DEF Bijection, Injection, Surjection, IsInjective
<1>3. IsFiniteSet(1 .. n) /\ Cardinality(1 .. n) = n
  BY <1>1, FS_Interval
<1> QED
  BY <1>2, <1>3, FS_Bijection DEF ExistsBijection

\* What the semaphore does whenever a call gets on: the first n waiters own a slot each
\* afterwards, and the others wait on, in their order.
LEMMA WakeUpKeepsShape ==
  ASSUME ShapeInv, NEW c \in Calls, call[c] # "waiting",
         NEW outcome \in Ended \cup {"parsing"}, NEW free \in Nat,
         NEW n \in 0 .. Len(waiters), n <= free, WakeUp(c, outcome, free, n),
         deferred' = deferred \ {c},
         \/ thread' = thread /\ outcome # "parsing" /\ thread[c] # "running"
         \/ thread' = [thread EXCEPT ![c] = "running"] /\ outcome = "parsing"
  PROVE  /\ ShapeInv'
         /\ value' = free - n
         /\ Len(waiters') = Len(waiters) - n
         /\ \A i \in 1 .. n : call'[waiters[i]] = "woken"
         /\ Holders' = ((Holders \ {c}) \cup {d \in {c} : outcome = "parsing"})
                         \cup {waiters[i] : i \in 1 .. n}
         /\ \A i \in 1 .. n : waiters[i] \notin Holders /\ waiters[i] # c
<1> USE DEF ShapeInv, ShapeTypes, QueueInv, DeferredInv, ThreadInv, Ended, Stopped
<1>1. /\ Len(waiters) \in Nat /\ n \in Nat
      /\ \A i \in 1 .. Len(waiters) : waiters[i] \in Calls /\ waiters[i] # c
  BY ElementOfSeq
<1>2. /\ waiters' \in Seq(Calls) /\ Len(waiters') = Len(waiters) - n
      /\ \A i \in 1 .. Len(waiters') :
           waiters'[i] = waiters[n + i] /\ n + i \in 1 .. Len(waiters) /\ n + i \notin 1 .. n
  <2>1. \A i \in n + 1 .. Len(waiters) : waiters[i] \in Calls
    BY <1>1
  <2>2. /\ SubSeq(waiters, n + 1, Len(waiters)) \in Seq(Calls)
        /\ Len(SubSeq(waiters, n + 1, Len(waiters)))
             = IF n + 1 <= Len(waiters) THEN Len(waiters) - (n + 1) + 1 ELSE 0
        /\ \A i \in 1 .. Len(waiters) - (n + 1) + 1 :
             SubSeq(waiters, n + 1, Len(waiters))[i] = waiters[n + 1 + i - 1]
    BY <1>1, <2>1, SubSeqProperties
  <2> QED
    BY <1>1, <2>2 DEF WakeUp
<1>3. /\ call' \in [Calls -> Ended \cup {"waiting", "leaving", "woken", "parsing"}]
      /\ call'[c] = outcome
      /\ \A i \in 1 .. n : call'[waiters[i]] = "woken"
      /\ \A d \in Calls \ {c} :
           call'[d] = IF \E i \in 1 .. n : waiters[i] = d THEN "woken" ELSE call[d]
  BY <1>1 DEF WakeUp
<1>4. \A i \in 1 .. Len(waiters) : waiters[i] \notin Holders
  BY <1>1 DEF Holders
<1>5. QueueInv'
  <2>1. ASSUME NEW i \in 1 .. Len(waiters') PROVE call'[waiters'[i]] = "waiting"
    <3>1. /\ n + i \in 1 .. Len(waiters) /\ waiters'[i] = waiters[n + i]
          /\ \A k \in 1 .. n : k \in 1 .. Len(waiters) /\ k # n + i
      BY <1>1, <1>2
    <3>2. ~\E k \in 1 .. n : waiters[k] = waiters[n + i]
      BY <3>1
    <3>3. waiters[n + i] \in Calls \ {c} /\ call[waiters[n + i]] = "waiting"
      BY <1>1, <3>1
    <3> QED
      BY <1>3, <3>1, <3>2, <3>3
  <2>2. ASSUME NEW i \in 1 .. Len(waiters'), NEW j \in 1 .. Len(waiters'),
               waiters'[i] = waiters'[j]
        PROVE  i = j
    <3>1. n + i \in 1 .. Len(waiters) /\ n + j \in 1 .. Len(waiters)
      BY <1>2
    <3>2. waiters[n + i] = waiters[n + j]
      BY <1>2, <2>2
    <3>3. n + i = n + j
      BY <3>1, <3>2
    <3> QED
      BY <1>1, <1>2, <3>3
  <2> QED
    BY <2>1, <2>2
<1>6. ShapeTypes'
  <2>1. value' \in Nat
    <3>1. value' = free - n
      BY DEF WakeUp
    <3>2. free \in Nat /\ n \in Nat /\ n <= free
      BY <1>1
    <3> QED
      BY <3>1, <3>2
  <2>2. thread' \in [Calls -> Stopped \cup {"running"}]
    <3>1. thread \in [Calls -> Stopped \cup {"running"}]
      OBVIOUS
    <3> QED
      BY <3>1
  <2>3. deferred' \subseteq Calls
    OBVIOUS
  <2> QED
    BY <1>2, <1>3, <2>1, <2>2, <2>3
<1>7. \A d \in Calls \ {c} :
        (\E i \in 1 .. n : waiters[i] = d) => call[d] = "waiting" /\ d \notin deferred
  BY <1>1
<1>8. DeferredInv' /\ ThreadInv'
  <2>1. ASSUME NEW d \in deferred' PROVE call'[d] \in Ended
    <3>1. d \in Calls \ {c} /\ d \in deferred
      OBVIOUS
    <3> QED
      BY <1>3, <1>7, <3>1
  <2>2. ASSUME NEW d \in Calls, thread'[d] = "running"
        PROVE  call'[d] = "parsing" \/ d \in deferred'
    BY <1>3, <1>7, <2>2
  <2> QED
    BY <2>1, <2>2
<1>9. ASSUME NEW d \in Calls
      PROVE  d \in Holders' <=> \/ d \in Holders /\ d # c
                                \/ d = c /\ outcome = "parsing"
                                \/ \E i \in 1 .. n : waiters[i] = d
  <2>1. CASE d = c
    BY <1>1, <1>3, <2>1 DEF Holders
  <2>2. CASE d # c
    BY <1>3, <2>2 DEF Holders
  <2> QED
    BY <2>1, <2>2
<1>10. Holders' = ((Holders \ {c}) \cup {d \in {c} : outcome = "parsing"})
                    \cup {waiters[i] : i \in 1 .. n}
  <2>1. Holders \subseteq Calls /\ Holders' \subseteq Calls
    BY DEF Holders
  <2>2. \A i \in 1 .. n : waiters[i] \in Calls
    BY <1>1
  <2> QED
    BY <1>9, <2>1, <2>2
<1>11. value' = free - n
  BY DEF WakeUp
<1>12. \A i \in 1 .. n : waiters[i] \notin Holders /\ waiters[i] # c
  BY <1>1, <1>4
<1> QED
  BY <1>2, <1>3, <1>5, <1>6, <1>8, <1>10, <1>11, <1>12

\* If the slots add up before anyone is woken, counting those that c keeps, they add up
\* afterwards.
LEMMA WakeUpKeepsSlots ==
  ASSUME ShapeInv, NEW c \in Calls, NEW n \in 0 .. Len(waiters), NEW free \in Nat,
         NEW kept, IsFiniteSet(kept), free + Cardinality(kept) = MaxConcurrency,
         value' = free - n,
         Holders' = kept \cup {waiters[i] : i \in 1 .. n},
         \A i \in 1 .. n : waiters[i] \notin kept
  PROVE  SlotsConserved'
<1> DEFINE W == {waiters[i] : i \in 1 .. n}
<1>1. IsFiniteSet(W) /\ Cardinality(W) = n
  BY FirstWaiters
<1>2. kept \cap W = {}
  OBVIOUS
<1>3. Cardinality(kept \cup W) = Cardinality(kept) + Cardinality(W) - Cardinality(kept \cap W)
  BY <1>1, FS_Union
<1>4. Cardinality(kept \cap W) = 0 /\ Cardinality(kept) \in Nat /\ Cardinality(W) \in Nat
  BY <1>1, <1>2, FS_EmptySet, FS_CardinalityType
<1>5. Cardinality(Holders') = Cardinality(kept) + n
  BY <1>1, <1>3, <1>4
<1>6. n \in Nat
  BY DEF ShapeInv, ShapeTypes
<1> QED
  BY <1>4, <1>5, <1>6 DEF SlotsConserved

\* A call that owns a slot gives it back: it passes to the first waiter, or becomes
\* free when nobody waits, and the count of slots stays what it was.
LEMMA ReleaseKeepsSlots ==
  ASSUME ShapeInv, SlotInv, NEW c \in Holders, thread[c] # "running",
         NEW outcome \in Ended, Release(c, outcome),
         deferred' = deferred \ {c}, thread' = thread
  PROVE  ShapeInv' /\ SlotInv'
<1> DEFINE n == IF waiters = <<>> THEN 0 ELSE 1
<1>1. /\ c \in Calls /\ call[c] # "waiting" /\ outcome # "parsing" /\ value \in Nat
      /\ value + 1 \in Nat /\ Len(waiters) \in Nat /\ n \in 0 .. Len(waiters) /\ n <= value + 1
  BY EmptySeq DEF Holders, ShapeInv, ShapeTypes, DeferredInv, Ended
<1>2. WakeUp(c, outcome, value + 1, n)
  BY DEF Release
<1> HIDE DEF n
<1>3. /\ ShapeInv' /\ value' = (value + 1) - n
      /\ \A i \in 1 .. n : call'[waiters[i]] = "woken"
      /\ Holders' = ((Holders \ {c}) \cup {d \in {c} : outcome = "parsing"})
                      \cup {waiters[i] : i \in 1 .. n}
      /\ \A i \in 1 .. n : waiters[i] \notin Holders
  BY <1>1, <1>2, WakeUpKeepsShape
<1>4. SlotsConserved'
  <2>1. IsFiniteSet(Holders \ {c}) /\ Cardinality(Holders \ {c}) = Cardinality(Holders) - 1
    BY HoldersFinite, FS_RemoveElement
  <2>2. (value + 1) + Cardinality(Holders \ {c}) = MaxConcurrency
    BY <1>1, <2>1, HoldersFinite, ConcurrencyAssumption DEF SlotInv, SlotsConserved
  <2>3. Holders' = (Holders \ {c}) \cup {waiters[i] : i \in 1 .. n}
    BY <1>1, <1>3
  <2>4. \A i \in 1 .. n : waiters[i] \notin Holders \ {c}
    BY <1>3
  <2>5. value' = (value + 1) - n
    BY <1>3
  <2> QED
    BY <1>1, <2>1, <2>2, <2>3, <2>4, <2>5, WakeUpKeepsSlots
<1>5. NoLostWakeUp'
  <2>1. CASE waiters = <<>>
    <3>1. n = 0 /\ Len(waiters) = 0
      BY <2>1 DEF n
    <3>2. waiters' = <<>>
      BY <1>2, <2>1, <3>1, SubSeqEmpty DEF WakeUp
    <3> QED
      BY <3>2 DEF NoLostWakeUp
  <2>2. CASE waiters # <<>>
    <3>1. 1 \in 1 .. n /\ 1 \in 1 .. Len(waiters)
      BY <1>1, <2>2 DEF n
    <3>2. waiters[1] \in Calls /\ call'[waiters[1]] = "woken"
      BY <1>3, <3>1, ElementOfSeq DEF ShapeInv, ShapeTypes
    <3> QED
      BY <3>2 DEF NoLostWakeUp
  <2> QED
    BY <2>1, <2>2
<1> QED
  BY <1>3, <1>4, <1>5 DEF SlotInv

\* The end of acquire hands out every free slot that is waited for.  The slots of the
\* calls other than c, and the one c keeps if it goes on, add up with the free ones.
LEMMA WakeAllKeepsSlots ==
  ASSUME ShapeInv, NEW c \in Calls, call[c] # "waiting",
         NEW outcome \in Ended \cup {"parsing"}, NEW free \in Nat,
         WakeAll(c, outcome, free), deferred' = deferred \ {c},
         \/ thread' = thread /\ outcome # "parsing" /\ thread[c] # "running"
         \/ thread' = [thread EXCEPT ![c] = "running"] /\ outcome = "parsing",
         NEW kept, kept = (Holders \ {c}) \cup {d \in {c} : outcome = "parsing"},
         IsFiniteSet(kept), free + Cardinality(kept) = MaxConcurrency
  PROVE  ShapeInv' /\ SlotInv'
<1> DEFINE n == IF free < Len(waiters) THEN free ELSE Len(waiters)
<1>1. Len(waiters) \in Nat /\ n \in 0 .. Len(waiters) /\ n <= free
  BY DEF ShapeInv, ShapeTypes
<1>2. WakeUp(c, outcome, free, n)
  BY DEF WakeAll
<1> HIDE DEF n
<1>3. /\ ShapeInv' /\ value' = free - n /\ Len(waiters') = Len(waiters) - n
      /\ Holders' = kept \cup {waiters[i] : i \in 1 .. n}
      /\ \A i \in 1 .. n : waiters[i] \notin kept
  BY <1>1, <1>2, WakeUpKeepsShape
<1>4. SlotsConserved'
  BY <1>1, <1>3, WakeUpKeepsSlots
<1>5. value' = 0 \/ Len(waiters') = 0
  BY <1>1, <1>3 DEF n
<1>6. NoLostWakeUp'
  BY <1>3, <1>5, EmptySeq DEF NoLostWakeUp, ShapeInv, ShapeTypes
<1> QED
  BY <1>3, <1>4, <1>6 DEF SlotInv

\* Initially all slots are free and nobody waits.
LEMMA InitSlots == Init => ShapeInv /\ SlotInv
<1> SUFFICES ASSUME Init PROVE ShapeInv /\ SlotInv
  OBVIOUS
<1>1. ShapeInv
  BY ConcurrencyAssumption, EmptySeq
  DEF Init, ShapeInv, ShapeTypes, QueueInv, DeferredInv, ThreadInv, Ended, Stopped
<1>2. Holders = {}
  BY DEF Init, Holders
<1>3. SlotInv
  BY <1>2, FS_EmptySet, ConcurrencyAssumption DEF Init, SlotInv, SlotsConserved, NoLostWakeUp
<1> QED
  BY <1>1, <1>3

\* Every point of parse, of its cancellation and of the done callback keeps the slots.
LEMMA NextSlots == ShapeInv /\ SlotInv /\ [Next]_vars => ShapeInv' /\ SlotInv'
<1> SUFFICES ASSUME ShapeInv, SlotInv, [Next]_vars PROVE ShapeInv' /\ SlotInv'
  OBVIOUS
<1> USE DEF ShapeInv, ShapeTypes, QueueInv, DeferredInv, ThreadInv, Ended, Stopped
<1>1. ASSUME NEW c \in Calls, Acquire(c) PROVE ShapeInv' /\ SlotInv'
  <2>1. c \notin Holders /\ call[c] # "waiting"
    BY <1>1 DEF Acquire, Holders
  <2>2. CASE ~Locked
    <3>1. ShapeInv'
      BY <1>1, <2>2 DEF Acquire, Locked
    <3>2. Holders' = Holders \cup {c}
      BY <1>1, <2>2 DEF Acquire, Holders
    <3>3. Cardinality(Holders') = Cardinality(Holders) + 1
      BY <2>1, <3>2, HoldersFinite, FS_AddElement
    <3>4. SlotInv'
      BY <1>1, <2>2, <3>3, HoldersFinite, ConcurrencyAssumption
      DEF Acquire, Locked, SlotInv, SlotsConserved, NoLostWakeUp
    <3> QED
      BY <3>1, <3>4
  <2>3. CASE Locked
    <3>1. /\ waiters' = Append(waiters, c) /\ value' = value /\ deferred' = deferred
          /\ call' = [call EXCEPT ![c] = "waiting"]
          /\ thread' = [thread EXCEPT ![c] = "none"]
      BY <1>1, <2>3 DEF Acquire
    <3>2. /\ waiters' \in Seq(Calls) /\ Len(waiters') = Len(waiters) + 1
          /\ Len(waiters) \in Nat /\ waiters'[Len(waiters) + 1] = c
          /\ \A i \in 1 .. Len(waiters) : waiters'[i] = waiters[i] /\ waiters[i] \in Calls
      BY <3>1, AppendProperties
    <3>3. QueueInv'
      BY <2>1, <3>1, <3>2
    <3>4. ShapeTypes' /\ DeferredInv' /\ ThreadInv'
      BY <1>1, <3>1, <3>2 DEF Acquire
    <3>5. Holders' = Holders
      BY <1>1, <3>1 DEF Holders, Acquire
    <3>6. NoLostWakeUp'
      <4> SUFFICES ASSUME value > 0 PROVE \E d \in Calls : call'[d] = "woken"
        BY <3>1 DEF NoLostWakeUp
      <4>1. PICK d \in Calls : call[d] = "woken"
        BY <2>3 DEF Locked, SlotInv, NoLostWakeUp
      <4>2. d # c
        BY <1>1, <4>1 DEF Acquire
      <4> QED
        BY <3>1, <4>1, <4>2
    <3>7. SlotInv'
      BY <3>1, <3>5, <3>6 DEF SlotInv, SlotsConserved
    <3> QED
      BY <3>3, <3>4, <3>7
  <2> QED
    BY <2>2, <2>3
<1>2. ASSUME NEW c \in Calls, Resume(c) PROVE ShapeInv' /\ SlotInv'
  <2>1. /\ call[c] = "woken" /\ WakeAll(c, "parsing", value) /\ deferred' = deferred \ {c}
        /\ thread' = [thread EXCEPT ![c] = "running"]
    BY <1>2 DEF Resume
  <2>2. Holders = (Holders \ {c}) \cup {d \in {c} : "parsing" = "parsing"}
    BY <2>1 DEF Holders
  <2>3. IsFiniteSet(Holders) /\ value + Cardinality(Holders) = MaxConcurrency
    BY HoldersFinite DEF SlotInv, SlotsConserved
  <2> QED
    BY <2>1, <2>2, <2>3, WakeAllKeepsSlots
<1>3. ASSUME NEW c \in Calls, ThreadEnds(c) PROVE ShapeInv' /\ SlotInv'
  <2>1. ShapeInv'
    BY <1>3 DEF ThreadEnds
  <2>2. Holders' = Holders
    BY <1>3 DEF ThreadEnds, Holders
  <2> QED
    BY <1>3, <2>1, <2>2 DEF ThreadEnds, SlotInv, SlotsConserved, NoLostWakeUp
<1>4. ASSUME NEW c \in Calls, Return(c) PROVE ShapeInv' /\ SlotInv'
  <2>1. c \in Holders /\ thread[c] # "running" /\ deferred' = deferred \ {c} /\ thread' = thread
    BY <1>4 DEF Return, Holders
  <2>2. \E outcome \in Ended : Release(c, outcome)
    BY <1>4 DEF Return
  <2> QED
    BY <2>1, <2>2, ReleaseKeepsSlots
<1>5. ASSUME NEW c \in Calls, Timeout(c) \/ CancelParsing(c) PROVE ShapeInv' /\ SlotInv'
  <2>1. ShapeInv'
    BY <1>5 DEF Timeout, CancelParsing
  <2>2. Holders' = Holders
    BY <1>5 DEF Timeout, CancelParsing, Holders
  <2> QED
    BY <1>5, <2>1, <2>2 DEF Timeout, CancelParsing, SlotInv, SlotsConserved, NoLostWakeUp
<1>6. ASSUME NEW c \in Calls, CancelWaiting(c) PROVE ShapeInv' /\ SlotInv'
  <2>1. PICK i \in 1 .. Len(waiters) : waiters[i] = c /\ waiters' = Without(i)
    BY <1>6 DEF CancelWaiting
  <2>2. call[c] = "waiting" /\ call' = [call EXCEPT ![c] = "leaving"] /\ Len(waiters) \in Nat
    BY <1>6, <2>1 DEF CancelWaiting
  <2>3. /\ waiters' \in Seq(Calls) /\ Len(waiters') = Len(waiters) - 1
        /\ \A j \in 1 .. Len(waiters') :
             waiters'[j] = IF j < i THEN waiters[j] ELSE waiters[j + 1]
    <3>1. \A j \in 1 .. Len(waiters) - 1 :
            (IF j < i THEN waiters[j] ELSE waiters[j + 1]) \in Calls
      BY <2>2, ElementOfSeq
    <3> QED
      BY <2>1, <2>2, <3>1 DEF Without
  <2>4. QueueInv'
    <3>1. ASSUME NEW j \in 1 .. Len(waiters')
          PROVE  waiters'[j] # c /\ waiters'[j] \in Calls /\ call[waiters'[j]] = "waiting"
      BY <2>1, <2>2, <2>3
    <3>2. ASSUME NEW j \in 1 .. Len(waiters'), NEW k \in 1 .. Len(waiters'),
                 waiters'[j] = waiters'[k]
          PROVE  j = k
      BY <2>2, <2>3, <3>2
    <3> QED
      BY <2>2, <3>1, <3>2
  <2>5. ShapeTypes' /\ DeferredInv' /\ ThreadInv'
    BY <1>6, <2>2, <2>3 DEF CancelWaiting
  <2>6. Holders' = Holders
    BY <1>6, <2>2 DEF CancelWaiting, Holders
  <2>7. NoLostWakeUp'
    <3> SUFFICES ASSUME value > 0 PROVE \E d \in Calls : call'[d] = "woken"
      BY <1>6 DEF CancelWaiting, NoLostWakeUp
    <3>1. PICK d \in Calls : call[d] = "woken"
      BY <2>1, EmptySeq DEF SlotInv, NoLostWakeUp
    <3> QED
      BY <2>2, <3>1
  <2> QED
    BY <1>6, <2>4, <2>5, <2>6, <2>7 DEF CancelWaiting, SlotInv, SlotsConserved
<1>7. ASSUME NEW c \in Calls, CancelWoken(c) PROVE ShapeInv' /\ SlotInv'
  <2>1. /\ call[c] = "woken" /\ c \in Holders /\ thread[c] # "running"
        /\ WakeAll(c, "cancelled", value + 1) /\ deferred' = deferred \ {c} /\ thread' = thread
    BY <1>7 DEF CancelWoken, Holders
  <2>2. Holders \ {c} = (Holders \ {c}) \cup {d \in {c} : "cancelled" = "parsing"}
    OBVIOUS
  <2>3. IsFiniteSet(Holders \ {c}) /\ Cardinality(Holders \ {c}) = Cardinality(Holders) - 1
    BY <2>1, HoldersFinite, FS_RemoveElement
  <2>4. value + 1 \in Nat /\ (value + 1) + Cardinality(Holders \ {c}) = MaxConcurrency
    BY <2>3, HoldersFinite, ConcurrencyAssumption DEF SlotInv, SlotsConserved
  <2> QED
    BY <2>1, <2>2, <2>3, <2>4, WakeAllKeepsSlots
<1>l. ASSUME NEW c \in Calls, Leave(c) PROVE ShapeInv' /\ SlotInv'
  <2>1. /\ call[c] = "leaving" /\ c \notin Holders /\ thread[c] # "running"
        /\ WakeAll(c, "cancelled", value) /\ deferred' = deferred \ {c} /\ thread' = thread
    BY <1>l DEF Leave, Holders
  <2>2. Holders = (Holders \ {c}) \cup {d \in {c} : "cancelled" = "parsing"}
    BY <2>1
  <2>3. IsFiniteSet(Holders) /\ value + Cardinality(Holders) = MaxConcurrency
    BY HoldersFinite DEF SlotInv, SlotsConserved
  <2> QED
    BY <2>1, <2>2, <2>3, WakeAllKeepsSlots
<1>8. ASSUME NEW c \in Calls, ReleaseWorkerSlot(c) PROVE ShapeInv' /\ SlotInv'
  <2>1. c \in Holders /\ thread[c] # "running" /\ call[c] \in Ended
    BY <1>8 DEF ReleaseWorkerSlot, Holders
  <2> QED
    BY <1>8, <2>1, ReleaseKeepsSlots DEF ReleaseWorkerSlot
<1>9. CASE UNCHANGED vars
  <2>1. Holders' = Holders
    BY <1>9 DEF vars, Holders
  <2> QED
    BY <1>9, <2>1 DEF vars, SlotInv, SlotsConserved, NoLostWakeUp
<1> QED
  BY <1>1, <1>2, <1>3, <1>4, <1>5, <1>6, <1>7, <1>l, <1>8, <1>9 DEF Next

\* No slot is lost or released twice, whichever calls time out or are cancelled.
THEOREM SlotsAddUp == Spec => []SlotsConserved
<1>1. SlotInv => SlotsConserved
  BY DEF SlotInv
<1> QED
  BY <1>1, InitSlots, NextSlots, PTL DEF Spec

\* A free slot that a call waits for is always about to be handed to it: a woken waiter
\* has still to run, whichever calls arrive, end or are cancelled in between.
THEOREM WakeUpsAreNotLost == Spec => []NoLostWakeUp
<1>1. SlotInv => NoLostWakeUp
  BY DEF SlotInv
<1> QED
  BY <1>1, InitSlots, NextSlots, PTL DEF Spec

\* The semaphore's counter stays between zero and its bound, and the rest of the
\* state has its types.
THEOREM ExecutorTypes == Spec => []TypeOK
<1>1. ShapeInv /\ SlotInv => TypeOK
  BY HoldersFinite, ConcurrencyAssumption
  DEF ShapeInv, ShapeTypes, SlotInv, SlotsConserved, TypeOK
<1> QED
  BY <1>1, InitSlots, NextSlots, PTL DEF Spec

\* There are never more parser threads than resume_parser_max_concurrency: a thread
\* that outlives its call keeps the call's slot.
THEOREM ThreadsBounded == Spec => []BoundedThreads
<1>1. ShapeInv /\ SlotInv => BoundedThreads
  <2> SUFFICES ASSUME ShapeInv, SlotInv PROVE BoundedThreads
    OBVIOUS
  <2> DEFINE Running == {c \in Calls : thread[c] = "running"}
  <2>1. Running \in SUBSET Holders
    BY DEF ShapeInv, ThreadInv, Holders
  <2>2. Cardinality(Running) <= Cardinality(Holders) /\ Cardinality(Running) \in Nat
    BY <2>1, HoldersFinite, FS_Subset, FS_CardinalityType
  <2>3. Cardinality(Holders) <= MaxConcurrency
    BY HoldersFinite, ConcurrencyAssumption
    DEF ShapeInv, ShapeTypes, SlotInv, SlotsConserved
  <2> QED
    BY <2>2, <2>3, HoldersFinite, ConcurrencyAssumption DEF BoundedThreads
<1> QED
  BY <1>1, InitSlots, NextSlots, PTL DEF Spec
=============================================================================
