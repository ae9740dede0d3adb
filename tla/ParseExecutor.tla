---------------------------- MODULE ParseExecutor ----------------------------
(***************************************************************************)
(* BoundedThreadResumeParseExecutor of app/resumes/execution.py: parsing   *)
(* of untrusted PDFs in threads, behind an asyncio.Semaphore.  A thread    *)
(* cannot be stopped, so a call that times out or is cancelled leaves its  *)
(* thread running, and its slot must stay taken until the thread is done,  *)
(* although the call that took the slot is long over.                      *)
(*                                                                         *)
(* One action is the code between two points where the event loop may run  *)
(* something else.  The semaphore, that of Python 3.12, hands a released   *)
(* slot to the first waiter, which runs only later and may be cancelled    *)
(* before it does.  Until it has run, newcomers queue even if a slot is    *)
(* free; it is up to the waiter to wake them when it runs.                 *)
(***************************************************************************)
EXTENDS Naturals, Sequences, FiniteSets

CONSTANTS Calls,           \* coroutines that call parse, over and over
          MaxConcurrency   \* resume_parser_max_concurrency

ASSUME CallsAssumption == IsFiniteSet(Calls)
ASSUME ConcurrencyAssumption == MaxConcurrency \in Nat \ {0}

VARIABLES value,     \* Semaphore._value
          waiters,   \* the pending futures of Semaphore._waiters, in order
          call,      \* where each call is, or how its last call ended
          thread,    \* the thread of the last call
          deferred   \* calls whose slot _release_worker_slot is to release

vars == <<value, waiters, call, thread, deferred>>

Ended == {"idle", "returned", "rejected", "failed", "cancelled"}
Stopped == {"none", "parsed", "rejected", "crashed"}

\* Calls that own a slot of the semaphore.
Holders == {c \in Calls : call[c] \in {"woken", "parsing"} \/ c \in deferred}

Init ==
  /\ value = MaxConcurrency
  /\ waiters = <<>>
  /\ call = [c \in Calls |-> "idle"]
  /\ thread = [c \in Calls |-> "none"]
  /\ deferred = {}

-----------------------------------------------------------------------------
(* asyncio.Semaphore                                                       *)

\* c gets on with an outcome; of the free slots the first n waiters get one each.
WakeUp(c, outcome, free, n) ==
  /\ value' = free - n
  /\ waiters' = SubSeq(waiters, n + 1, Len(waiters))
  /\ call' = [d \in Calls |->
       IF d = c THEN outcome
       ELSE IF \E i \in 1 .. n : waiters[i] = d THEN "woken" ELSE call[d]]

\* release: c gives its slot back, and the first waiter is woken, if there is one.
Release(c, outcome) ==
  WakeUp(c, outcome, value + 1, IF waiters = <<>> THEN 0 ELSE 1)

\* acquire, once its wait is over: as many waiters are woken as there are free slots.
WakeAll(c, outcome, free) ==
  WakeUp(c, outcome, free, IF free < Len(waiters) THEN free ELSE Len(waiters))

\* locked: a waiter that has been woken and has not run yet counts as well.
Locked == value = 0 \/ waiters # <<>> \/ \E c \in Calls : call[c] = "woken"

\* The waiters without the one at position i.
Without(i) ==
  [j \in 1 .. Len(waiters) - 1 |-> IF j < i THEN waiters[j] ELSE waiters[j + 1]]

-----------------------------------------------------------------------------
(* parse                                                                   *)

\* Mutant: the semaphore's check is off by one.
AcquireOneTooMany(c) ==
  /\ call[c] \in Ended /\ thread[c] \in Stopped /\ c \notin deferred
  /\ value' = value - 1
  /\ call' = [call EXCEPT ![c] = "parsing"]
  /\ thread' = [thread EXCEPT ![c] = "running"]
  /\ UNCHANGED <<waiters, deferred>>

\* await self._semaphore.acquire(), then at once the task that runs the thread.
Acquire(c) ==
  /\ call[c] \in Ended /\ thread[c] \in Stopped /\ c \notin deferred
  /\ IF Locked
       THEN /\ waiters' = Append(waiters, c)
            /\ call' = [call EXCEPT ![c] = "waiting"]
            /\ thread' = [thread EXCEPT ![c] = "none"]
            /\ UNCHANGED value
       ELSE /\ value' = value - 1
            /\ call' = [call EXCEPT ![c] = "parsing"]
            /\ thread' = [thread EXCEPT ![c] = "running"]
            /\ UNCHANGED waiters
  /\ UNCHANGED deferred

\* Mutant: a waiter that resumes leaves those behind it alone.
ResumeAlone(c) ==
  /\ call[c] = "woken"
  /\ WakeUp(c, "parsing", value, 0)
  /\ thread' = [thread EXCEPT ![c] = "running"]
  /\ UNCHANGED deferred

\* A waiter that was handed a slot resumes, and passes on the slots freed since.
Resume(c) ==
  /\ call[c] = "woken"
  /\ WakeAll(c, "parsing", value)
  /\ thread' = [thread EXCEPT ![c] = "running"]
  /\ UNCHANGED deferred

\* The parser returns, rejects the document or raises something unexpected.
ThreadEnds(c) ==
  /\ thread[c] = "running"
  /\ \E result \in {"parsed", "rejected", "crashed"} :
       thread' = [thread EXCEPT ![c] = result]
  /\ UNCHANGED <<value, waiters, call, deferred>>

\* The shielded worker is done in time: return or raise, finally release.
Return(c) ==
  /\ call[c] = "parsing" /\ thread[c] \in Stopped
  /\ Release(c, CASE thread[c] = "parsed" -> "returned"
                  [] thread[c] = "rejected" -> "rejected"
                  [] OTHER -> "failed")
  /\ UNCHANGED <<thread, deferred>>

\* Mutant: the finally block releases whatever happened.
TimeoutReleasing(c) ==
  /\ call[c] = "parsing"
  /\ Release(c, "failed")
  /\ UNCHANGED <<thread, deferred>>

\* Mutant: the release is deferred but no callback is registered.
TimeoutForgetting(c) ==
  /\ call[c] = "parsing"
  /\ call' = [call EXCEPT ![c] = "failed"]
  /\ UNCHANGED <<value, waiters, thread, deferred>>

\* TimeoutError: the worker goes on, and may just have ended.
Timeout(c) ==
  /\ call[c] = "parsing"
  /\ call' = [call EXCEPT ![c] = "failed"]
  /\ deferred' = deferred \cup {c}
  /\ UNCHANGED <<value, waiters, thread>>

\* CancelledError while waiting for the worker.
CancelParsing(c) ==
  /\ call[c] = "parsing"
  /\ call' = [call EXCEPT ![c] = "cancelled"]
  /\ deferred' = deferred \cup {c}
  /\ UNCHANGED <<value, waiters, thread>>

\* A call is cancelled while it waits for a slot: its future is, at once.
CancelWaiting(c) ==
  /\ \E i \in 1 .. Len(waiters) : waiters[i] = c /\ waiters' = Without(i)
  /\ call' = [call EXCEPT ![c] = "leaving"]
  /\ UNCHANGED <<value, thread, deferred>>

\* Later acquire raises CancelledError in it.
Leave(c) ==
  /\ call[c] = "leaving"
  /\ WakeAll(c, "cancelled", value)
  /\ UNCHANGED <<thread, deferred>>

\* CancelledError when the slot was handed over but acquire has not returned: the
\* slot is given back.
CancelWoken(c) ==
  /\ call[c] = "woken"
  /\ WakeAll(c, "cancelled", value + 1)
  /\ UNCHANGED <<thread, deferred>>

\* The done callback of a worker whose call gave up on it.
ReleaseWorkerSlot(c) ==
  /\ c \in deferred /\ thread[c] \in Stopped
  /\ deferred' = deferred \ {c}
  /\ Release(c, call[c])
  /\ UNCHANGED thread

Next ==
  \E c \in Calls :
    \/ Acquire(c) \/ Resume(c) \/ ThreadEnds(c) \/ Return(c)
    \/ Timeout(c) \/ CancelParsing(c) \/ CancelWaiting(c) \/ Leave(c)
    \/ CancelWoken(c) \/ ReleaseWorkerSlot(c)

Spec == Init /\ [][Next]_vars

\* The event loop runs what is ready, and a parser thread comes to its end.
Fairness ==
  \A c \in Calls :
    /\ WF_vars(Resume(c) \/ CancelWoken(c)) /\ WF_vars(Leave(c))
    /\ WF_vars(ThreadEnds(c))
    /\ WF_vars(Return(c) \/ Timeout(c) \/ CancelParsing(c))
    /\ WF_vars(ReleaseWorkerSlot(c))

FairSpec == Spec /\ Fairness

-----------------------------------------------------------------------------
\* The semaphore never goes below zero or above its bound.
TypeOK ==
  /\ value \in 0 .. MaxConcurrency
  /\ waiters \in Seq(Calls)
  /\ call \in [Calls -> Ended \cup {"waiting", "leaving", "woken", "parsing"}]
  /\ thread \in [Calls -> Stopped \cup {"running"}]
  /\ deferred \subseteq Calls

\* Never more than max_concurrency parser threads, however calls time out, are
\* cancelled and are followed by new ones.
BoundedThreads ==
  Cardinality({c \in Calls : thread[c] = "running"}) <= MaxConcurrency

\* No slot is lost or released twice: those that are free and those that have an
\* owner always add up.
SlotsConserved == value + Cardinality(Holders) = MaxConcurrency

\* A call never waits for a slot that is free with nobody left to hand it over: a
\* woken waiter is still to run, and will pass the slot on, cancelled or not.
NoLostWakeUp == value > 0 /\ waiters # <<>> => \E c \in Calls : call[c] = "woken"

\* A call that waits for a slot gets one or is cancelled, provided that threads
\* end: timeouts and cancellations leak no slot.
WaiterServed == \A c \in Calls : call[c] = "waiting" ~> call[c] # "waiting"
=============================================================================
