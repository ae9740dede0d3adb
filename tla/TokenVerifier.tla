---------------------------- MODULE TokenVerifier ----------------------------
(***************************************************************************)
(* SupabaseJwtVerifier of app/auth/verifier.py: the signing keys of the    *)
(* provider in a cache that the requests of the process share.  A lock     *)
(* serializes the fetches, an unknown key id causes one fetch out of turn  *)
(* and then none for a while.  The lock is an asyncio.Lock, which serves   *)
(* those who wait for it in order.  The provider publishes new keys and    *)
(* withdraws old ones, and its answer may fail to come.                    *)
(*                                                                         *)
(* Time is counted in ticks.  What the event loop does takes none: a tick  *)
(* passes only when each request is idle, waits for the lock or fetches.   *)
(* That a fetch ends within MaxFetch is an assumption: the timeout that    *)
(* urlopen is given bounds each operation of the socket, not their sum.    *)
(***************************************************************************)
EXTENDS Integers, Sequences, FiniteSets

CONSTANTS Tokens,      \* verifications at the same time
          Kids,        \* key ids
          Published,   \* the sets of keys that the provider offers, in order
          TTL, Cooldown,   \* cache_ttl_seconds, unknown_kid_refresh_cooldown_seconds
          MaxFetch,    \* longest time of a fetch (see above)
          Nobody

ASSUME VerifierConstants ==
  /\ Published \in Seq(SUBSET Kids) /\ Published # <<>>
  /\ {TTL, Cooldown} \subseteq Nat \ {0} /\ MaxFetch \in Nat
  /\ Nobody \notin Tokens

VARIABLES
  step,       \* where each verification is
  kid,        \* the key id of its token
  doc, took,  \* what its fetch returns, and how long it has taken
  moved,      \* verifications that find another _fetched_at than they observed
  own,        \* verifications that have refreshed for their key themselves
  keys,       \* _keys
  fetched,    \* the age of _keys, TTL when old or never fetched
  refreshed,  \* time since _last_unknown_kid_refresh_at, up to Cooldown
  lock,       \* the holder of _lock
  queue,      \* who waits for _lock, the first to wait first
  phase,      \* what the provider publishes
  offered,    \* history: verifications whose key has been published since they began
  withdrawn   \* history: how long ago a key was withdrawn, up to TTL + MaxFetch

verifierVars == <<step, kid, doc, took, moved, own, keys, fetched, refreshed, lock, queue,
                  phase, offered, withdrawn>>

VerifierInit ==
  /\ step = [t \in Tokens |-> "idle"] /\ kid = [t \in Tokens |-> Nobody]
  /\ doc = [t \in Tokens |-> {}] /\ took = [t \in Tokens |-> 0]
  /\ moved = {} /\ own = {} /\ offered = {}
  /\ keys = {} /\ fetched = TTL /\ refreshed = Cooldown
  /\ lock = Nobody /\ queue = <<>> /\ phase = 1
  /\ withdrawn = [k \in Kids |-> 0]

Offer == Published[phase]

\* keys.get: the key, or what comes of its absence.
Found(t, next) == step' = [step EXCEPT ![t] = next]

\* verify raises or returns.
Over(t) ==
  /\ step' = [step EXCEPT ![t] = "idle"] /\ kid' = [kid EXCEPT ![t] = Nobody]
  /\ doc' = [doc EXCEPT ![t] = {}] /\ took' = [took EXCEPT ![t] = 0]
  /\ moved' = moved \ {t} /\ own' = own \ {t} /\ offered' = offered \ {t}

-----------------------------------------------------------------------------
\* A token with a well-formed header.
Verify(t) ==
  /\ step[t] = "idle"
  /\ Found(t, "cached")
  /\ \E k \in Kids :
       /\ kid' = [kid EXCEPT ![t] = k]
       /\ offered' = IF k \in Offer THEN offered \cup {t} ELSE offered
  /\ queue' = Append(queue, t)
  /\ UNCHANGED <<doc, took, moved, own, keys, fetched, refreshed, lock, phase, withdrawn>>

\* async with self._lock: the lock is free and it is the turn of t.
Turn(t) == lock = Nobody /\ queue # <<>> /\ Head(queue) = t

\* Mutant: the keys never grow old.
ExpiredNever == keys = {}

Expired == keys = {} \/ fetched >= TTL

\* Mutant: the lock is given up for the fetch.
FetchUnlocked(t, next) ==
  /\ Found(t, next)
  /\ doc' = [doc EXCEPT ![t] = Offer]
  /\ own' = IF next = "refetch" THEN own \cup {t} ELSE own
  /\ queue' = Tail(queue)
  /\ UNCHANGED <<kid, took, moved, keys, fetched, lock, phase, offered, withdrawn>>

\* A fetch begins: the provider answers with what it publishes now.
Fetch(t, next) ==
  /\ Found(t, next)
  /\ doc' = [doc EXCEPT ![t] = Offer]
  /\ own' = IF next = "refetch" THEN own \cup {t} ELSE own
  /\ queue' = Tail(queue)
  /\ lock' = t
  /\ UNCHANGED <<kid, took, moved, keys, fetched, phase, offered, withdrawn>>

\* _get_cached_keys with keys that are young enough, and the look at them.  Without
\* the key the verification waits for the lock again, behind all others.
GetCachedKeys(t) ==
  /\ step[t] = "cached" /\ Turn(t) /\ ~Expired
  /\ IF kid[t] \in keys
       THEN Found(t, "accepted") /\ queue' = Tail(queue)
       ELSE Found(t, "unknown") /\ queue' = Append(Tail(queue), t)
  /\ UNCHANGED <<kid, doc, took, moved, own, keys, fetched, refreshed, lock, phase,
                 offered, withdrawn>>

\* _get_cached_keys with old keys or none.
FetchExpired(t) ==
  /\ step[t] = "cached" /\ Turn(t) /\ Expired
  /\ Fetch(t, "fetch")
  /\ UNCHANGED refreshed

Cooling == refreshed < Cooldown

\* _refresh_for_unknown_key: the attempt counts from its beginning.
RefreshForUnknownKey(t) ==
  /\ step[t] = "unknown" /\ Turn(t) /\ t \notin moved /\ ~Cooling
  /\ Fetch(t, "refetch")
  /\ refreshed' = 0

\* Another request has refreshed, or tried to a short time ago.
UseRefreshedKeys(t) ==
  /\ step[t] = "unknown" /\ Turn(t)
  /\ t \in moved \/ Cooling
  /\ Found(t, IF kid[t] \in keys THEN "accepted" ELSE "refused")
  /\ queue' = Tail(queue)
  /\ UNCHANGED <<kid, doc, took, moved, own, keys, fetched, refreshed, lock, phase,
                 offered, withdrawn>>

\* The document arrives; every other verification now sees another _fetched_at.
FetchKeys(t) ==
  /\ step[t] \in {"fetch", "refetch"} /\ doc[t] # {}
  /\ keys' = doc[t] /\ fetched' = 0
  /\ lock' = Nobody
  /\ \/ /\ kid[t] \in doc[t]
        /\ Found(t, "accepted") /\ UNCHANGED queue
     \/ /\ kid[t] \notin doc[t] /\ step[t] = "fetch"
        /\ Found(t, "unknown") /\ queue' = Append(queue, t)
     \/ /\ kid[t] \notin doc[t] /\ step[t] = "refetch"
        /\ Found(t, "refused") /\ UNCHANGED queue
  /\ moved' = moved \cup {u \in Tokens : step[u] = "unknown"}
  /\ doc' = [doc EXCEPT ![t] = {}] /\ took' = [took EXCEPT ![t] = 0]
  /\ UNCHANGED <<kid, own, refreshed, phase, offered, withdrawn>>

\* No answer in time, or no usable key in it: JwksUnavailableError, 503.
FetchFails(t) ==
  /\ step[t] \in {"fetch", "refetch"}
  /\ Over(t) /\ lock' = Nobody
  /\ UNCHANGED <<keys, fetched, refreshed, queue, phase, withdrawn>>

\* verify ends: the claims, or 401 for a token that does not decode or has no key.
Answer(t) ==
  /\ step[t] \in {"accepted", "refused"}
  /\ Over(t)
  /\ UNCHANGED <<keys, fetched, refreshed, lock, queue, phase, withdrawn>>

-----------------------------------------------------------------------------
\* The provider publishes the next set of keys.
Rotate ==
  /\ phase < Len(Published)
  /\ phase' = phase + 1
  /\ offered' = {t \in offered : kid[t] \in Published[phase + 1]}
  /\ withdrawn' = [k \in Kids |-> IF k \in Published[phase + 1] THEN 0 ELSE withdrawn[k]]
  /\ UNCHANGED <<step, kid, doc, took, moved, own, keys, fetched, refreshed, lock, queue>>

Waits(t) ==
  \/ step[t] = "idle"
  \/ step[t] \in {"cached", "unknown"} /\ lock # Nobody
  \/ step[t] \in {"fetch", "refetch"} /\ took[t] < MaxFetch

UpTo(n, cap) == IF n < cap THEN n + 1 ELSE n

Pass ==
  /\ \A t \in Tokens : Waits(t)
  /\ fetched' = UpTo(fetched, TTL) /\ refreshed' = UpTo(refreshed, Cooldown)
  /\ took' = [t \in Tokens |-> IF step[t] \in {"fetch", "refetch"} THEN took[t] + 1 ELSE took[t]]
  /\ withdrawn' = [k \in Kids |->
       IF k \notin Offer /\ \E i \in 1 .. phase : k \in Published[i]
       THEN UpTo(withdrawn[k], TTL + MaxFetch) ELSE 0]
  /\ UNCHANGED <<step, kid, doc, moved, own, keys, lock, queue, phase, offered>>

VerifierNext ==
  \/ \E t \in Tokens :
       \/ Verify(t) \/ GetCachedKeys(t) \/ FetchExpired(t) \/ RefreshForUnknownKey(t)
       \/ UseRefreshedKeys(t) \/ FetchKeys(t) \/ FetchFails(t) \/ Answer(t)
  \/ Rotate \/ Pass

VerifierSpec == VerifierInit /\ [][VerifierNext]_verifierVars

-----------------------------------------------------------------------------
\* The types of the state; the lock belongs to the one verification that fetches, and
\* those that wait for it wait once.
VerifierTypeOK ==
  /\ step \in [Tokens ->
       {"idle", "cached", "unknown", "fetch", "refetch", "accepted", "refused"}]
  /\ kid \in [Tokens -> Kids \cup {Nobody}]
  /\ doc \in [Tokens -> SUBSET Kids] /\ took \in [Tokens -> 0 .. MaxFetch]
  /\ moved \subseteq Tokens /\ own \subseteq Tokens /\ offered \subseteq Tokens
  /\ keys \subseteq Kids /\ fetched \in 0 .. TTL /\ refreshed \in 0 .. Cooldown
  /\ lock \in Tokens \cup {Nobody} /\ phase \in 1 .. Len(Published)
  /\ withdrawn \in [Kids -> 0 .. TTL + MaxFetch]
  /\ \A t \in Tokens : step[t] \in {"fetch", "refetch"} <=> lock = t
  /\ queue \in Seq(Tokens)
  /\ \A i, j \in DOMAIN queue : queue[i] = queue[j] => i = j
  /\ \A t \in Tokens :
       step[t] \in {"cached", "unknown"} <=> \E i \in DOMAIN queue : queue[i] = t

\* A token is accepted with a key that the provider has withdrawn only while the
\* cached document is younger than its time to live, the fetch included: no path
\* serves an older key, the one behind an unknown key id and the cooldown neither.
WithdrawnKeysExpire ==
  \A t \in Tokens : step[t] = "accepted" => withdrawn[kid[t]] < TTL + MaxFetch

\* A token whose key has been published since its verification began is refused only while
\* the cooldown of somebody else's refresh runs: a refresh of its own, and one that
\* another request completed meanwhile, brings the key.
RotatedKeyUsable ==
  \A t \in offered :
    step[t] = "refused" => t \notin own /\ t \notin moved /\ refreshed < Cooldown
=============================================================================
