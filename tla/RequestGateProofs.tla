-------------------------- MODULE RequestGateProofs --------------------------
(***************************************************************************)
(* Proofs about the two gates of a request: AccessControl, for any number  *)
(* of concurrent requests, administrators, rules, networks and limited     *)
(* clients, any capacity and any window of the limiter; TokenVerifier, for *)
(* any number of concurrent verifications, any sequence of published key   *)
(* sets, any time to live, cooldown and fetch timeout; and both together.  *)
(*                                                                         *)
(* The allowlist: PendingInv says that the checks of a pending change still *)
(* hold when it commits, because whoever has passed them holds the lock    *)
(* (MutexInv).  The limiter: OrderInv says that the last client is behind   *)
(* all others, so with room for two the one that is evicted is another.    *)
(*                                                                         *)
(* Two arguments meet in the verification of tokens.  FreshInv: one that   *)
(* another one's fetch has overtaken is served before the lock is held     *)
(* over a fetch again, so the keys it is given are young; this is where    *)
(* the order in which the lock is granted matters.  AgeInv and OfferInv    *)
(* relate what is cached and what is being fetched to what the provider    *)
(* has published since.                                                    *)
(***************************************************************************)
EXTENDS RequestGate, FiniteSetTheorems, SequenceTheorems, TLAPS

-----------------------------------------------------------------------------
(* AccessControl.                                                          *)

RequestsOK ==
  /\ pc \in [Requests -> {"idle", "allow", "limit", "app", "commit"}]
  /\ ip \in [Requests -> Ips \cup {None}] /\ op \in [Requests -> Changes \cup {None}]
  /\ mutex \in Requests \cup {None}

RulesOK ==
  /\ DOMAIN rules \subseteq RuleIds
  /\ \A i \in DOMAIN rules : rules[i] \in [cidr : Networks, enabled : BOOLEAN]
  /\ \A i, j \in DOMAIN rules : rules[i].cidr = rules[j].cidr => i = j
  /\ keeper \in Ips \cup {None}

StoreOK ==
  /\ entries \subseteq Keys /\ IsFiniteSet(entries) /\ Cardinality(entries) <= MaxKeys
  /\ age \in [Keys -> 0 .. Window] /\ count \in [Keys -> Nat]
  /\ older \subseteq entries \X entries
  /\ \A k, l \in entries : k # l => (<<k, l>> \in older <=> <<l, k>> \notin older)
  /\ \A k, l, m \in entries : <<k, l>> \in older /\ <<l, m>> \in older => <<k, m>> \in older
  /\ \A k \in entries : <<k, k>> \notin older
  /\ lastKey \in Keys \cup {None}

\* The lock is held from the checks of a change to the end of its transaction.
MutexInv == \A r \in Requests : pc[r] = "commit" <=> mutex = r

\* What the checks of a change have found is still so.
Sound(r, new) ==
  /\ new \in Changes
  /\ new.kind = "create" => new.id \notin DOMAIN rules /\ ~Used(new.cidr)
  /\ new.kind # "create" => new.id \in DOMAIN rules /\ GuardLockout(r, new)
  /\ new.kind = "update" => new.cidr = rules[new.id].cidr \/ ~Used(new.cidr)
  /\ new.kind = "delete" => ~new.enabled

PendingInv == \A r \in Requests : pc[r] = "commit" => Sound(r, op[r])

\* The client that came last is the last entry.
OrderInv == \A k \in entries : lastKey \in entries /\ k # lastKey => <<k, lastKey>> \in older

-----------------------------------------------------------------------------
(* The address of a caller.                                                *)

\* A set of positions of a sequence has a last one.
LEMMA LastPosition ==
  ASSUME NEW n \in Nat, NEW F \in SUBSET (1 .. n), F # {}
  PROVE  Max(F) \in F /\ \A i \in F : Max(F) >= i
<1> DEFINE T == {i .. n : i \in F}
<1>1. T # {} /\ T \subseteq SUBSET (1 .. n)
  <2>1. \A i \in F : i .. n \in SUBSET (1 .. n)
    OBVIOUS
  <2> QED
    BY <2>1
<1>2. IsFiniteSet(1 .. n)
  BY FS_Interval
<1>3. T \subseteq FiniteSubsetsOf(1 .. n)
  BY <1>1, <1>2, FS_Subset DEF FiniteSubsetsOf
<1>4. PICK B \in T : \A C \in T : ~(<<C, B>> \in StrictSubsetOrdering(1 .. n))
  BY <1>1, <1>3, FS_StrictSubsetOrderingWellFounded, WFMin
<1>5. PICK m \in F : B = m .. n
  BY <1>4
<1>6. ASSUME NEW i \in F, i > m PROVE FALSE
  <2>1. i .. n \in T /\ (i .. n) \subseteq B /\ i .. n # B
    BY <1>5, <1>6
  <2> QED
    BY <1>1, <1>4, <2>1 DEF StrictSubsetOrdering
<1>7. \E x \in F : \A y \in F : x >= y
  BY <1>6
<1> QED
  BY <1>7 DEF Max

\* Where a chain has foreign hops, the last of them is the caller.
LEMMA LastForeign ==
  ASSUME NEW chain \in Seq(Ips \cup {None}), Foreign(chain) # {}
  PROVE  LET m == Max(Foreign(chain)) IN
         /\ m \in 1 .. Len(chain) /\ chain[m] \notin Trusted
         /\ \A i \in 1 .. Len(chain) : chain[i] \notin Trusted => m >= i
<1>1. Len(chain) \in Nat /\ Foreign(chain) \in SUBSET (1 .. Len(chain))
  BY LenProperties DEF Foreign
<1>2. Max(Foreign(chain)) \in Foreign(chain) /\ \A i \in Foreign(chain) : Max(Foreign(chain)) >= i
  BY <1>1, LastPosition
<1> QED
  BY <1>1, <1>2, LenProperties DEF Foreign

\* Whatever the headers say, the caller is an address or unknown.
LEMMA CallersTyped == Callers \subseteq Ips \cup {None}
<1>1. ASSUME NEW chain \in Chains PROVE chain \in Seq(Ips \cup {None})
  BY DEF Chains
<1>2. ASSUME NEW peer \in Ips \cup {None}, NEW chain \in Seq(Ips \cup {None})
      PROVE  Resolve(peer, chain) \in Ips \cup {None}
  <2>1. ASSUME chain # <<>> PROVE chain[1] \in Ips \cup {None}
    BY <2>1, EmptySeq, LenProperties
  <2>2. ASSUME Foreign(chain) # {} PROVE chain[Max(Foreign(chain))] \in Ips \cup {None}
    BY <2>2, LastForeign, ElementOfSeq
  <2> QED
    BY <2>1, <2>2 DEF Resolve
<1>3. ASSUME NEW c \in Callers PROVE c \in Ips \cup {None}
  <2>1. \E peer \in Ips \cup {None}, chain \in Chains : c = Resolve(peer, chain)
    BY DEF Callers
  <2> QED
    BY <1>1, <1>2, <2>1
<1> QED
  BY <1>3

\* The parts of a chain are those of its two ends.
LEMMA ConcatKeepsParts ==
  ASSUME NEW S, NEW near \in Seq(S), NEW far \in Seq(S), NEW part \in ToSet(near) \cup ToSet(far)
  PROVE  part \in ToSet(far \o near)
<1> DEFINE all == far \o near
<1>1. /\ all \in Seq(S) /\ Len(all) = Len(far) + Len(near)
      /\ Len(far) \in Nat /\ Len(near) \in Nat
      /\ \A i \in 1 .. Len(far) : all[i] = far[i]
      /\ \A i \in 1 .. Len(near) : all[Len(far) + i] = near[i]
  BY ConcatProperties, LenProperties
<1> HIDE DEF all
<1>2. \E i \in 1 .. Len(all) : all[i] = part
  <2>1. CASE part \in ToSet(far)
    <3>1. PICK i \in 1 .. Len(far) : far[i] = part
      BY <2>1, LenProperties DEF ToSet
    <3> QED
      BY <1>1, <3>1
  <2>2. CASE part \in ToSet(near)
    <3>1. PICK i \in 1 .. Len(near) : near[i] = part
      BY <2>2, LenProperties DEF ToSet
    <3>2. Len(far) + i \in 1 .. Len(all) /\ all[Len(far) + i] = part
      BY <1>1, <3>1
    <3> QED
      BY <3>2
  <2> QED
    BY <2>1, <2>2
<1>3. part \in ToSet(all)
  BY <1>1, <1>2, LenProperties DEF ToSet
<1> QED
  BY <1>3 DEF all

\* Behind a hop that is no proxy the rest of a chain that parses does not count, however long.
LEMMA FarHopsIgnored ==
  ASSUME NEW peer \in Ips, NEW near \in Seq(Ips), NEW far \in Seq(Ips),
         {peer} \cup ToSet(near) \notin SUBSET Trusted
  PROVE  Resolve(peer, far \o near) = Resolve(peer, near)
<1>1. CASE peer \notin Trusted
  BY <1>1 DEF Resolve
<1>2. CASE peer \in Trusted
  <2> DEFINE all == far \o near
  <2>1. /\ all \in Seq(Ips) /\ Len(all) = Len(far) + Len(near)
        /\ Len(far) \in Nat /\ Len(near) \in Nat
        /\ \A i \in 1 .. Len(near) : all[Len(far) + i] = near[i]
    BY ConcatProperties, LenProperties
  <2>2. near \in Seq(Ips \cup {None}) /\ all \in Seq(Ips \cup {None})
    BY <2>1
  <2> HIDE DEF all
  <2>3. PICK i \in DOMAIN near : near[i] \notin Trusted
    BY <1>2 DEF ToSet
  <2>4. i \in 1 .. Len(near) /\ i \in Foreign(near) /\ near # <<>>
    BY <2>3, LenProperties, EmptySeq DEF Foreign
  <2>5. Len(far) + i \in Foreign(all) /\ all # <<>>
    BY <2>1, <2>3, <2>4, LenProperties, EmptySeq DEF Foreign
  <2> DEFINE m == Max(Foreign(near))
             l == Max(Foreign(all))
  <2>6. /\ m \in 1 .. Len(near) /\ near[m] \notin Trusted
        /\ \A j \in 1 .. Len(near) : near[j] \notin Trusted => m >= j
    BY <2>2, <2>4, LastForeign
  <2>7. /\ l \in 1 .. Len(all) /\ all[l] \notin Trusted
        /\ \A j \in 1 .. Len(all) : all[j] \notin Trusted => l >= j
    BY <2>2, <2>5, LastForeign
  <2> HIDE DEF m, l
  <2>8. l >= Len(far) + m
    <3>1. Len(far) + m \in 1 .. Len(all) /\ all[Len(far) + m] = near[m]
      BY <2>1, <2>6
    <3> QED
      BY <2>6, <2>7, <3>1
  <2>9. l - Len(far) \in 1 .. Len(near) /\ all[l] = near[l - Len(far)]
    <3>1. l - Len(far) \in 1 .. Len(near) /\ Len(far) + (l - Len(far)) = l
      BY <2>1, <2>6, <2>7, <2>8
    <3> QED
      BY <2>1, <3>1
  <2>10. all[l] = near[m]
    <3>1. m >= l - Len(far)
      BY <2>6, <2>7, <2>9
    <3>2. l - Len(far) = m
      BY <2>1, <2>6, <2>7, <2>8, <2>9, <3>1
    <3> QED
      BY <2>9, <3>2
  <2>11. None \notin ToSet(near) /\ None \notin ToSet(all)
    BY <2>1, AccessConstants, LenProperties, ElementOfSeq DEF ToSet
  <2> QED
    BY <1>2, <2>4, <2>5, <2>10, <2>11 DEF Resolve, all, m, l
<1> QED
  BY <1>1, <1>2

-----------------------------------------------------------------------------
(* The requests and the lock.                                              *)

\* A change that passes the checks is sound.
LEMMA CheckedIsSound ==
  ASSUME RulesOK, NEW r \in Requests, NEW new \in Creations \cup Updates(r) \cup Deletions(r)
  PROVE  Sound(r, new)
<1>1. CASE new \in Creations
  BY <1>1 DEF Creations, Sound, Changes, Used
<1>2. CASE new \in Updates(r)
  BY <1>2 DEF Updates, Sound, Changes, RulesOK
<1>3. CASE new \in Deletions(r)
  <2>1. PICK i \in DOMAIN rules :
          new = [kind |-> "delete", id |-> i, cidr |-> rules[i].cidr, enabled |-> FALSE]
    BY <1>3 DEF Deletions
  <2>2. GuardLockout(r, new)
    BY <1>3 DEF Deletions
  <2>3. i \in RuleIds /\ rules[i].cidr \in Networks
    BY DEF RulesOK
  <2>4. new \in Changes
    BY <2>1, <2>3 DEF Changes
  <2> QED
    BY <2>1, <2>2, <2>4 DEF Sound
<1> QED
  BY <1>1, <1>2, <1>3

\* Every handler leaves its request at one of its steps.
LEMMA NextRequestsOK == RequestsOK /\ RulesOK /\ [Next]_vars => RequestsOK'
<1> SUFFICES ASSUME RequestsOK, RulesOK, [Next]_vars PROVE RequestsOK'
  OBVIOUS
<1> USE DEF RequestsOK
<1>1. ASSUME NEW r \in Requests, Arrive(r) PROVE RequestsOK'
  BY <1>1, CallersTyped DEF Arrive
<1>2. ASSUME NEW r \in Requests, Allow(r) PROVE RequestsOK'
  BY <1>2 DEF Allow, Goto, store
<1>3. ASSUME NEW r \in Requests, Deny(r) PROVE RequestsOK'
  BY <1>3 DEF Deny, Leave, store
<1>4. ASSUME NEW r \in Requests, RateLimit(r) PROVE RequestsOK'
  BY <1>4 DEF RateLimit, Goto, Leave
<1>5. ASSUME NEW r \in Requests, Unlimited(r) PROVE RequestsOK'
  BY <1>5 DEF Unlimited, Goto, store
<1>6. ASSUME NEW r \in Requests, LimitFails(r) PROVE RequestsOK'
  BY <1>6 DEF LimitFails, Leave, store
<1>7. ASSUME NEW r \in Requests, Check(r) PROVE RequestsOK'
  <2>1. PICK new \in Creations \cup Updates(r) \cup Deletions(r) : op' = [op EXCEPT ![r] = new]
    BY <1>7 DEF Check
  <2>2. new \in Changes
    BY CheckedIsSound DEF Sound
  <2> QED
    BY <1>7, <2>1, <2>2 DEF Check, LockMutations
<1>8. ASSUME NEW r \in Requests, Done(r) PROVE RequestsOK'
  BY <1>8 DEF Done, Leave, store
<1>9. ASSUME NEW r \in Requests, Commit(r) PROVE RequestsOK'
  BY <1>9 DEF Commit, Leave, store
<1>10. ASSUME NEW r \in Requests, Rollback(r) PROVE RequestsOK'
  BY <1>10 DEF Rollback, Leave, store
<1>11. ASSUME Tick PROVE RequestsOK'
  BY <1>11 DEF Tick, store
<1>12. CASE UNCHANGED vars
  BY <1>12 DEF vars, store
<1> QED
  BY <1>1, <1>2, <1>3, <1>4, <1>5, <1>6, <1>7, <1>8, <1>9, <1>10, <1>11, <1>12 DEF Next

\* The lock is taken with the checks and given up with the transaction.
LEMMA NextMutexInv == RequestsOK /\ MutexInv /\ [Next]_vars => MutexInv'
<1> SUFFICES ASSUME RequestsOK, MutexInv, [Next]_vars PROVE MutexInv'
  OBVIOUS
<1> USE AccessConstants DEF RequestsOK, MutexInv
<1>1. ASSUME NEW r \in Requests, Arrive(r) PROVE MutexInv'
  BY <1>1 DEF Arrive, store
<1>2. ASSUME NEW r \in Requests, Allow(r) PROVE MutexInv'
  BY <1>2 DEF Allow, Goto, store
<1>3. ASSUME NEW r \in Requests, Deny(r) PROVE MutexInv'
  BY <1>3 DEF Deny, Leave, store
<1>4. ASSUME NEW r \in Requests, RateLimit(r) PROVE MutexInv'
  BY <1>4 DEF RateLimit, Goto, Leave
<1>5. ASSUME NEW r \in Requests, Unlimited(r) PROVE MutexInv'
  BY <1>5 DEF Unlimited, Goto, store
<1>6. ASSUME NEW r \in Requests, LimitFails(r) PROVE MutexInv'
  BY <1>6 DEF LimitFails, Leave, store
<1>7. ASSUME NEW r \in Requests, Check(r) PROVE MutexInv'
  BY <1>7 DEF Check, LockMutations, store
<1>8. ASSUME NEW r \in Requests, Done(r) PROVE MutexInv'
  BY <1>8 DEF Done, Leave, store
<1>9. ASSUME NEW r \in Requests, Commit(r) PROVE MutexInv'
  BY <1>9 DEF Commit, Leave, store
<1>10. ASSUME NEW r \in Requests, Rollback(r) PROVE MutexInv'
  BY <1>10 DEF Rollback, Leave, store
<1>11. ASSUME Tick PROVE MutexInv'
  BY <1>11 DEF Tick, store
<1>12. CASE UNCHANGED vars
  BY <1>12 DEF vars, store
<1> QED
  BY <1>1, <1>2, <1>3, <1>4, <1>5, <1>6, <1>7, <1>8, <1>9, <1>10, <1>11, <1>12 DEF Next

-----------------------------------------------------------------------------
(* The allowlist.                                                          *)

\* Rules that are kept cover what they covered.
LEMMA MoreRulesCoverMore ==
  ASSUME NEW f, NEW g, \A i \in DOMAIN f : i \in DOMAIN g /\ g[i] = f[i]
  PROVE  Covered(f) \subseteq Covered(g)
  BY DEF Covered

\* Only a commit changes the rules, and a sound change leaves one rule of each network.
LEMMA NextRulesOK == RequestsOK /\ RulesOK /\ PendingInv /\ [Next]_vars => RulesOK'
<1> SUFFICES ASSUME RequestsOK, RulesOK, PendingInv, [Next]_vars PROVE RulesOK'
  OBVIOUS
<1> USE DEF RulesOK
<1>1. ASSUME NEW r \in Requests, Arrive(r) PROVE RulesOK'
  BY <1>1 DEF Arrive, store
<1>2. ASSUME NEW r \in Requests, Allow(r) PROVE RulesOK'
  BY <1>2 DEF Allow, Goto, store
<1>3. ASSUME NEW r \in Requests, Deny(r) PROVE RulesOK'
  BY <1>3 DEF Deny, Leave, store
<1>4. ASSUME NEW r \in Requests, RateLimit(r) PROVE RulesOK'
  BY <1>4 DEF RateLimit
<1>5. ASSUME NEW r \in Requests, Unlimited(r) PROVE RulesOK'
  BY <1>5 DEF Unlimited, Goto, store
<1>6. ASSUME NEW r \in Requests, LimitFails(r) PROVE RulesOK'
  BY <1>6 DEF LimitFails, Leave, store
<1>7. ASSUME NEW r \in Requests, Check(r) PROVE RulesOK'
  BY <1>7 DEF Check, LockMutations, store
<1>8. ASSUME NEW r \in Requests, Done(r) PROVE RulesOK'
  BY <1>8 DEF Done, Leave, store
<1>9. ASSUME NEW r \in Requests, Commit(r) PROVE RulesOK'
  <2>1. Sound(r, op[r]) /\ rules' = Apply(op[r])
    BY <1>9 DEF Commit, PendingInv
  <2>2. keeper' \in Ips \cup {None}
    BY <1>9 DEF Commit, RequestsOK
  <2>3. CASE op[r].kind = "delete"
    BY <2>1, <2>2, <2>3 DEF Apply
  <2>4. CASE op[r].kind # "delete"
    BY <2>1, <2>2, <2>4 DEF Apply, Sound, Changes, Used
  <2> QED
    BY <2>3, <2>4
<1>10. ASSUME NEW r \in Requests, Rollback(r) PROVE RulesOK'
  BY <1>10 DEF Rollback, Leave, store
<1>11. ASSUME Tick PROVE RulesOK'
  BY <1>11 DEF Tick, store
<1>12. CASE UNCHANGED vars
  BY <1>12 DEF vars, store
<1> QED
  BY <1>1, <1>2, <1>3, <1>4, <1>5, <1>6, <1>7, <1>8, <1>9, <1>10, <1>11, <1>12 DEF Next

\* What the checks have found stays so until the commit: nobody else commits before.
LEMMA NextPendingInv == RequestsOK /\ RulesOK /\ MutexInv /\ PendingInv /\ [Next]_vars => PendingInv'
<1> SUFFICES ASSUME RequestsOK, RulesOK, MutexInv, PendingInv, [Next]_vars PROVE PendingInv'
  OBVIOUS
<1>u. ASSUME UNCHANGED rules, NEW q \in Requests, ip'[q] = ip[q], op'[q] = op[q], Sound(q, op[q])
      PROVE  Sound(q, op[q])'
  BY <1>u DEF Sound, GuardLockout, Covered, Used
<1>o. ASSUME UNCHANGED rules,
             \A q \in Requests : pc'[q] = "commit" => pc[q] = "commit" /\ ip'[q] = ip[q] /\ op'[q] = op[q]
      PROVE  PendingInv'
  BY <1>o, <1>u DEF PendingInv
<1> USE DEF RequestsOK
<1>1. ASSUME NEW r \in Requests, Arrive(r) PROVE PendingInv'
  BY <1>1, <1>o DEF Arrive, store
<1>2. ASSUME NEW r \in Requests, Allow(r) PROVE PendingInv'
  BY <1>2, <1>o DEF Allow, Goto, store
<1>3. ASSUME NEW r \in Requests, Deny(r) PROVE PendingInv'
  BY <1>3, <1>o DEF Deny, Leave, store
<1>4. ASSUME NEW r \in Requests, RateLimit(r) PROVE PendingInv'
  BY <1>4, <1>o DEF RateLimit, Goto, Leave
<1>5. ASSUME NEW r \in Requests, Unlimited(r) PROVE PendingInv'
  BY <1>5, <1>o DEF Unlimited, Goto, store
<1>6. ASSUME NEW r \in Requests, LimitFails(r) PROVE PendingInv'
  BY <1>6, <1>o DEF LimitFails, Leave, store
<1>7. ASSUME NEW r \in Requests, Check(r) PROVE PendingInv'
  <2>1. PICK new \in Creations \cup Updates(r) \cup Deletions(r) : op' = [op EXCEPT ![r] = new]
    BY <1>7 DEF Check
  <2>2. /\ op'[r] = new /\ UNCHANGED <<rules, ip>>
        /\ \A q \in Requests \ {r} : pc'[q] = pc[q] /\ op'[q] = op[q]
    BY <1>7, <2>1 DEF Check
  <2>3. Sound(r, new)'
    <3>1. Sound(r, new) /\ ip'[r] = ip[r] /\ rules' = rules
      BY <2>2, CheckedIsSound
    <3> QED
      BY <3>1 DEF Sound, GuardLockout, Used
  <2>4. \A q \in Requests \ {r} : pc'[q] = "commit" => Sound(q, op[q])'
    BY <1>u, <2>2 DEF PendingInv
  <2> QED
    BY <2>2, <2>3, <2>4 DEF PendingInv
<1>8. ASSUME NEW r \in Requests, Done(r) PROVE PendingInv'
  BY <1>8, <1>o DEF Done, Leave, store
<1>9. ASSUME NEW r \in Requests, Commit(r) PROVE PendingInv'
  <2>1. \A q \in Requests : pc'[q] # "commit"
    BY <1>9, AccessConstants DEF Commit, Leave, MutexInv
  <2> QED
    BY <2>1 DEF PendingInv
<1>10. ASSUME NEW r \in Requests, Rollback(r) PROVE PendingInv'
  BY <1>10, <1>o DEF Rollback, Leave, store
<1>11. ASSUME Tick PROVE PendingInv'
  BY <1>11, <1>o DEF Tick, store
<1>12. CASE UNCHANGED vars
  BY <1>12, <1>o DEF vars, store
<1> QED
  BY <1>1, <1>2, <1>3, <1>4, <1>5, <1>6, <1>7, <1>8, <1>9, <1>10, <1>11, <1>12 DEF Next

\* A change by somebody else is a creation, which takes no address away.
LEMMA NextKeeper == RequestsOK /\ RulesOK /\ PendingInv /\ KeeperNotLockedOut /\ [Next]_vars => KeeperNotLockedOut'
<1> SUFFICES ASSUME RequestsOK, RulesOK, PendingInv, KeeperNotLockedOut, [Next]_vars PROVE KeeperNotLockedOut'
  OBVIOUS
<1>u. ASSUME UNCHANGED <<rules, keeper>> PROVE KeeperNotLockedOut'
  BY <1>u DEF KeeperNotLockedOut, Covered
<1>1. ASSUME NEW r \in Requests, Arrive(r) PROVE KeeperNotLockedOut'
  BY <1>1, <1>u DEF Arrive, store
<1>2. ASSUME NEW r \in Requests, Allow(r) PROVE KeeperNotLockedOut'
  BY <1>2, <1>u DEF Allow, Goto, store
<1>3. ASSUME NEW r \in Requests, Deny(r) PROVE KeeperNotLockedOut'
  BY <1>3, <1>u DEF Deny, Leave, store
<1>4. ASSUME NEW r \in Requests, RateLimit(r) PROVE KeeperNotLockedOut'
  BY <1>4, <1>u DEF RateLimit
<1>5. ASSUME NEW r \in Requests, Unlimited(r) PROVE KeeperNotLockedOut'
  BY <1>5, <1>u DEF Unlimited, Goto, store
<1>6. ASSUME NEW r \in Requests, LimitFails(r) PROVE KeeperNotLockedOut'
  BY <1>6, <1>u DEF LimitFails, Leave, store
<1>7. ASSUME NEW r \in Requests, Check(r) PROVE KeeperNotLockedOut'
  BY <1>7, <1>u DEF Check, LockMutations, store
<1>8. ASSUME NEW r \in Requests, Done(r) PROVE KeeperNotLockedOut'
  BY <1>8, <1>u DEF Done, Leave, store
<1>9. ASSUME NEW r \in Requests, Commit(r) PROVE KeeperNotLockedOut'
  <2>1. Sound(r, op[r]) /\ rules' = Apply(op[r])
    BY <1>9 DEF Commit, PendingInv
  <2>2. CASE op[r].kind = "create"
    <3>1. \A i \in DOMAIN rules : i \in DOMAIN rules' /\ rules'[i] = rules[i]
      BY <2>1, <2>2 DEF Sound, Apply
    <3>2. Covered(rules) \subseteq Covered(rules')
      BY <3>1, MoreRulesCoverMore
    <3> QED
      BY <1>9, <2>2, <3>2 DEF Commit, KeeperNotLockedOut
  <2>3. CASE op[r].kind # "create"
    <3>1. \A i \in DOMAIN rules \ {op[r].id} : i \in DOMAIN rules' /\ rules'[i] = rules[i]
      BY <2>1 DEF Apply
    <3>2. Covered([i \in DOMAIN rules \ {op[r].id} |-> rules[i]]) \subseteq Covered(rules')
      BY <3>1, MoreRulesCoverMore
    <3>3. GuardLockout(r, op[r]) /\ op[r] \in Changes
      BY <2>1, <2>3 DEF Sound
    <3>4. op[r].kind = "update" /\ op[r].enabled => Covers[op[r].cidr] \subseteq Covered(rules')
      BY <2>1 DEF Apply, Covered
    <3>5. keeper' = ip[r]
      BY <1>9, <2>3 DEF Commit
    <3>6. op[r].enabled => op[r].kind = "update"
      BY <2>1, <2>3, <3>3 DEF Sound, Changes
    <3>7. ip[r] \in Bypass \cup Covered(rules')
      <4>1. CASE op[r].enabled
        BY <3>2, <3>3, <3>4, <3>6, <4>1 DEF GuardLockout
      <4>2. CASE ~op[r].enabled
        BY <3>2, <3>3, <4>2 DEF GuardLockout
      <4> QED
        BY <4>1, <4>2
    <3> QED
      BY <3>5, <3>7 DEF KeeperNotLockedOut
  <2> QED
    BY <2>2, <2>3
<1>10. ASSUME NEW r \in Requests, Rollback(r) PROVE KeeperNotLockedOut'
  BY <1>10, <1>u DEF Rollback, Leave, store
<1>11. ASSUME Tick PROVE KeeperNotLockedOut'
  BY <1>11, <1>u DEF Tick, store
<1>12. CASE UNCHANGED vars
  BY <1>12, <1>u DEF vars
<1> QED
  BY <1>1, <1>2, <1>3, <1>4, <1>5, <1>6, <1>7, <1>8, <1>9, <1>10, <1>11, <1>12 DEF Next

-----------------------------------------------------------------------------
(* The limiter.                                                            *)

\* Among more entries than two there is one besides any two of them.
LEMMA ThirdEntry ==
  ASSUME NEW S, IsFiniteSet(S), NEW n \in Nat \ {0, 1}, Cardinality(S) > n, NEW a, NEW b
  PROVE  \E k \in S : k # a /\ k # b
<1>1. SUFFICES ASSUME S \subseteq {a, b} PROVE FALSE
  OBVIOUS
<1>2. IsFiniteSet({a}) /\ Cardinality({a}) = 1
  BY FS_Singleton
<1>3. IsFiniteSet({a} \cup {b}) /\ Cardinality({a} \cup {b}) \in {1, 2}
  BY <1>2, FS_AddElement
<1>4. Cardinality(S) <= Cardinality({a} \cup {b}) /\ Cardinality(S) \in Nat
  BY <1>1, <1>3, FS_Subset, FS_CardinalityType
<1> QED
  BY <1>3, <1>4

\* The entries with the one that is put at the end: one more at most, in a total order
\* that ends with it and agrees with the old one.
LEMMA Placed ==
  ASSUME StoreOK, NEW key \in Keys
  PROVE  LET all == Live \cup {key}
             order == Place(key)
         IN /\ all \subseteq Keys /\ IsFiniteSet(all)
            /\ Cardinality(all) \in Nat /\ Cardinality(all) <= MaxKeys + 1
            /\ order \subseteq all \X all
            /\ \A k, l \in all : k # l => (<<k, l>> \in order <=> <<l, k>> \notin order)
            /\ \A k, l, m \in all :
                 <<k, l>> \in order /\ <<l, m>> \in order => <<k, m>> \in order
            /\ \A k \in all : <<k, k>> \notin order /\ (k # key => <<k, key>> \in order)
            /\ \A k, l \in Live \ {key} : <<k, l>> \in order <=> <<k, l>> \in older
<1>1. Live \subseteq entries /\ Live \subseteq Keys
  BY DEF Live, StoreOK
<1>2. IsFiniteSet(Live) /\ Cardinality(Live) <= Cardinality(entries) /\ Cardinality(Live) \in Nat
      /\ Cardinality(entries) \in Nat
  BY <1>1, FS_Subset, FS_CardinalityType DEF StoreOK
<1>3. IsFiniteSet(Live \cup {key})
      /\ Cardinality(Live \cup {key}) \in {Cardinality(Live), Cardinality(Live) + 1}
  BY <1>2, FS_AddElement
<1>4. Cardinality(Live \cup {key}) \in Nat /\ Cardinality(Live \cup {key}) <= MaxKeys + 1
  BY <1>2, <1>3, AccessConstants DEF StoreOK
<1>5. \A k, l \in Live \ {key} : <<k, l>> \in Place(key) <=> <<k, l>> \in older
  BY DEF Place
<1>6. \A k \in Live \ {key} : <<k, key>> \in Place(key) /\ <<key, k>> \notin Place(key)
  BY DEF Place
<1>7. <<key, key>> \notin Place(key)
  BY DEF Place
<1>8. Place(key) \subseteq (Live \cup {key}) \X (Live \cup {key})
  BY <1>1 DEF Place, StoreOK
<1>9. /\ \A k, l \in Live : k # l => (<<k, l>> \in older <=> <<l, k>> \notin older)
      /\ \A k, l, m \in Live : <<k, l>> \in older /\ <<l, m>> \in older => <<k, m>> \in older
      /\ \A k \in Live : <<k, k>> \notin older
  BY <1>1 DEF StoreOK
<1>10. \A k, l \in Live \cup {key} : k # l => (<<k, l>> \in Place(key) <=> <<l, k>> \notin Place(key))
  BY <1>5, <1>6, <1>9
<1>11. \A k, l, m \in Live \cup {key} :
         <<k, l>> \in Place(key) /\ <<l, m>> \in Place(key) => <<k, m>> \in Place(key)
  BY <1>5, <1>6, <1>7, <1>9
<1> QED
  BY <1>1, <1>3, <1>4, <1>5, <1>6, <1>7, <1>8, <1>9, <1>10, <1>11

\* A request keeps the store within its capacity, in order, with its own entry at the
\* end; the entry of the request before it stays too.
LEMMA ConsumeStep ==
  ASSUME StoreOK, OrderInv, NEW key \in Keys, Consume(key)
  PROVE  /\ StoreOK' /\ OrderInv'
         /\ \A k \in Live : k = lastKey => k \in entries' /\ count'[k] >= count[k]
<1> DEFINE all == Live \cup {key}
           order == Place(key)
<1>1. /\ all \subseteq Keys /\ IsFiniteSet(all)
      /\ Cardinality(all) \in Nat /\ Cardinality(all) <= MaxKeys + 1
      /\ order \subseteq all \X all
      /\ \A k, l \in all : k # l => (<<k, l>> \in order <=> <<l, k>> \notin order)
      /\ \A k, l, m \in all : <<k, l>> \in order /\ <<l, m>> \in order => <<k, m>> \in order
      /\ \A k \in all : <<k, k>> \notin order /\ (k # key => <<k, key>> \in order)
      /\ \A k, l \in Live \ {key} : <<k, l>> \in order <=> <<k, l>> \in older
  BY Placed
<1>2. Live \subseteq entries /\ key \in all /\ Live \subseteq all /\ all \subseteq Live \cup {key}
  BY DEF Live
<1>3. /\ entries' \in Evict(all, order)
      /\ age' = [k \in Keys |-> IF k \in entries' \cap Live THEN age[k] ELSE 0]
      /\ count' = [k \in Keys |-> IF k \notin entries' THEN 0
                                  ELSE IF k = key THEN Counted(key) ELSE count[k]]
      /\ older' = {p \in order : {p[1], p[2]} \subseteq entries'}
      /\ lastKey' = key
  BY DEF Consume
<1> HIDE DEF all, order
<1>4. /\ entries' \subseteq all /\ IsFiniteSet(entries') /\ Cardinality(entries') <= MaxKeys
      /\ \A k \in all : (k = key \/ k = lastKey) => k \in entries'
  <2>1. CASE Cardinality(all) <= MaxKeys
    BY <1>1, <1>3, <2>1 DEF Evict
  <2>2. CASE ~(Cardinality(all) <= MaxKeys)
    <3>1. PICK first \in all : entries' = all \ {first} /\ \A k \in all : <<k, first>> \notin order
      BY <1>3, <2>2 DEF Evict
    <3>2. IsFiniteSet(all \ {first}) /\ Cardinality(all \ {first}) = Cardinality(all) - 1
      BY <1>1, FS_RemoveElement
    <3>3. Cardinality(all) > MaxKeys /\ MaxKeys \in Nat \ {0, 1}
      BY <1>1, <2>2, AccessConstants
    <3>4. first # key
      <4>1. \E k \in all : k # key
        BY <1>1, <3>3, ThirdEntry
      <4> QED
        BY <1>1, <3>1, <4>1
    <3>5. first # lastKey
      <4>1. SUFFICES ASSUME first = lastKey PROVE FALSE
        OBVIOUS
      <4>2. PICK k \in all : k # key /\ k # lastKey
        BY <1>1, <3>3, ThirdEntry
      <4>3. k \in Live \ {key} /\ first \in Live \ {key}
        BY <1>2, <3>1, <3>4, <4>2
      <4>4. <<k, first>> \in older
        BY <1>2, <4>1, <4>2, <4>3 DEF OrderInv
      <4> QED
        BY <1>1, <3>1, <4>3, <4>4
    <3> QED
      BY <1>1, <3>1, <3>2, <3>3, <3>4, <3>5
  <2> QED
    BY <2>1, <2>2
<1>5. Counted(key) \in Nat /\ (key \in Live => Counted(key) >= count[key])
  <2>1. key[1] \in Groups
    BY DEF Keys
  <2>2. Limit[key[1]] \in Nat /\ count[key] \in Nat
    BY <2>1, AccessConstants DEF StoreOK
  <2> QED
    BY <2>2 DEF Counted
<1>6. age' \in [Keys -> 0 .. Window] /\ count' \in [Keys -> Nat]
  BY <1>3, <1>5, AccessConstants DEF StoreOK
<1>7. \A k, l \in entries' : <<k, l>> \in older' <=> <<k, l>> \in order
  BY <1>3
<1>8. older' \subseteq entries' \X entries'
  BY <1>1, <1>3, <1>4
<1>9. StoreOK'
  BY <1>1, <1>3, <1>4, <1>6, <1>7, <1>8 DEF StoreOK
<1>10. OrderInv'
  BY <1>1, <1>3, <1>4, <1>7 DEF OrderInv
<1>11. ASSUME NEW k \in Live, k = lastKey PROVE k \in entries' /\ count'[k] >= count[k]
  <2>1. k \in entries' /\ k \in Keys /\ count[k] \in Nat
    BY <1>1, <1>2, <1>4, <1>11 DEF StoreOK
  <2> QED
    BY <1>3, <1>5, <1>11, <2>1
<1> QED
  BY <1>9, <1>10, <1>11

\* What a step does to the store: a request at a limited route, or time.
LEMMA NextStore ==
  ASSUME StoreOK, OrderInv, RequestsOK, [Next]_vars
  PROVE  /\ StoreOK' /\ OrderInv'
         /\ \A k \in entries : k = lastKey /\ age[k] < Window => k \in entries' /\ count'[k] >= count[k]
<1> DEFINE Kept ==
      \A k \in entries : k = lastKey /\ age[k] < Window => k \in entries' /\ count'[k] >= count[k]
<1>c. \A k \in Keys : count[k] \in Nat
  BY DEF StoreOK
<1>u. ASSUME UNCHANGED store, UNCHANGED lastKey PROVE StoreOK' /\ OrderInv' /\ Kept
  <2>1. StoreOK' /\ OrderInv'
    BY <1>u DEF store, StoreOK, OrderInv
  <2> QED
    BY <1>c, <1>u, <2>1 DEF store, StoreOK
<1>1. ASSUME NEW r \in Requests, RateLimit(r) PROVE StoreOK' /\ OrderInv' /\ Kept
  <2>1. PICK g \in Groups : Consume(<<g, ip[r]>>)
    BY <1>1 DEF RateLimit
  <2>2. <<g, ip[r]>> \in Keys
    BY DEF Keys, RequestsOK
  <2> QED
    BY <2>1, <2>2, ConsumeStep DEF Live
<1>2. CASE Tick
  <2>1. UNCHANGED <<entries, count, older, lastKey>>
    BY <1>2 DEF Tick
  <2>2. age' \in [Keys -> 0 .. Window]
    BY <1>2, AccessConstants DEF Tick, Live, StoreOK
  <2>3. StoreOK' /\ OrderInv'
    BY <2>1, <2>2 DEF StoreOK, OrderInv
  <2> QED
    BY <1>c, <2>1, <2>3 DEF StoreOK
<1>3. ASSUME NEW r \in Requests,
             \/ Arrive(r) \/ Allow(r) \/ Deny(r) \/ Unlimited(r) \/ LimitFails(r)
             \/ Check(r) \/ Done(r) \/ Commit(r) \/ Rollback(r)
      PROVE  UNCHANGED store /\ UNCHANGED lastKey
  BY <1>3 DEF Arrive, Allow, Deny, Unlimited, LimitFails, Check, Done, Commit, Rollback, store
<1>4. ASSUME UNCHANGED vars PROVE UNCHANGED store /\ UNCHANGED lastKey
  BY <1>4 DEF vars, store
<1> QED
  BY <1>1, <1>2, <1>3, <1>4, <1>u DEF Next

-----------------------------------------------------------------------------
(* The promises.                                                           *)

AccessInv == RequestsOK /\ RulesOK /\ MutexInv /\ PendingInv /\ StoreOK /\ OrderInv

\* Initially there is no request, no rule and no counter.
LEMMA InitAccessInv == Init => AccessInv
<1> SUFFICES ASSUME Init PROVE AccessInv
  OBVIOUS
<1>1. RequestsOK /\ MutexInv /\ PendingInv
  BY AccessConstants DEF Init, RequestsOK, MutexInv, PendingInv
<1>2. RulesOK
  BY DEF Init, RulesOK
<1>3. IsFiniteSet({}) /\ Cardinality({}) = 0
  BY FS_EmptySet
<1>4. StoreOK /\ OrderInv
  BY <1>3, AccessConstants DEF Init, StoreOK, OrderInv
<1> QED
  BY <1>1, <1>2, <1>4 DEF AccessInv

\* Every step keeps the whole of it.
LEMMA NextAccessInv == AccessInv /\ [Next]_vars => AccessInv'
  BY NextRequestsOK, NextRulesOK, NextMutexInv, NextPendingInv, NextStore DEF AccessInv

\* The types of the state, the capacity of the limiter and the order of its entries, and
\* one rule of a network, with any number of administrators at work.
THEOREM AccessTypes == Spec => []TypeOK
<1>1. AccessInv => TypeOK
  BY DEF AccessInv, RequestsOK, RulesOK, StoreOK, TypeOK
<1> QED
  BY <1>1, InitAccessInv, NextAccessInv, PTL DEF Spec

\* No interleaving of administrators locks out the one who last changed or removed a
\* rule: the check of _guard_lockout is still true when its transaction commits.
THEOREM KeeperStaysIn == Spec => []KeeperNotLockedOut
<1>1. Init => KeeperNotLockedOut
  BY DEF Init, KeeperNotLockedOut
<1>2. AccessInv /\ KeeperNotLockedOut /\ [Next]_vars => KeeperNotLockedOut'
  BY NextKeeper DEF AccessInv
<1> QED
  BY <1>1, <1>2, InitAccessInv, NextAccessInv, PTL DEF Spec

\* The limiter never evicts the client that came last, so two clients cannot reset each
\* other's count by turns; here the capacity must be at least two.
THEOREM LatestClientStays == Spec => LatestClientCounted
<1>1. AccessInv /\ [Next]_vars =>
        [\A k \in entries :
           k = lastKey /\ age[k] < Window => k \in entries' /\ count'[k] >= count[k]]_vars
  BY NextStore DEF AccessInv
<1> QED
  BY <1>1, InitAccessInv, NextAccessInv, PTL DEF Spec, LatestClientCounted

\* What stands in X-Forwarded-For behind a hop that is no proxy does not choose the
\* caller, whatever the length of the chain and the set of proxies: if all of it parses it
\* changes nothing, and otherwise the caller is unknown.
THEOREM ForeignHopsChooseNothing == Spec => []ForeignHopsChooseNoAddress
<1>1. ASSUME NEW chain \in Chains
      PROVE  /\ chain \in Seq(Ips \cup {None})
             /\ None \notin ToSet(chain) => chain \in Seq(Ips)
  <2>1. PICK n \in Nat : chain \in [1 .. n -> Ips \cup {None}]
    BY DEF Chains
  <2>2. None \notin ToSet(chain) => chain \in [1 .. n -> Ips]
    BY <2>1 DEF ToSet
  <2> QED
    BY <2>1, <2>2
<1>2. ASSUME NEW peer \in Ips \cup {None}, NEW near \in Chains, NEW far \in Chains,
             {peer} \cup ToSet(near) \notin SUBSET Trusted
      PROVE  /\ Resolve(peer, far \o near) \in {Resolve(peer, near), None}
             /\ None \notin ToSet(far) => Resolve(peer, far \o near) = Resolve(peer, near)
  <2>1. CASE peer \notin Trusted
    BY <2>1 DEF Resolve
  <2>2. CASE peer \in Trusted /\ None \in ToSet(near) \cup ToSet(far)
    <3>1. None \in ToSet(far \o near)
      BY <1>1, <2>2, ConcatKeepsParts
    <3>2. Resolve(peer, far \o near) = None
      BY <2>2, <3>1 DEF Resolve
    <3>3. None \in ToSet(near) => Resolve(peer, near) = None
      BY <2>2 DEF Resolve
    <3> QED
      BY <2>2, <3>2, <3>3
  <2>3. CASE peer \in Trusted /\ None \notin ToSet(near) \cup ToSet(far)
    <3>1. peer \in Ips /\ near \in Seq(Ips) /\ far \in Seq(Ips)
      BY <1>1, <2>3, AccessConstants
    <3> QED
      BY <1>2, <3>1, FarHopsIgnored
  <2> QED
    BY <2>1, <2>2, <2>3
<1>3. ForeignHopsChooseNoAddress
  BY <1>2 DEF ForeignHopsChooseNoAddress
<1> QED
  BY <1>3, PTL

-----------------------------------------------------------------------------
(* TokenVerifier, and both gates.                                          *)

Fetching == {"fetch", "refetch"}
InLine == {"cached", "unknown"}

Types ==
  /\ step \in [Tokens ->
       {"idle", "cached", "unknown", "fetch", "refetch", "accepted", "refused"}]
  /\ kid \in [Tokens -> Kids \cup {Nobody}]
  /\ doc \in [Tokens -> SUBSET Kids] /\ took \in [Tokens -> 0 .. MaxFetch]
  /\ moved \subseteq Tokens /\ own \subseteq Tokens /\ offered \subseteq Tokens
  /\ keys \subseteq Kids /\ fetched \in 0 .. TTL /\ refreshed \in 0 .. Cooldown
  /\ lock \in Tokens \cup {Nobody} /\ phase \in 1 .. Len(Published)
  /\ withdrawn \in [Kids -> 0 .. TTL + MaxFetch]

\* The lock is held over a fetch, by the verification that fetches.
LockInv == \A t \in Tokens : step[t] \in Fetching <=> lock = t

Waiting(t, q) == \E i \in DOMAIN q : q[i] = t
Distinct(q) == \A i, j \in DOMAIN q : q[i] = q[j] => i = j

\* Those who want the lock wait for it, once.
QueueInv ==
  /\ queue \in Seq(Tokens) /\ Distinct(queue)
  /\ \A t \in Tokens : step[t] \in InLine <=> Waiting(t, queue)

\* What a verification knows at each step.
LocalInv ==
  \A t \in Tokens :
    /\ step[t] # "idle" => kid[t] \in Kids
    /\ step[t] \in {"idle", "cached", "fetch", "refetch"} => t \notin moved
    /\ step[t] \in {"idle", "cached", "unknown", "fetch"} => t \notin own
    /\ step[t] \notin Fetching => took[t] = 0

\* A verification that another one's fetch has overtaken waits for no further fetch:
\* the lock is free, the keys are young, and none that would fetch is ahead of it.
FreshInv ==
  \A i \in DOMAIN queue :
    step[queue[i]] = "unknown" /\ queue[i] \in moved =>
      /\ lock = Nobody /\ keys # {} /\ fetched < TTL
      /\ \A j \in 1 .. i - 1 : step[queue[j]] = "unknown" => queue[j] \in moved

\* A key that is published is not withdrawn; one that a fetch returns has been
\* withdrawn for no longer than the fetch has taken, and one that is cached for no
\* longer than that and the age of the cache.
AgeInv ==
  /\ \A k \in Offer : withdrawn[k] = 0
  /\ \A t \in Tokens : step[t] \in Fetching => \A k \in doc[t] : withdrawn[k] <= took[t]
  /\ \A k \in keys : withdrawn[k] <= fetched + MaxFetch

\* A key that was not found is still not there unless the cache has changed.
UnknownInv ==
  \A t \in Tokens : step[t] = "unknown" /\ t \notin moved => kid[t] \notin keys

\* A fetch that begins once a verification knows that its key is missing returns that
\* key, as long as the provider publishes it.
OfferInv ==
  \A t \in offered :
    /\ step[t] # "idle" /\ kid[t] \in Offer
    /\ step[t] = "unknown" =>
         /\ \A u \in Tokens : step[u] \in Fetching => kid[t] \in doc[u]
         /\ t \in moved => kid[t] \in keys
    /\ step[t] \in Fetching => kid[t] \in doc[t]

\* What is published at any time is a set of keys.
LEMMA OfferTyped == Types => \A i \in 1 .. phase + 1 : i <= Len(Published) => Published[i] \in SUBSET Kids
  BY VerifierConstants DEF Types

-----------------------------------------------------------------------------
(* The queue of the lock.                                                  *)

\* A verification that does not wait yet joins at the end.
LEMMA Join ==
  ASSUME NEW q \in Seq(Tokens), Distinct(q), NEW t \in Tokens, ~Waiting(t, q)
  PROVE  LET p == Append(q, t) IN
         /\ p \in Seq(Tokens) /\ Distinct(p)
         /\ DOMAIN p = 1 .. Len(q) + 1 /\ DOMAIN q = 1 .. Len(q) /\ Len(q) \in Nat
         /\ p[Len(q) + 1] = t /\ \A i \in DOMAIN q : p[i] = q[i]
         /\ \A u \in Tokens : Waiting(u, p) <=> Waiting(u, q) \/ u = t
<1> DEFINE p == Append(q, t)
<1>1. /\ p \in Seq(Tokens) /\ Len(q) \in Nat /\ Len(p) = Len(q) + 1
      /\ p[Len(q) + 1] = t /\ \A i \in 1 .. Len(q) : p[i] = q[i]
      /\ DOMAIN p = 1 .. Len(q) + 1 /\ DOMAIN q = 1 .. Len(q)
  BY AppendProperties, LenProperties
<1> HIDE DEF p
<1>2. Distinct(p)
  BY <1>1 DEF Distinct, Waiting
<1>3. \A u \in Tokens : Waiting(u, p) <=> Waiting(u, q) \/ u = t
  BY <1>1 DEF Waiting
<1> QED
  BY <1>1, <1>2, <1>3 DEF p

\* The first of those who wait is served.
LEMMA Served ==
  ASSUME NEW q \in Seq(Tokens), Distinct(q), q # <<>>
  PROVE  LET p == Tail(q) IN
         /\ p \in Seq(Tokens) /\ Distinct(p)
         /\ 1 \in DOMAIN q /\ q[1] = Head(q) /\ Head(q) \in Tokens
         /\ \A i \in DOMAIN p : i \in Nat /\ i > 0 /\ i + 1 \in DOMAIN q /\ p[i] = q[i + 1]
         /\ DOMAIN q = 1 .. Len(q) /\ Len(q) \in Nat /\ DOMAIN p = 1 .. Len(q) - 1
         /\ \A u \in Tokens : Waiting(u, p) <=> Waiting(u, q) /\ u # Head(q)
<1> DEFINE p == Tail(q)
<1>1. /\ p \in Seq(Tokens) /\ Len(q) \in Nat \ {0} /\ Len(p) = Len(q) - 1
      /\ Head(q) = q[1] /\ Head(q) \in Tokens
      /\ \A i \in 1 .. Len(p) : p[i] = q[i + 1]
      /\ DOMAIN p = 1 .. Len(q) - 1 /\ DOMAIN q = 1 .. Len(q)
  BY HeadTailProperties, LenProperties, EmptySeq
<1> HIDE DEF p
<1>2. Distinct(p)
  BY <1>1 DEF Distinct
<1>3. ASSUME NEW u \in Tokens PROVE Waiting(u, p) <=> Waiting(u, q) /\ u # Head(q)
  <2>1. ASSUME NEW i \in DOMAIN p PROVE p[i] # Head(q) /\ Waiting(p[i], q)
    BY <1>1 DEF Distinct, Waiting
  <2>2. ASSUME NEW i \in DOMAIN q, q[i] # Head(q) PROVE Waiting(q[i], p)
    <3>1. i - 1 \in DOMAIN p /\ p[i - 1] = q[i]
      BY <1>1, <2>2
    <3> QED
      BY <3>1 DEF Waiting
  <2> QED
    BY <2>1, <2>2 DEF Waiting
<1> QED
  BY <1>1, <1>2, <1>3 DEF p

-----------------------------------------------------------------------------
(* Types, the holder of the lock and those who wait for it.                *)

\* Nothing is fetched, cached or waited for initially.
LEMMA InitTypes == VerifierInit => Types /\ LockInv /\ QueueInv
  BY VerifierConstants
  DEF VerifierInit, Types, LockInv, QueueInv, Distinct, Waiting, Fetching, InLine

\* Every step of a verification, of the provider and of time keeps the types.
LEMMA NextTypes == Types /\ [VerifierNext]_verifierVars => Types'
<1> SUFFICES ASSUME Types, [VerifierNext]_verifierVars PROVE Types'
  OBVIOUS
<1>o. Offer \in SUBSET Kids
  BY OfferTyped, VerifierConstants DEF Types, Offer
<1> USE VerifierConstants DEF Types
<1>1. ASSUME NEW t \in Tokens, Verify(t) PROVE Types'
  BY <1>1, <1>o DEF Verify, Found
<1>2. ASSUME NEW t \in Tokens, GetCachedKeys(t) PROVE Types'
  BY <1>2, <1>o DEF GetCachedKeys, Found
<1>3. ASSUME NEW t \in Tokens, FetchExpired(t) PROVE Types'
  BY <1>3, <1>o DEF FetchExpired, Fetch, Found
<1>4. ASSUME NEW t \in Tokens, RefreshForUnknownKey(t) PROVE Types'
  BY <1>4, <1>o DEF RefreshForUnknownKey, Fetch, Found
<1>5. ASSUME NEW t \in Tokens, UseRefreshedKeys(t) PROVE Types'
  BY <1>5, <1>o DEF UseRefreshedKeys, Found
<1>6. ASSUME NEW t \in Tokens, FetchKeys(t) PROVE Types'
  <2>1. step' \in [Tokens ->
          {"idle", "cached", "unknown", "fetch", "refetch", "accepted", "refused"}]
    BY <1>6 DEF FetchKeys, Found
  <2>2. doc' \in [Tokens -> SUBSET Kids] /\ took' \in [Tokens -> 0 .. MaxFetch]
    BY <1>6 DEF FetchKeys
  <2> QED
    BY <1>6, <2>1, <2>2 DEF FetchKeys
<1>7. ASSUME NEW t \in Tokens, FetchFails(t) PROVE Types'
  BY <1>7, <1>o DEF FetchFails, Over
<1>8. ASSUME NEW t \in Tokens, Answer(t) PROVE Types'
  BY <1>8, <1>o DEF Answer, Over
<1>9. ASSUME Rotate PROVE Types'
  BY <1>9, <1>o DEF Rotate
<1>10. ASSUME Pass PROVE Types'
  <2>1. fetched' \in 0 .. TTL /\ refreshed' \in 0 .. Cooldown
    BY <1>10 DEF Pass, UpTo
  <2>2. took' \in [Tokens -> 0 .. MaxFetch]
    <3>1. \A t \in Tokens : step[t] \in Fetching => took[t] < MaxFetch
      BY <1>10 DEF Pass, Waits, Fetching
    <3>2. \A t \in Tokens :
            (IF step[t] \in {"fetch", "refetch"} THEN took[t] + 1 ELSE took[t]) \in 0 .. MaxFetch
      BY <3>1 DEF Fetching
    <3> QED
      BY <1>10, <3>2 DEF Pass
  <2>3. withdrawn' \in [Kids -> 0 .. TTL + MaxFetch]
    <3>1. \A k \in Kids : UpTo(withdrawn[k], TTL + MaxFetch) \in 0 .. TTL + MaxFetch
      BY DEF UpTo
    <3> QED
      BY <1>10, <3>1 DEF Pass
  <2> QED
    BY <1>10, <2>1, <2>2, <2>3 DEF Pass
<1>11. CASE UNCHANGED verifierVars
  BY <1>11 DEF verifierVars
<1> QED
  BY <1>1, <1>2, <1>3, <1>4, <1>5, <1>6, <1>7, <1>8, <1>9, <1>10, <1>11 DEF VerifierNext

\* Only the verification that fetches holds the lock.
LEMMA NextLockInv == Types /\ LockInv /\ [VerifierNext]_verifierVars => LockInv'
<1> SUFFICES ASSUME Types, LockInv, [VerifierNext]_verifierVars PROVE LockInv'
  OBVIOUS
<1> USE VerifierConstants DEF Types, LockInv, Fetching
<1>1. ASSUME NEW t \in Tokens, Verify(t) PROVE LockInv'
  BY <1>1 DEF Verify, Found
<1>2. ASSUME NEW t \in Tokens, GetCachedKeys(t) PROVE LockInv'
  BY <1>2 DEF GetCachedKeys, Found, Turn
<1>3. ASSUME NEW t \in Tokens, FetchExpired(t) PROVE LockInv'
  BY <1>3 DEF FetchExpired, Fetch, Found, Turn
<1>4. ASSUME NEW t \in Tokens, RefreshForUnknownKey(t) PROVE LockInv'
  BY <1>4 DEF RefreshForUnknownKey, Fetch, Found, Turn
<1>5. ASSUME NEW t \in Tokens, UseRefreshedKeys(t) PROVE LockInv'
  BY <1>5 DEF UseRefreshedKeys, Found, Turn
<1>6. ASSUME NEW t \in Tokens, FetchKeys(t) PROVE LockInv'
  BY <1>6 DEF FetchKeys, Found
<1>7. ASSUME NEW t \in Tokens, FetchFails(t) PROVE LockInv'
  BY <1>7 DEF FetchFails, Over
<1>8. ASSUME NEW t \in Tokens, Answer(t) PROVE LockInv'
  BY <1>8 DEF Answer, Over
<1>9. ASSUME Rotate PROVE LockInv'
  BY <1>9 DEF Rotate
<1>10. ASSUME Pass PROVE LockInv'
  BY <1>10 DEF Pass, UpTo, Waits
<1>11. CASE UNCHANGED verifierVars
  BY <1>11 DEF verifierVars
<1> QED
  BY <1>1, <1>2, <1>3, <1>4, <1>5, <1>6, <1>7, <1>8, <1>9, <1>10, <1>11 DEF VerifierNext

\* A verification joins the queue when it wants the lock and leaves it with the lock.
LEMMA NextQueueInv ==
  Types /\ LockInv /\ QueueInv /\ [VerifierNext]_verifierVars => QueueInv'
<1> SUFFICES ASSUME Types, LockInv, QueueInv, [VerifierNext]_verifierVars PROVE QueueInv'
  OBVIOUS
<1>q. /\ queue \in Seq(Tokens) /\ Distinct(queue)
      /\ \A t \in Tokens : step[t] \in InLine <=> Waiting(t, queue)
  BY DEF QueueInv
<1>j. ASSUME NEW t \in Tokens, step[t] \notin InLine, queue' = Append(queue, t),
             step' = [step EXCEPT ![t] = step'[t]], step'[t] \in InLine
      PROVE  QueueInv'
  <2>1. /\ queue' \in Seq(Tokens) /\ Distinct(queue')
        /\ \A u \in Tokens : Waiting(u, queue') <=> Waiting(u, queue) \/ u = t
    BY <1>q, <1>j, Join
  <2>2. \A u \in Tokens : step'[u] \in InLine <=> step[u] \in InLine \/ u = t
    BY <1>j DEF Types
  <2> QED
    BY <1>q, <2>1, <2>2 DEF QueueInv
<1>s. ASSUME NEW t \in Tokens, Turn(t), queue' = Tail(queue),
             step' = [step EXCEPT ![t] = step'[t]], step'[t] \notin InLine
      PROVE  QueueInv'
  <2>1. /\ queue' \in Seq(Tokens) /\ Distinct(queue')
        /\ \A u \in Tokens : Waiting(u, queue') <=> Waiting(u, queue) /\ u # t
    BY <1>q, <1>s, Served DEF Turn
  <2>2. \A u \in Tokens : step'[u] \in InLine <=> step[u] \in InLine /\ u # t
    BY <1>s DEF Types
  <2> QED
    BY <1>q, <2>1, <2>2 DEF QueueInv
<1>u. ASSUME queue' = queue, \A t \in Tokens : step'[t] \in InLine <=> step[t] \in InLine
      PROVE  QueueInv'
  BY <1>q, <1>u DEF QueueInv
<1> USE DEF Types, InLine
<1>1. ASSUME NEW t \in Tokens, Verify(t) PROVE QueueInv'
  BY <1>1, <1>j DEF Verify, Found
<1>2. ASSUME NEW t \in Tokens, GetCachedKeys(t) PROVE QueueInv'
  <2>1. CASE kid[t] \in keys
    BY <1>2, <1>s, <2>1 DEF GetCachedKeys, Found
  <2>2. CASE kid[t] \notin keys
    <3>1. /\ Tail(queue) \in Seq(Tokens) /\ Distinct(Tail(queue))
          /\ \A u \in Tokens : Waiting(u, Tail(queue)) <=> Waiting(u, queue) /\ u # t
      BY <1>2, <1>q, Served DEF GetCachedKeys, Turn
    <3>2. /\ queue' \in Seq(Tokens) /\ Distinct(queue')
          /\ \A u \in Tokens : Waiting(u, queue') <=> Waiting(u, Tail(queue)) \/ u = t
      <4>1. queue' = Append(Tail(queue), t) /\ ~Waiting(t, Tail(queue))
        BY <1>2, <2>2, <3>1 DEF GetCachedKeys
      <4> HIDE DEF Types, InLine
      <4> QED
        BY <3>1, <4>1, Join
    <3>3. \A u \in Tokens : step'[u] \in InLine <=> step[u] \in InLine
      BY <1>2, <2>2 DEF GetCachedKeys, Found
    <3>4. Waiting(t, queue)
      BY <1>2, <1>q DEF GetCachedKeys
    <3>5. \A u \in Tokens : Waiting(u, queue') <=> Waiting(u, queue)
      BY <3>1, <3>2, <3>4
    <3> QED
      BY <1>q, <3>2, <3>3, <3>5 DEF QueueInv
  <2> QED
    BY <2>1, <2>2
<1>3. ASSUME NEW t \in Tokens, FetchExpired(t) PROVE QueueInv'
  BY <1>3, <1>s DEF FetchExpired, Fetch, Found
<1>4. ASSUME NEW t \in Tokens, RefreshForUnknownKey(t) PROVE QueueInv'
  BY <1>4, <1>s DEF RefreshForUnknownKey, Fetch, Found
<1>5. ASSUME NEW t \in Tokens, UseRefreshedKeys(t) PROVE QueueInv'
  BY <1>5, <1>s DEF UseRefreshedKeys, Found
<1>6. ASSUME NEW t \in Tokens, FetchKeys(t) PROVE QueueInv'
  BY <1>6, <1>j, <1>u DEF FetchKeys, Found
<1>7. ASSUME NEW t \in Tokens, FetchFails(t) PROVE QueueInv'
  BY <1>7, <1>u DEF FetchFails, Over
<1>8. ASSUME NEW t \in Tokens, Answer(t) PROVE QueueInv'
  BY <1>8, <1>u DEF Answer, Over
<1>9. ASSUME Rotate PROVE QueueInv'
  BY <1>9, <1>u DEF Rotate
<1>10. ASSUME Pass PROVE QueueInv'
  BY <1>10, <1>u DEF Pass
<1>11. CASE UNCHANGED verifierVars
  BY <1>11, <1>u DEF verifierVars
<1> QED
  BY <1>1, <1>2, <1>3, <1>4, <1>5, <1>6, <1>7, <1>8, <1>9, <1>10, <1>11 DEF VerifierNext

-----------------------------------------------------------------------------
(* What a verification knows, and the order of the queue.                  *)

\* A verification learns its key id first, is overtaken only while it waits with an
\* unknown key, and refreshes for it last.
LEMMA NextLocalInv ==
  Types /\ LocalInv /\ [VerifierNext]_verifierVars => LocalInv'
<1> SUFFICES ASSUME Types, LocalInv, [VerifierNext]_verifierVars PROVE LocalInv'
  OBVIOUS
<1> USE VerifierConstants DEF Types, LocalInv, Fetching
<1>1. ASSUME NEW t \in Tokens, Verify(t) PROVE LocalInv'
  BY <1>1 DEF Verify, Found
<1>2. ASSUME NEW t \in Tokens, GetCachedKeys(t) PROVE LocalInv'
  BY <1>2 DEF GetCachedKeys, Found, Turn, Expired
<1>3. ASSUME NEW t \in Tokens, FetchExpired(t) PROVE LocalInv'
  BY <1>3 DEF FetchExpired, Fetch, Found, Turn, Expired
<1>4. ASSUME NEW t \in Tokens, RefreshForUnknownKey(t) PROVE LocalInv'
  BY <1>4 DEF RefreshForUnknownKey, Fetch, Found, Turn
<1>5. ASSUME NEW t \in Tokens, UseRefreshedKeys(t) PROVE LocalInv'
  BY <1>5 DEF UseRefreshedKeys, Found, Turn
<1>6. ASSUME NEW t \in Tokens, FetchKeys(t) PROVE LocalInv'
  BY <1>6 DEF FetchKeys, Found
<1>7. ASSUME NEW t \in Tokens, FetchFails(t) PROVE LocalInv'
  BY <1>7 DEF FetchFails, Over
<1>8. ASSUME NEW t \in Tokens, Answer(t) PROVE LocalInv'
  BY <1>8 DEF Answer, Over
<1>9. ASSUME Rotate PROVE LocalInv'
  BY <1>9 DEF Rotate
<1>10. ASSUME Pass PROVE LocalInv'
  BY <1>10 DEF Pass
<1>11. CASE UNCHANGED verifierVars
  BY <1>11 DEF verifierVars
<1> QED
  BY <1>1, <1>2, <1>3, <1>4, <1>5, <1>6, <1>7, <1>8, <1>9, <1>10, <1>11 DEF VerifierNext

\* No fetch comes between the fetch that overtakes a verification and its turn: the first
\* of the queue that would fetch for an unknown key is not ahead of it, one that finds
\* the keys old cannot be, and time does not pass before.
LEMMA NextFreshInv ==
  Types /\ LockInv /\ QueueInv /\ LocalInv /\ FreshInv /\ [VerifierNext]_verifierVars => FreshInv'
<1> SUFFICES ASSUME Types, LockInv, QueueInv, LocalInv, FreshInv, [VerifierNext]_verifierVars
             PROVE  FreshInv'
  OBVIOUS
<1>q. /\ queue \in Seq(Tokens) /\ Distinct(queue)
      /\ \A t \in Tokens : step[t] \in InLine <=> Waiting(t, queue)
      /\ \A i \in DOMAIN queue : queue[i] \in Tokens /\ step[queue[i]] \in InLine
      /\ DOMAIN queue = 1 .. Len(queue) /\ Len(queue) \in Nat
  BY LenProperties, ElementOfSeq DEF QueueInv, Waiting
<1>s. ASSUME NEW t \in Tokens, Turn(t)
      PROVE  /\ Tail(queue) \in Seq(Tokens) /\ Distinct(Tail(queue)) /\ ~Waiting(t, Tail(queue))
             /\ 1 \in DOMAIN queue /\ queue[1] = t
             /\ DOMAIN Tail(queue) = 1 .. Len(queue) - 1
             /\ \A i \in 1 .. Len(queue) - 1 :
                  /\ i + 1 \in DOMAIN queue /\ Tail(queue)[i] = queue[i + 1]
                  /\ queue[i + 1] # t
  BY <1>q, <1>s, Served DEF Turn, Distinct
<1>t. ASSUME NEW t \in Tokens, Turn(t), queue' = Tail(queue),
             step' = [step EXCEPT ![t] = step'[t]], UNCHANGED <<moved, lock, keys, fetched>>
      PROVE  FreshInv'
  <2>1. SUFFICES ASSUME NEW i \in DOMAIN queue', step'[queue'[i]] = "unknown", queue'[i] \in moved'
                 PROVE  /\ lock' = Nobody /\ keys' # {} /\ fetched' < TTL
                        /\ \A k \in 1 .. i - 1 : step'[queue'[k]] = "unknown" => queue'[k] \in moved'
    BY DEF FreshInv
  <2>2. ASSUME NEW k \in 1 .. i
        PROVE  /\ queue'[k] = queue[k + 1] /\ step'[queue'[k]] = step[queue[k + 1]]
               /\ k + 1 \in DOMAIN queue
    <3>1. k \in 1 .. Len(queue) - 1
      BY <1>q, <1>s, <1>t
    <3>2. queue'[k] = queue[k + 1] /\ queue[k + 1] # t /\ k + 1 \in DOMAIN queue
      BY <1>s, <1>t, <3>1
    <3>3. queue[k + 1] \in Tokens
      BY <1>q, <3>2
    <3> QED
      BY <1>t, <3>2, <3>3 DEF Types
  <2>3. i \in Nat \ {0} /\ i + 1 \in DOMAIN queue /\ step[queue[i + 1]] = "unknown" /\ queue[i + 1] \in moved
    BY <1>q, <1>s, <1>t, <2>1, <2>2
  <2> QED
    BY <1>t, <2>2, <2>3 DEF FreshInv
<1>n. ASSUME \A i \in DOMAIN queue : ~(step[queue[i]] = "unknown" /\ queue[i] \in moved),
             NEW t \in Tokens, Turn(t), queue' = Tail(queue),
             step' = [step EXCEPT ![t] = step'[t]], UNCHANGED moved
      PROVE  FreshInv'
  <2>1. ASSUME NEW i \in DOMAIN queue'
        PROVE  ~(step'[queue'[i]] = "unknown" /\ queue'[i] \in moved')
    <3>1. i + 1 \in DOMAIN queue /\ queue'[i] = queue[i + 1] /\ queue[i + 1] # t
      BY <1>s, <1>n
    <3> QED
      BY <1>q, <1>n, <3>1 DEF Types
  <2> QED
    BY <2>1 DEF FreshInv
<1>1. ASSUME NEW t \in Tokens, Verify(t) PROVE FreshInv'
  <2>1. ~Waiting(t, queue) /\ queue' = Append(queue, t)
    BY <1>1, <1>q DEF Verify, InLine
  <2>2. /\ DOMAIN queue' = 1 .. Len(queue) + 1 /\ queue'[Len(queue) + 1] = t
        /\ \A i \in DOMAIN queue : queue'[i] = queue[i]
    BY <1>q, <2>1, Join
  <2>3. /\ step'[t] = "cached" /\ UNCHANGED <<moved, lock, keys, fetched>>
        /\ \A i \in DOMAIN queue : step'[queue[i]] = step[queue[i]]
    BY <1>1, <1>q DEF Verify, Found, InLine, Types
  <2> QED
    BY <1>q, <2>2, <2>3 DEF FreshInv
<1>2. ASSUME NEW t \in Tokens, GetCachedKeys(t) PROVE FreshInv'
  <2>1. CASE kid[t] \in keys
    BY <1>2, <1>t, <2>1 DEF GetCachedKeys, Found, Types
  <2>2. CASE kid[t] \notin keys
    <3>1. Turn(t) /\ queue' = Append(Tail(queue), t) /\ t \notin moved
      BY <1>2, <2>2 DEF GetCachedKeys, LocalInv
    <3>2. Len(Tail(queue)) = Len(queue) - 1 /\ Len(queue) \in Nat \ {0}
      BY <1>q, <1>s, <3>1, LenProperties
    <3>3. /\ DOMAIN queue' = 1 .. Len(queue) /\ queue'[Len(queue)] = t
          /\ \A i \in 1 .. Len(queue) - 1 : queue'[i] = queue[i + 1]
      BY <1>s, <3>1, <3>2, Join
    <3>4. \A i \in 1 .. Len(queue) - 1 : queue[i + 1] # t /\ queue[i + 1] \in Tokens
      BY <1>q, <1>s, <3>1
    <3>5. UNCHANGED <<moved, lock, keys, fetched>> /\ \A u \in Tokens \ {t} : step'[u] = step[u]
      BY <1>2, <2>2 DEF GetCachedKeys, Found, Types
    <3>6. /\ UNCHANGED <<moved, lock, keys, fetched>>
          /\ \A i \in 1 .. Len(queue) - 1 : step'[queue'[i]] = step[queue[i + 1]]
      BY <3>3, <3>4, <3>5
    <3>7. SUFFICES ASSUME NEW i \in DOMAIN queue', step'[queue'[i]] = "unknown", queue'[i] \in moved'
                   PROVE  /\ lock' = Nobody /\ keys' # {} /\ fetched' < TTL
                          /\ \A k \in 1 .. i - 1 : step'[queue'[k]] = "unknown" => queue'[k] \in moved'
      BY DEF FreshInv
    <3>8. i \in 1 .. Len(queue) - 1
      BY <3>1, <3>2, <3>3, <3>6, <3>7
    <3>9. i + 1 \in DOMAIN queue /\ step[queue[i + 1]] = "unknown" /\ queue[i + 1] \in moved
      BY <1>q, <3>3, <3>6, <3>7, <3>8
    <3>10. lock = Nobody /\ keys # {} /\ fetched < TTL
      BY <3>9 DEF FreshInv
    <3>11. ASSUME NEW k \in 1 .. i - 1, step'[queue'[k]] = "unknown" PROVE queue'[k] \in moved'
      <4>1. k \in 1 .. Len(queue) - 1 /\ k + 1 \in 1 .. (i + 1) - 1
        BY <3>2, <3>8
      <4>2. queue'[k] = queue[k + 1] /\ step[queue[k + 1]] = "unknown"
        BY <3>3, <3>6, <3>11, <4>1
      <4> QED
        BY <3>6, <3>9, <4>1, <4>2 DEF FreshInv
    <3> QED
      BY <3>6, <3>10, <3>11
  <2> QED
    BY <2>1, <2>2
<1>3. ASSUME NEW t \in Tokens, FetchExpired(t) PROVE FreshInv'
  BY <1>3, <1>n, VerifierConstants DEF FetchExpired, Fetch, Found, Expired, FreshInv, Types
<1>4. ASSUME NEW t \in Tokens, RefreshForUnknownKey(t) PROVE FreshInv'
  <2>1. ASSUME NEW i \in DOMAIN queue, step[queue[i]] = "unknown", queue[i] \in moved PROVE FALSE
    <3>1. queue[1] = t /\ step[t] = "unknown" /\ t \notin moved
      BY <1>4, <1>s DEF RefreshForUnknownKey
    <3>2. 1 \in 1 .. i - 1
      BY <1>q, <2>1, <3>1
    <3> QED
      BY <2>1, <3>1, <3>2 DEF FreshInv
  <2> QED
    BY <1>4, <1>n, <2>1 DEF RefreshForUnknownKey, Fetch, Found, Types
<1>5. ASSUME NEW t \in Tokens, UseRefreshedKeys(t) PROVE FreshInv'
  BY <1>5, <1>t DEF UseRefreshedKeys, Found, Types
<1>6. ASSUME NEW t \in Tokens, FetchKeys(t) PROVE FreshInv'
  <2>1. lock' = Nobody /\ keys' # {} /\ fetched' < TTL
    BY <1>6, VerifierConstants DEF FetchKeys
  <2>2. \A i \in DOMAIN queue :
          /\ queue[i] # t /\ step'[queue[i]] = step[queue[i]]
          /\ step[queue[i]] = "unknown" => queue[i] \in moved'
    BY <1>6, <1>q DEF FetchKeys, Found, Types, InLine
  <2>3. CASE queue' = queue
    BY <1>q, <2>1, <2>2, <2>3 DEF FreshInv
  <2>4. CASE queue' = Append(queue, t)
    <3>1. ~Waiting(t, queue)
      BY <2>2 DEF Waiting
    <3>2. /\ DOMAIN queue' = 1 .. Len(queue) + 1 /\ queue'[Len(queue) + 1] = t
          /\ \A i \in DOMAIN queue : queue'[i] = queue[i]
      BY <1>q, <2>4, <3>1, Join
    <3> QED
      BY <1>q, <2>1, <2>2, <3>2 DEF FreshInv
  <2> QED
    BY <1>6, <2>3, <2>4 DEF FetchKeys
<1>7. ASSUME NEW t \in Tokens, FetchFails(t) PROVE FreshInv'
  BY <1>7, <1>q, VerifierConstants DEF FetchFails, Over, FreshInv, LockInv, Types, Fetching, InLine
<1>8. ASSUME NEW t \in Tokens, Answer(t) PROVE FreshInv'
  <2>1. \A i \in DOMAIN queue : queue[i] # t /\ step'[queue[i]] = step[queue[i]]
                                 /\ (queue[i] \in moved' <=> queue[i] \in moved)
    BY <1>8, <1>q DEF Answer, Over, Types, InLine
  <2> QED
    BY <1>8, <1>q, <2>1 DEF Answer, FreshInv
<1>9. ASSUME Rotate PROVE FreshInv'
  BY <1>9 DEF Rotate, FreshInv
<1>10. ASSUME Pass PROVE FreshInv'
  BY <1>10, <1>q DEF Pass, Waits, FreshInv
<1>11. CASE UNCHANGED verifierVars
  BY <1>11 DEF verifierVars, FreshInv
<1> QED
  BY <1>1, <1>2, <1>3, <1>4, <1>5, <1>6, <1>7, <1>8, <1>9, <1>10, <1>11 DEF VerifierNext

-----------------------------------------------------------------------------
(* The age of what is cached, and what a fetch brings.                     *)

\* A key ages with the fetch that returns it and with the cache that holds it.
LEMMA NextAgeInv ==
  Types /\ LockInv /\ LocalInv /\ AgeInv /\ [VerifierNext]_verifierVars => AgeInv'
<1> SUFFICES ASSUME Types, LockInv, LocalInv, AgeInv, [VerifierNext]_verifierVars PROVE AgeInv'
  OBVIOUS
<1> USE VerifierConstants DEF Types, AgeInv, Offer, Fetching
<1>1. ASSUME NEW t \in Tokens, Verify(t) PROVE AgeInv'
  BY <1>1 DEF Verify, Found
<1>2. ASSUME NEW t \in Tokens, GetCachedKeys(t) PROVE AgeInv'
  BY <1>2 DEF GetCachedKeys, Found, Turn, Expired
<1>3. ASSUME NEW t \in Tokens, FetchExpired(t) PROVE AgeInv'
  BY <1>3 DEF FetchExpired, Fetch, Found, Turn, Expired
<1>4. ASSUME NEW t \in Tokens, RefreshForUnknownKey(t) PROVE AgeInv'
  BY <1>4 DEF RefreshForUnknownKey, Fetch, Found, Turn
<1>5. ASSUME NEW t \in Tokens, UseRefreshedKeys(t) PROVE AgeInv'
  BY <1>5 DEF UseRefreshedKeys, Found, Turn
<1>6. ASSUME NEW t \in Tokens, FetchKeys(t) PROVE AgeInv'
  BY <1>6 DEF FetchKeys, Found
<1>7. ASSUME NEW t \in Tokens, FetchFails(t) PROVE AgeInv'
  BY <1>7 DEF FetchFails, Over
<1>8. ASSUME NEW t \in Tokens, Answer(t) PROVE AgeInv'
  BY <1>8 DEF Answer, Over
<1>9. ASSUME Rotate PROVE AgeInv'
  BY <1>9 DEF Rotate
<1>10. ASSUME Pass PROVE AgeInv'
  <2>1. \A k \in Kids : withdrawn'[k] <= withdrawn[k] + 1 /\ withdrawn'[k] <= TTL + MaxFetch
    BY <1>10 DEF Pass, UpTo
  <2>2. phase' = phase /\ \A k \in Offer : withdrawn'[k] = 0
    BY <1>10, OfferTyped DEF Pass
  <2>3. ASSUME NEW t \in Tokens, step'[t] \in Fetching, NEW k \in doc'[t]
        PROVE  withdrawn'[k] <= took'[t]
    <3>1. step[t] \in Fetching /\ k \in doc[t] /\ k \in Kids /\ took'[t] = took[t] + 1
      BY <1>10, <2>3 DEF Pass
    <3>2. withdrawn[k] <= took[t] /\ withdrawn[k] \in Nat /\ took[t] \in Nat
      BY <3>1
    <3>3. withdrawn'[k] \in Int
      BY <1>10, <3>1 DEF Pass, UpTo
    <3> QED
      BY <2>1, <3>1, <3>2, <3>3
  <2>4. ASSUME NEW k \in keys' PROVE withdrawn'[k] <= fetched' + MaxFetch
    <3>1. k \in keys /\ k \in Kids /\ fetched' = UpTo(fetched, TTL)
      BY <1>10 DEF Pass
    <3>2. withdrawn'[k] \in Int
      BY <1>10, <3>1 DEF Pass, UpTo
    <3> QED
      BY <2>1, <3>1, <3>2 DEF UpTo
  <2> QED
    BY <2>2, <2>3, <2>4
<1>11. CASE UNCHANGED verifierVars
  BY <1>11 DEF verifierVars
<1> QED
  BY <1>1, <1>2, <1>3, <1>4, <1>5, <1>6, <1>7, <1>8, <1>9, <1>10, <1>11 DEF VerifierNext

\* The cache changes only with a fetch, which overtakes all who miss a key.
LEMMA NextUnknownInv ==
  Types /\ LocalInv /\ UnknownInv /\ [VerifierNext]_verifierVars => UnknownInv'
<1> SUFFICES ASSUME Types, LocalInv, UnknownInv, [VerifierNext]_verifierVars PROVE UnknownInv'
  OBVIOUS
<1> USE DEF Types, UnknownInv, LocalInv
<1>1. ASSUME NEW t \in Tokens, Verify(t) PROVE UnknownInv'
  BY <1>1 DEF Verify, Found
<1>2. ASSUME NEW t \in Tokens, GetCachedKeys(t) PROVE UnknownInv'
  BY <1>2 DEF GetCachedKeys, Found, Turn, Expired
<1>3. ASSUME NEW t \in Tokens, FetchExpired(t) PROVE UnknownInv'
  BY <1>3 DEF FetchExpired, Fetch, Found, Turn, Expired
<1>4. ASSUME NEW t \in Tokens, RefreshForUnknownKey(t) PROVE UnknownInv'
  BY <1>4 DEF RefreshForUnknownKey, Fetch, Found, Turn
<1>5. ASSUME NEW t \in Tokens, UseRefreshedKeys(t) PROVE UnknownInv'
  BY <1>5 DEF UseRefreshedKeys, Found, Turn
<1>6. ASSUME NEW t \in Tokens, FetchKeys(t) PROVE UnknownInv'
  BY <1>6 DEF FetchKeys, Found
<1>7. ASSUME NEW t \in Tokens, FetchFails(t) PROVE UnknownInv'
  BY <1>7 DEF FetchFails, Over
<1>8. ASSUME NEW t \in Tokens, Answer(t) PROVE UnknownInv'
  BY <1>8 DEF Answer, Over
<1>9. ASSUME Rotate PROVE UnknownInv'
  BY <1>9 DEF Rotate
<1>10. ASSUME Pass PROVE UnknownInv'
  BY <1>10 DEF Pass
<1>11. CASE UNCHANGED verifierVars
  BY <1>11 DEF verifierVars
<1> QED
  BY <1>1, <1>2, <1>3, <1>4, <1>5, <1>6, <1>7, <1>8, <1>9, <1>10, <1>11 DEF VerifierNext

\* A fetch returns what is published when it begins, and it begins with the lock.
LEMMA NextOfferInv ==
  Types /\ LockInv /\ LocalInv /\ OfferInv /\ [VerifierNext]_verifierVars => OfferInv'
<1> SUFFICES ASSUME Types, LockInv, LocalInv, OfferInv, [VerifierNext]_verifierVars PROVE OfferInv'
  OBVIOUS
<1> USE VerifierConstants DEF Types, LockInv, LocalInv, OfferInv, Offer, Fetching
<1>1. ASSUME NEW t \in Tokens, Verify(t) PROVE OfferInv'
  BY <1>1 DEF Verify, Found
<1>2. ASSUME NEW t \in Tokens, GetCachedKeys(t) PROVE OfferInv'
  BY <1>2 DEF GetCachedKeys, Found, Turn, Expired
<1>3. ASSUME NEW t \in Tokens, FetchExpired(t) PROVE OfferInv'
  BY <1>3 DEF FetchExpired, Fetch, Found, Turn, Expired
<1>4. ASSUME NEW t \in Tokens, RefreshForUnknownKey(t) PROVE OfferInv'
  BY <1>4 DEF RefreshForUnknownKey, Fetch, Found, Turn
<1>5. ASSUME NEW t \in Tokens, UseRefreshedKeys(t) PROVE OfferInv'
  BY <1>5 DEF UseRefreshedKeys, Found, Turn
<1>6. ASSUME NEW t \in Tokens, FetchKeys(t) PROVE OfferInv'
  BY <1>6 DEF FetchKeys, Found
<1>7. ASSUME NEW t \in Tokens, FetchFails(t) PROVE OfferInv'
  BY <1>7 DEF FetchFails, Over
<1>8. ASSUME NEW t \in Tokens, Answer(t) PROVE OfferInv'
  BY <1>8 DEF Answer, Over
<1>9. ASSUME Rotate PROVE OfferInv'
  BY <1>9 DEF Rotate
<1>10. ASSUME Pass PROVE OfferInv'
  BY <1>10 DEF Pass
<1>11. CASE UNCHANGED verifierVars
  BY <1>11 DEF verifierVars
<1> QED
  BY <1>1, <1>2, <1>3, <1>4, <1>5, <1>6, <1>7, <1>8, <1>9, <1>10, <1>11 DEF VerifierNext

-----------------------------------------------------------------------------
(* The two promises.                                                       *)

VerifierInv ==
  /\ Types /\ LockInv /\ QueueInv /\ LocalInv /\ FreshInv
  /\ AgeInv /\ UnknownInv /\ OfferInv

\* Initially nobody verifies anything.
LEMMA InitVerifierInv == VerifierInit => VerifierInv
<1> SUFFICES ASSUME VerifierInit PROVE VerifierInv
  OBVIOUS
<1>1. Types /\ LockInv /\ QueueInv
  BY InitTypes
<1>2. LocalInv /\ FreshInv /\ UnknownInv /\ OfferInv
  BY VerifierConstants DEF VerifierInit, LocalInv, FreshInv, UnknownInv, OfferInv, Fetching
<1>3. AgeInv
  BY VerifierConstants DEF VerifierInit, AgeInv, Offer, Fetching
<1> QED
  BY <1>1, <1>2, <1>3 DEF VerifierInv

\* Every step keeps all of it.
LEMMA NextVerifierInv == VerifierInv /\ [VerifierNext]_verifierVars => VerifierInv'
  BY NextTypes, NextLockInv, NextQueueInv, NextLocalInv, NextFreshInv, NextAgeInv,
     NextUnknownInv, NextOfferInv
  DEF VerifierInv

\* The first of the queue, if overtaken, finds young keys.
LEMMA ServedFresh ==
  ASSUME VerifierInv, NEW t \in Tokens, Turn(t), step[t] = "unknown", t \in moved
  PROVE  fetched < TTL
<1>1. 1 \in DOMAIN queue /\ queue[1] = t
  BY Served DEF VerifierInv, QueueInv, Turn
<1> QED
  BY <1>1 DEF VerifierInv, FreshInv

\* The three paths that accept a token each know how old its key can be.
LEMMA NextWithdrawnKeysExpire ==
  VerifierInv /\ WithdrawnKeysExpire /\ [VerifierNext]_verifierVars => WithdrawnKeysExpire'
<1> SUFFICES ASSUME VerifierInv, WithdrawnKeysExpire, [VerifierNext]_verifierVars
             PROVE  WithdrawnKeysExpire'
  OBVIOUS
<1>a. ASSUME NEW k \in keys, fetched < TTL PROVE withdrawn[k] < TTL + MaxFetch
  BY <1>a, VerifierConstants DEF VerifierInv, Types, AgeInv
<1>v. Types /\ LocalInv
  BY DEF VerifierInv
<1> USE <1>v DEF Types, LocalInv, WithdrawnKeysExpire
<1>1. ASSUME NEW t \in Tokens, Verify(t) PROVE WithdrawnKeysExpire'
  BY <1>1 DEF Verify, Found
<1>2. ASSUME NEW t \in Tokens, GetCachedKeys(t) PROVE WithdrawnKeysExpire'
  <2>1. fetched < TTL
    BY <1>2, VerifierConstants DEF GetCachedKeys, Expired
  <2> QED
    BY <1>2, <1>a, <2>1 DEF GetCachedKeys, Found
<1>3. ASSUME NEW t \in Tokens, FetchExpired(t) PROVE WithdrawnKeysExpire'
  BY <1>3 DEF FetchExpired, Fetch, Found
<1>4. ASSUME NEW t \in Tokens, RefreshForUnknownKey(t) PROVE WithdrawnKeysExpire'
  BY <1>4 DEF RefreshForUnknownKey, Fetch, Found
<1>5. ASSUME NEW t \in Tokens, UseRefreshedKeys(t) PROVE WithdrawnKeysExpire'
  <2>1. kid[t] \in keys => withdrawn[kid[t]] < TTL + MaxFetch
    <3>1. kid[t] \in keys => t \in moved
      BY <1>5 DEF UseRefreshedKeys, VerifierInv, UnknownInv
    <3> QED
      BY <1>5, <1>a, <3>1, ServedFresh DEF UseRefreshedKeys
  <2> QED
    BY <1>5, <2>1 DEF UseRefreshedKeys, Found
<1>6. ASSUME NEW t \in Tokens, FetchKeys(t) PROVE WithdrawnKeysExpire'
  <2>1. \A k \in doc[t] : withdrawn[k] < TTL + MaxFetch
    BY <1>6, VerifierConstants DEF FetchKeys, VerifierInv, AgeInv, Fetching
  <2> QED
    BY <1>6, <2>1 DEF FetchKeys, Found
<1>7. ASSUME NEW t \in Tokens, FetchFails(t) PROVE WithdrawnKeysExpire'
  BY <1>7 DEF FetchFails, Over
<1>8. ASSUME NEW t \in Tokens, Answer(t) PROVE WithdrawnKeysExpire'
  BY <1>8 DEF Answer, Over
<1>9. ASSUME Rotate PROVE WithdrawnKeysExpire'
  <2>1. \A k \in Kids : withdrawn'[k] = withdrawn[k] \/ withdrawn'[k] = 0
    BY <1>9 DEF Rotate
  <2> QED
    BY <1>9, <2>1, VerifierConstants DEF Rotate
<1>10. ASSUME Pass PROVE WithdrawnKeysExpire'
  BY <1>10 DEF Pass, Waits
<1>11. CASE UNCHANGED verifierVars
  BY <1>11 DEF verifierVars
<1> QED
  BY <1>1, <1>2, <1>3, <1>4, <1>5, <1>6, <1>7, <1>8, <1>9, <1>10, <1>11 DEF VerifierNext

\* A verification of an offered key is refused only by the cooldown.
LEMMA NextRotatedKeyUsable ==
  VerifierInv /\ RotatedKeyUsable /\ [VerifierNext]_verifierVars => RotatedKeyUsable'
<1> SUFFICES ASSUME VerifierInv, RotatedKeyUsable, [VerifierNext]_verifierVars
             PROVE  RotatedKeyUsable'
  OBVIOUS
<1>v. Types /\ LocalInv /\ OfferInv
  BY DEF VerifierInv
<1> USE <1>v, VerifierConstants DEF Types, LocalInv, RotatedKeyUsable
<1>1. ASSUME NEW t \in Tokens, Verify(t) PROVE RotatedKeyUsable'
  BY <1>1 DEF Verify, Found
<1>2. ASSUME NEW t \in Tokens, GetCachedKeys(t) PROVE RotatedKeyUsable'
  BY <1>2 DEF GetCachedKeys, Found
<1>3. ASSUME NEW t \in Tokens, FetchExpired(t) PROVE RotatedKeyUsable'
  BY <1>3 DEF FetchExpired, Fetch, Found
<1>4. ASSUME NEW t \in Tokens, RefreshForUnknownKey(t) PROVE RotatedKeyUsable'
  BY <1>4 DEF RefreshForUnknownKey, Fetch, Found
<1>5. ASSUME NEW t \in Tokens, UseRefreshedKeys(t) PROVE RotatedKeyUsable'
  BY <1>5 DEF UseRefreshedKeys, Found, Cooling, OfferInv
<1>6. ASSUME NEW t \in Tokens, FetchKeys(t) PROVE RotatedKeyUsable'
  BY <1>6 DEF FetchKeys, Found, OfferInv, Fetching
<1>7. ASSUME NEW t \in Tokens, FetchFails(t) PROVE RotatedKeyUsable'
  BY <1>7 DEF FetchFails, Over
<1>8. ASSUME NEW t \in Tokens, Answer(t) PROVE RotatedKeyUsable'
  BY <1>8 DEF Answer, Over
<1>9. ASSUME Rotate PROVE RotatedKeyUsable'
  BY <1>9 DEF Rotate
<1>10. ASSUME Pass PROVE RotatedKeyUsable'
  BY <1>10 DEF Pass, Waits
<1>11. CASE UNCHANGED verifierVars
  BY <1>11 DEF verifierVars
<1> QED
  BY <1>1, <1>2, <1>3, <1>4, <1>5, <1>6, <1>7, <1>8, <1>9, <1>10, <1>11 DEF VerifierNext

\* The types, the holder of the lock and its queue, as the model states them.
THEOREM VerifierTypes == VerifierSpec => []VerifierTypeOK
<1>1. Types /\ LockInv /\ QueueInv => VerifierTypeOK
  BY DEF Types, LockInv, QueueInv, VerifierTypeOK, Distinct, Waiting, Fetching, InLine
<1> QED
  BY <1>1, InitTypes, NextTypes, NextLockInv, NextQueueInv, PTL DEF VerifierSpec

\* No path serves a key that the provider withdrew longer ago than the time to live of
\* the cache and the timeout of a fetch, whatever the number of concurrent requests and
\* whatever the provider publishes.
THEOREM WithdrawnKeysAreForgotten == VerifierSpec => []WithdrawnKeysExpire
<1>1. VerifierInit => WithdrawnKeysExpire
  BY DEF VerifierInit, WithdrawnKeysExpire
<1> QED
  BY <1>1, InitVerifierInv, NextVerifierInv, NextWithdrawnKeysExpire, PTL DEF VerifierSpec

\* A token whose key the provider publishes all along is refused only while somebody
\* else's attempt to refresh cools down.
THEOREM NewKeysAreFound == VerifierSpec => []RotatedKeyUsable
<1>1. VerifierInit => RotatedKeyUsable
  BY DEF VerifierInit, RotatedKeyUsable
<1> QED
  BY <1>1, InitVerifierInv, NextVerifierInv, NextRotatedKeyUsable, PTL DEF VerifierSpec

-----------------------------------------------------------------------------
(* Both gates.                                                             *)

\* The IP security and the verifier keep their types side by side.
THEOREM GateTypes == GateSpec => []GateTypeOK
<1> DEFINE Inv == AccessInv /\ Types /\ LockInv /\ QueueInv
<1>1. GateInit => Inv
  BY InitAccessInv, InitTypes DEF GateInit
<1>2. Inv /\ [GateNext]_<<gate, vars, verifierVars>> => Inv'
  <2> SUFFICES ASSUME Inv, [GateNext]_<<gate, vars, verifierVars>> PROVE Inv'
    OBVIOUS
  <2>1. [Next]_vars /\ [VerifierNext]_verifierVars
    BY DEF GateNext
  <2> QED
    BY <2>1, NextAccessInv, NextTypes, NextLockInv, NextQueueInv
<1>3. Inv => GateTypeOK
  <2>1. AccessInv => TypeOK
    BY DEF AccessInv, RequestsOK, RulesOK, StoreOK, TypeOK
  <2>2. Types /\ LockInv /\ QueueInv => VerifierTypeOK
    BY DEF Types, LockInv, QueueInv, VerifierTypeOK, Distinct, Waiting, Fetching, InLine
  <2> QED
    BY <2>1, <2>2 DEF GateTypeOK
<1> QED
  BY <1>1, <1>2, <1>3, PTL DEF GateSpec
=============================================================================
