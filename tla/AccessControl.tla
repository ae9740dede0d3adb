---------------------------- MODULE AccessControl ----------------------------
(***************************************************************************)
(* The IP security of app/security: the middleware resolves the address of *)
(* a request, asks the persistent allowlist and the in-memory rate         *)
(* limiter, and lets the request into the application, where an            *)
(* administrator may change the allowlist.  A rule is a network and a      *)
(* flag; a change runs in one transaction under an advisory lock and is    *)
(* refused when it could lock out the administrator who asks for it.       *)
(*                                                                         *)
(* The allowlist is enabled.  Where ip_allowlist_enabled is false, the     *)
(* middleware lets every address through and _guard_lockout returns at     *)
(* once: nobody can be locked out, and there is nothing to say.            *)
(***************************************************************************)
EXTENDS Integers, SequencesExt, FiniteSetsExt

CONSTANTS Requests,          \* requests handled at the same time
          Ips, Networks,     \* addresses, and canonical networks
          Covers,            \* the addresses of each network
          Trusted, Bypass,   \* trusted_proxy_cidrs, ip_emergency_bypass_cidrs: their addresses
          RuleIds,
          Groups, Limit,     \* the limited route groups and the requests each allows
          MaxKeys, Window,   \* rate_limit_max_keys, rate_limit_window_seconds
          ListFailClosed, LimitFailClosed,
          MaxHops,           \* bound on the forwarding chain
          None               \* no address, no request, no key, no header part

ASSUME AccessConstants ==
  /\ Covers \in [Networks -> SUBSET Ips]
  /\ Trusted \subseteq Ips /\ Bypass \subseteq Ips
  /\ Limit \in [Groups -> Nat \ {0}] /\ Window \in Nat \ {0} /\ MaxKeys \in Nat \ {0, 1}
  /\ None \notin Ips \cup Requests \cup RuleIds
  /\ {ListFailClosed, LimitFailClosed} \subseteq BOOLEAN

VARIABLES
  pc, ip,   \* where each request is, and its resolved address
  op,       \* the change that it makes
  rules,    \* ip_access_rules: rule id -> network and flag
  mutex,    \* the holder of the advisory lock
  entries,  \* the keys of _entries of the limiter
  age,      \* time since the window of each began, up to Window
  count,    \* the requests of each in its window
  older,    \* the order of _entries, from the first to the last
  keeper,   \* history: who last changed or removed a rule
  lastKey   \* history: the key consumed last

store == <<entries, age, count, older>>
vars == <<pc, ip, op, rules, mutex, store, keeper, lastKey>>

Keys == Groups \X (Ips \cup {None})

Init ==
  /\ pc = [r \in Requests |-> "idle"]
  /\ ip = [r \in Requests |-> None] /\ op = [r \in Requests |-> None]
  /\ rules = << >> /\ mutex = None
  /\ entries = {} /\ older = {}
  /\ age = [k \in Keys |-> 0] /\ count = [k \in Keys |-> 0]
  /\ keeper = None /\ lastKey = None

Covered(rs) == UNION {Covers[rs[i].cidr] : i \in {j \in DOMAIN rs : rs[j].enabled}}
Goto(r, next) == pc' = [pc EXCEPT ![r] = next] /\ UNCHANGED <<ip, op>>
Leave(r) ==
  /\ pc' = [pc EXCEPT ![r] = "idle"]
  /\ ip' = [ip EXCEPT ![r] = None] /\ op' = [op EXCEPT ![r] = None]

-----------------------------------------------------------------------------
\* The hops of a chain that are no trusted proxies.
Foreign(chain) == {i \in DOMAIN chain : chain[i] \notin Trusted}

\* Mutant: the hops are peeled from the left.
ResolveFromLeft(peer, chain) ==
  IF peer \notin Trusted THEN peer
  ELSE IF None \in ToSet(chain) \/ chain = <<>> THEN None
  ELSE IF Foreign(chain) = {} THEN chain[1] ELSE chain[Min(Foreign(chain))]

\* The address of the caller: the peer of the socket, or what the trusted hops
\* forwarded, peeled from the right: the last hop that is no proxy, or the first one
\* when all are.  A part that does not parse spoils the chain.
Resolve(peer, chain) ==
  IF peer \notin Trusted THEN peer
  ELSE IF None \in ToSet(chain) \/ chain = <<>> THEN None
  ELSE IF Foreign(chain) = {} THEN chain[1] ELSE chain[Max(Foreign(chain))]

Chains == UNION {[1 .. n -> Ips \cup {None}] : n \in 0 .. MaxHops}

Callers == {Resolve(peer, chain) : peer \in Ips \cup {None}, chain \in Chains}

\* A request reaches the middleware.
Arrive(r) ==
  /\ pc[r] = "idle"
  /\ pc' = [pc EXCEPT ![r] = "allow"]
  /\ \E caller \in Callers : ip' = [ip EXCEPT ![r] = caller]
  /\ UNCHANGED <<op, rules, mutex, store, keeper, lastKey>>

\* The allowlist lets an address through when a rule covers it, in an emergency, or,
\* where the deployment fails open, when the database does not answer.
Allow(r) ==
  /\ pc[r] = "allow"
  /\ ip[r] \in Bypass \cup Covered(rules) \/ ~ListFailClosed
  /\ Goto(r, "limit")
  /\ UNCHANGED <<rules, mutex, store, keeper, lastKey>>

\* Not covered, or the database does not answer: 403.
Deny(r) ==
  /\ pc[r] = "allow" /\ ip[r] \notin Bypass
  /\ ip[r] \notin Covered(rules) \/ ListFailClosed
  /\ Leave(r)
  /\ UNCHANGED <<rules, mutex, store, keeper, lastKey>>

-----------------------------------------------------------------------------
\* The entries whose window is not over.
Live == {k \in entries : age[k] < Window}

\* The count of a key after one more request; counts past the limit are not told apart.
Counted(key) ==
  IF key \notin Live THEN 1
  ELSE IF count[key] > Limit[key[1]] THEN count[key] ELSE count[key] + 1

\* Mutant: a key that is known keeps its place.
PlaceInside(key) ==
  {p \in older : {p[1], p[2]} \subseteq Live}
    \cup {p \in Live \X {key} : key \notin Live}

\* The entry is taken out and put at the end.
Place(key) ==
  {p \in older : {p[1], p[2]} \subseteq Live \ {key}} \cup ((Live \ {key}) \X {key})

\* Mutant: nothing is evicted.
EvictNothing(all, order) == {all}

\* Capacity: the first entry goes when the new one is one too many.
Evict(all, order) ==
  IF Cardinality(all) <= MaxKeys THEN {all}
  ELSE {all \ {first} : first \in {f \in all : \A k \in all : <<k, f>> \notin order}}

\* consume of the limiter's store, under its lock, with no await inside.
Consume(key) ==
  /\ entries' \in Evict(Live \cup {key}, Place(key))
  /\ age' = [k \in Keys |-> IF k \in entries' \cap Live THEN age[k] ELSE 0]
  /\ count' = [k \in Keys |-> IF k \notin entries' THEN 0
                              ELSE IF k = key THEN Counted(key) ELSE count[k]]
  /\ older' = {p \in Place(key) : {p[1], p[2]} \subseteq entries'}
  /\ lastKey' = key

\* A limited route consumes; past the limit the answer is 429.
RateLimit(r) ==
  /\ pc[r] = "limit"
  /\ \E g \in Groups :
       /\ Consume(<<g, ip[r]>>)
       /\ IF Counted(<<g, ip[r]>>) <= Limit[g] THEN Goto(r, "app") ELSE Leave(r)
  /\ UNCHANGED <<rules, mutex, keeper>>

\* A route without a policy, or a store that fails where the deployment fails open.
Unlimited(r) ==
  /\ pc[r] = "limit"
  /\ Goto(r, "app")
  /\ UNCHANGED <<rules, mutex, store, keeper, lastKey>>

\* The store fails: 503.
LimitFails(r) ==
  /\ pc[r] = "limit" /\ LimitFailClosed
  /\ Leave(r)
  /\ UNCHANGED <<rules, mutex, store, keeper, lastKey>>

-----------------------------------------------------------------------------
Used(network) == \E i \in DOMAIN rules : rules[i].cidr = network

\* _guard_lockout of an enabled allowlist: without the rule, or with it as it will be,
\* the address of the administrator stays covered.
GuardLockout(r, new) ==
  \/ ip[r] \in Bypass
  \/ /\ ip[r] # None
     /\ ip[r] \in Covered([i \in DOMAIN rules \ {new.id} |-> rules[i]])
                    \cup (IF new.enabled THEN Covers[new.cidr] ELSE {})

\* The changes that pass the checks: create_rule, update_rule, delete_rule.
Creations ==
  {[kind |-> "create", id |-> i, cidr |-> n, enabled |-> e] :
     i \in RuleIds \ DOMAIN rules, n \in {m \in Networks : ~Used(m)}, e \in BOOLEAN}

Updates(r) ==
  {new \in {[kind |-> "update", id |-> i, cidr |-> n, enabled |-> e] :
              i \in DOMAIN rules, n \in Networks, e \in BOOLEAN} :
     (new.cidr = rules[new.id].cidr \/ ~Used(new.cidr)) /\ GuardLockout(r, new)}

Deletions(r) ==
  {new \in {[kind |-> "delete", id |-> i, cidr |-> rules[i].cidr, enabled |-> FALSE] :
              i \in DOMAIN rules} : GuardLockout(r, new)}

\* Mutant: the changes are not serialized.
LockNothing(r) == UNCHANGED mutex

\* pg_advisory_xact_lock
LockMutations(r) == mutex = None /\ mutex' = r

\* An administrator asks for a change: the lock, then the checks.
Check(r) ==
  /\ pc[r] = "app"
  /\ LockMutations(r)
  /\ \E new \in Creations \cup Updates(r) \cup Deletions(r) : op' = [op EXCEPT ![r] = new]
  /\ pc' = [pc EXCEPT ![r] = "commit"]
  /\ UNCHANGED <<ip, rules, store, keeper, lastKey>>

\* Any other end: not authenticated, no administrator, a read, 404, 409.
Done(r) ==
  /\ pc[r] = "app"
  /\ Leave(r)
  /\ UNCHANGED <<rules, mutex, store, keeper, lastKey>>

\* The rules after a change.
Apply(new) ==
  IF new.kind = "delete" THEN [i \in DOMAIN rules \ {new.id} |-> rules[i]]
  ELSE [i \in DOMAIN rules \cup {new.id} |->
          IF i = new.id THEN [cidr |-> new.cidr, enabled |-> new.enabled] ELSE rules[i]]

\* The transaction commits, and with it the lock goes.
Commit(r) ==
  /\ pc[r] = "commit"
  /\ rules' = Apply(op[r])
  /\ keeper' = IF op[r].kind = "create" THEN keeper ELSE ip[r]
  /\ mutex' = None /\ Leave(r)
  /\ UNCHANGED <<store, lastKey>>

\* The transaction fails or its connection is lost.
Rollback(r) ==
  /\ pc[r] = "commit"
  /\ mutex' = None /\ Leave(r)
  /\ UNCHANGED <<rules, store, keeper, lastKey>>

\* Time passes.
Tick ==
  /\ Live # {}
  /\ age' = [k \in Keys |-> IF k \in Live THEN age[k] + 1 ELSE age[k]]
  /\ UNCHANGED <<pc, ip, op, rules, mutex, entries, count, older, keeper, lastKey>>

Next ==
  \/ \E r \in Requests :
       \/ Arrive(r) \/ Allow(r) \/ Deny(r)
       \/ RateLimit(r) \/ Unlimited(r) \/ LimitFails(r)
       \/ Check(r) \/ Done(r) \/ Commit(r) \/ Rollback(r)
  \/ Tick

Spec == Init /\ [][Next]_vars

-----------------------------------------------------------------------------
Changes == [kind : {"create", "update", "delete"}, id : RuleIds, cidr : Networks,
            enabled : BOOLEAN]

\* The types of the state, the capacity of the limiter, the total order of its entries,
\* one rule of a network.
TypeOK ==
  /\ pc \in [Requests -> {"idle", "allow", "limit", "app", "commit"}]
  /\ ip \in [Requests -> Ips \cup {None}] /\ op \in [Requests -> Changes \cup {None}]
  /\ DOMAIN rules \subseteq RuleIds
  /\ \A i \in DOMAIN rules : rules[i] \in [cidr : Networks, enabled : BOOLEAN]
  /\ \A i, j \in DOMAIN rules : rules[i].cidr = rules[j].cidr => i = j
  /\ mutex \in Requests \cup {None}
  /\ entries \subseteq Keys /\ IsFiniteSet(entries) /\ Cardinality(entries) <= MaxKeys
  /\ age \in [Keys -> 0 .. Window] /\ count \in [Keys -> Nat]
  /\ older \subseteq entries \X entries
  /\ \A k, l \in entries : k # l => (<<k, l>> \in older <=> <<l, k>> \notin older)
  /\ \A k, l, m \in entries : <<k, l>> \in older /\ <<l, m>> \in older => <<k, m>> \in older
  /\ \A k \in entries : <<k, k>> \notin older
  /\ keeper \in Ips \cup {None} /\ lastKey \in Keys \cup {None}

\* Who is no trusted proxy cannot choose an address with X-Forwarded-For.  Behind an
\* address that is no proxy the rest of the chain does not count, with one exception: a
\* part in it that does not parse leaves the request without an address, which the
\* allowlist refuses and the limiter counts as unknown.
\* (TrustedClientIpResolver.resolve; a fact of the function alone, looked at once.)
ForeignHopsChooseNoAddress ==
  Init =>
    \A peer \in Ips \cup {None}, near \in Chains, far \in Chains :
      {peer} \cup ToSet(near) \notin SUBSET Trusted =>
        /\ Resolve(peer, far \o near) \in {Resolve(peer, near), None}
        /\ None \notin ToSet(far) => Resolve(peer, far \o near) = Resolve(peer, near)

\* Whoever last changed or removed a rule still gets in, whatever other
\* administrators did meanwhile: _guard_lockout, under the lock of lock_mutations.
KeeperNotLockedOut == keeper # None => keeper \in Bypass \cup Covered(rules)

\* The client that came last keeps its counter while its window runs: a newcomer
\* evicts another one.  (BoundedMemoryRateLimitStore.consume.)
LatestClientCounted ==
  [][\A k \in entries :
       k = lastKey /\ age[k] < Window => k \in entries' /\ count'[k] >= count[k]]_vars
=============================================================================
