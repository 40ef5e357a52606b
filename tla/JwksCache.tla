------------------------------ MODULE JwksCache ------------------------------
(***************************************************************************)
(* The bearer-token middleware, and the cache of the tenant's signing keys *)
(* it looks every token's key up in (JwksCache).  A lookup that misses     *)
(* takes the cache's lock, looks again, and fetches the keys if they have  *)
(* expired or a fetch is allowed again.  The endpoint publishes and        *)
(* withdraws keys while the cache holds an older set.                      *)
(*                                                                         *)
(* Between two awaits nothing else runs: what a request does before it     *)
(* waits for the lock, from there to the fetch, and after the fetch, the   *)
(* verdict on the token included, are one step each.                       *)
(***************************************************************************)
EXTENDS Integers

CONSTANTS
  Requests,      \* places for requests: a request may follow another in each
  Kids,          \* ids of keys that the endpoint publishes and withdraws
  Forged,        \* a key id it never publishes
  Nobody,        \* stands for no request
  NoKid,         \* stands for the key id of no token
  TTL,           \* ttl
  MinRefetch,    \* min_refetch_interval
  Slow,          \* how long a fetch may take before httpx gives up
  MaxTime,       \* bound: the clock
  MaxFailures,   \* bound: fetches that fail
  MaxRotations   \* bound: keys published or withdrawn

ASSUME NobodyAssumption == Nobody \notin Requests
ASSUME KidsAssumption == NoKid # Forged /\ {NoKid, Forged} \cap Kids = {}
ASSUME BoundsAssumption ==
  {TTL, MinRefetch, Slow, MaxTime, MaxFailures, MaxRotations} \subseteq Nat
\* The defaults: an hour, five minutes, seconds.
ASSUME IntervalsAssumption == Slow < MinRefetch /\ MinRefetch < TTL

Never == -1
Time == 0..MaxTime

\* Handed on to the application; 401 for a bad token; 401 for a key id that is
\* not known; 503; an exception nobody catches.
Outcomes == {"passed", "refused", "unknown", "unavailable", "crashed"}

VARIABLES
  now,          \* the clock
  published,    \* endpoint: the keys it serves
  since,        \* endpoint: when each key was last published
  until,        \* endpoint: when each key was last withdrawn
  keys,         \* cache: _keys
  lastSuccess,  \* cache: _last_success
  lastAttempt,  \* cache: _last_attempt
  lock,         \* cache: the request that holds _lock across its fetch
  lastFailed,   \* whether the last fetch that ended failed
  kid,          \* request: the key id of its token, until it is answered
  step,         \* request: how far it has come, or how the last one ended
  sent,         \* the key set on its way in the response
  failures, rotations

endpoint == <<published, since, until, rotations>>
cache == <<keys, lastSuccess, lastAttempt, lock>>
fetches == <<sent, lastFailed, failures>>
vars == <<now, endpoint, cache, fetches, kid, step>>

TypeOK ==
  /\ now \in Time
  /\ published \subseteq Kids /\ keys \subseteq Kids /\ sent \subseteq Kids
  /\ since \in [Kids -> Time \cup {Never}] /\ until \in [Kids -> Time \cup {Never}]
  /\ lastSuccess \in 0..now \cup {Never} /\ lastAttempt \in 0..now \cup {Never}
  /\ lock \in Requests \cup {Nobody}
  /\ lastFailed \in BOOLEAN
  /\ kid \in [Requests -> Kids \cup {Forged, NoKid}]
  /\ step \in [Requests -> {"none", "new", "waiting", "fetching", "served"} \cup Outcomes]
  /\ \A r \in Requests : step[r] \in {"fetching", "served"} <=> lock = r
  /\ failures \in 0..MaxFailures /\ rotations \in 0..MaxRotations

Init ==
  /\ now = 0
  /\ published \in SUBSET Kids
  /\ since = [k \in Kids |-> IF k \in published THEN 0 ELSE Never]
  /\ until = [k \in Kids |-> Never]
  /\ keys = {} /\ sent = {}
  /\ lastSuccess = Never /\ lastAttempt = Never
  /\ lock = Nobody /\ lastFailed = FALSE
  /\ kid = [r \in Requests |-> NoKid]
  /\ step = [r \in Requests |-> "none"]
  /\ failures = 0 /\ rotations = 0

-----------------------------------------------------------------------------
\* The clock, and the endpoint.

\* A fetch under way ends before Slow has passed.
Tick ==
  /\ now < MaxTime
  /\ lock # Nobody => now - lastAttempt < Slow
  /\ now' = now + 1
  /\ UNCHANGED <<endpoint, cache, fetches, kid, step>>

Rotate(k) ==
  /\ rotations < MaxRotations /\ rotations' = rotations + 1
  /\ IF k \in published
     THEN /\ published' = published \ {k}
          /\ until' = [until EXCEPT ![k] = now] /\ UNCHANGED since
     ELSE /\ published' = published \cup {k}
          /\ since' = [since EXCEPT ![k] = now] /\ UNCHANGED until
  /\ UNCHANGED <<now, cache, fetches, kid, step>>

-----------------------------------------------------------------------------
\* A request.

Reaches(r, to) == step' = [step EXCEPT ![r] = to] /\ UNCHANGED kid

Ends(r, outcome) ==
  /\ step' = [step EXCEPT ![r] = outcome]
  /\ kid' = [kid EXCEPT ![r] = NoKid]

\* A token that cannot be read, of another algorithm or without a key id is
\* refused before its key is looked up; an exempt path never gets here.
Arrive(r) ==
  /\ step[r] \in Outcomes \cup {"none"}
  /\ \/ Ends(r, "refused")
     \/ \E k \in Kids \cup {Forged} :
          /\ kid' = [kid EXCEPT ![r] = k]
          /\ step' = [step EXCEPT ![r] = "new"]
  /\ UNCHANGED <<now, endpoint, cache, fetches>>

\* What becomes of the token once get has returned: without a key, 401; with
\* one, what the signature and the claims say.
Ruled(r, held) ==
  IF kid[r] \in held THEN Ends(r, "passed") \/ Ends(r, "refused")
  ELSE Ends(r, "unknown")

\* Mutant: the keys are counted from the last attempt, successful or not.
ExpiredByAttempt == lastSuccess = Never \/ now - lastAttempt > TTL

Expired == lastSuccess = Never \/ now - lastSuccess > TTL

\* Mutant: an unknown key id always causes a fetch.
AlwaysAllowed == TRUE

\* Mutant: an unknown key id never causes a fetch.
NeverAllowed == lastAttempt = Never

RefetchAllowed == lastAttempt = Never \/ now - lastAttempt > MinRefetch

Hit(r) == kid[r] \in keys /\ ~Expired

FastPath(r) ==
  /\ step[r] = "new" /\ Hit(r) /\ Ruled(r, keys)
  /\ UNCHANGED <<now, endpoint, cache, fetches>>

Wait(r) ==
  /\ step[r] = "new" /\ ~Hit(r) /\ Reaches(r, "waiting")
  /\ UNCHANGED <<now, endpoint, cache, fetches>>

HasLock(r) == step[r] = "waiting" /\ lock = Nobody

\* The answer found with the lock held; the lock is released again.
LookAgain(r) ==
  /\ HasLock(r)
  /\ Hit(r) \/ (~Expired /\ ~RefetchAllowed)
  /\ Ruled(r, keys)
  /\ UNCHANGED <<now, endpoint, cache, fetches>>

Fetch(r) ==
  /\ HasLock(r) /\ ~Hit(r)
  /\ Expired \/ RefetchAllowed
  /\ lastAttempt' = now
  /\ lock' = r
  /\ Reaches(r, "fetching")
  /\ UNCHANGED <<now, endpoint, keys, lastSuccess, fetches>>

\* The endpoint composes its response.
Serve(r) ==
  /\ step[r] = "fetching" /\ Reaches(r, "served")
  /\ sent' = published
  /\ UNCHANGED <<now, endpoint, cache, lastFailed, failures>>

\* The new keys replace the old ones, and the token's is looked up in them.
Fetched(r) ==
  /\ step[r] = "served"
  /\ keys' = sent
  /\ lastSuccess' = now /\ lastFailed' = FALSE
  /\ Ruled(r, sent)
  /\ lock' = Nobody /\ sent' = {}
  /\ UNCHANGED <<now, endpoint, lastAttempt, failures>>

\* Mutant: the lock is not released when the fetch raises.
FetchFailsLocked(r) ==
  /\ step[r] \in {"fetching", "served"} /\ failures < MaxFailures
  /\ failures' = failures + 1 /\ lastFailed' = TRUE
  /\ Ends(r, "unavailable") /\ sent' = {}
  /\ UNCHANGED <<now, endpoint, keys, lastSuccess, lastAttempt, lock>>

\* The fetch raises: 503, and the cache keeps the keys it had.
FetchFails(r) ==
  /\ step[r] \in {"fetching", "served"} /\ failures < MaxFailures
  /\ failures' = failures + 1 /\ lastFailed' = TRUE
  /\ Ends(r, "unavailable")
  /\ lock' = Nobody /\ sent' = {}
  /\ UNCHANGED <<now, endpoint, keys, lastSuccess, lastAttempt>>

\* The response is no key set: what the parser raises is not an error of httpx,
\* and nothing on its way up catches it.
FetchMalformed(r) ==
  /\ step[r] = "served" /\ failures < MaxFailures
  /\ failures' = failures + 1 /\ lastFailed' = TRUE
  /\ Ends(r, "crashed")
  /\ lock' = Nobody /\ sent' = {}
  /\ UNCHANGED <<now, endpoint, keys, lastSuccess, lastAttempt>>

Look(r) == FastPath(r) \/ Wait(r)
Locked(r) == LookAgain(r) \/ Fetch(r)
Response(r) == Serve(r) \/ Fetched(r) \/ FetchFails(r) \/ FetchMalformed(r)

Next ==
  \/ Tick
  \/ \E k \in Kids : Rotate(k)
  \/ \E r \in Requests : Arrive(r) \/ Look(r) \/ Locked(r) \/ Response(r)

Spec == Init /\ [][Next]_vars

\* The event loop runs every request that can go on; asyncio.Lock wakes its
\* waiters in the order they came, so that none of them waits while the lock is
\* freed again and again; and a fetch ends, if only by its timeout.
FairSpec ==
  /\ Spec
  /\ \A r \in Requests :
       WF_vars(Look(r)) /\ SF_vars(Locked(r)) /\ WF_vars(Response(r))

-----------------------------------------------------------------------------
(* Properties *)

Becomes(r, to) == step[r] # to /\ step'[r] = to

\* A token signed with a withdrawn key is not accepted for longer than the keys
\* are held: at most TTL, and the time a response may have been on its way, after
\* the withdrawal (a failing endpoint does not prolong it: the cache fails closed).
WithdrawnKeysRunOut ==
  [][\A r \in Requests : Becomes(r, "passed") /\ kid[r] \notin published =>
       until[kid[r]] # Never /\ now - until[kid[r]] <= TTL + Slow]_vars

\* A new key works soon: a token is turned away for an unknown key only if the
\* key was published no longer than the refetch interval ago, or the last fetch
\* failed.
NewKeysAreFound ==
  [][\A r \in Requests :
       Becomes(r, "unknown") /\ kid[r] \in published /\ ~lastFailed' =>
         now - since[kid[r]] <= MinRefetch]_vars

\* However many requests present unknown keys, fetches that succeed are further
\* apart than the refetch interval, expiry or not.
FetchesArePaced ==
  [][\A r \in Requests :
       Becomes(r, "fetching") /\ lastAttempt # Never /\ ~lastFailed =>
         now - lastAttempt > MinRefetch]_vars

\* Every request that presents a readable token is answered: none is left
\* waiting for the lock by a fetch that raised, timed out or made no sense.
EveryRequestIsAnswered ==
  \A r \in Requests : step[r] = "new" ~> step[r] \in Outcomes
=============================================================================
