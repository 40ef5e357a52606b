--------------------------- MODULE JwksCacheProofs ---------------------------
(***************************************************************************)
(* What the cache and the pacing of its fetches guarantee, for any number  *)
(* of requests and keys and for all intervals.                             *)
(***************************************************************************)
EXTENDS JwksCache, TLAPS

(* The clocks never run ahead, a fetch is no older than Slow, and a success *)
(* is no older than the attempt it ended.                                   *)
Clocks ==
  /\ lastAttempt <= now /\ lastSuccess <= now
  /\ lock # Nobody => lastAttempt # Never /\ now - lastAttempt <= Slow
  /\ lastAttempt # Never /\ lock = Nobody /\ ~lastFailed =>
       lastSuccess # Never /\ lastSuccess >= lastAttempt

(* A key the cache still holds although it was withdrawn was withdrawn at   *)
(* most Slow before the cache's last success; one on its way, after the     *)
(* fetch began.                                                             *)
HeldKeys ==
  /\ sent # {} => lock # Nobody
  /\ keys # {} => lastSuccess # Never
  /\ \A k \in keys \ published :
       until[k] # Never /\ lastSuccess - until[k] <= Slow
  /\ \A k \in sent \ published :
       /\ until[k] # Never /\ until[k] >= lastAttempt

(* A key the cache does not hold although it is published was published     *)
(* after the last fetch began, if that succeeded.                           *)
MissingKeys ==
  /\ \A r \in Requests : step[r] = "served" =>
       \A k \in published \ sent : since[k] >= lastAttempt
  /\ lastAttempt # Never /\ lock = Nobody /\ ~lastFailed =>
       \A k \in published \ keys : since[k] >= lastAttempt

IInv == TypeOK /\ Clocks /\ HeldKeys /\ MissingKeys

USE NobodyAssumption, KidsAssumption, BoundsAssumption, IntervalsAssumption
USE DEF Never, Time

(* What a step of a request that only looks and answers may change.         *)
AnswerStep == UNCHANGED <<now, endpoint, cache, fetches>>

-----------------------------------------------------------------------------
(* The variables keep their shapes.                                         *)

LEMMA StepsKeepTypes ==
  ASSUME TypeOK, [Next]_vars
  PROVE  TypeOK'
<1> USE DEF TypeOK, Outcomes, endpoint, cache, fetches, Reaches, Ends, Ruled
<1>1. CASE Tick
  BY <1>1 DEF Tick
<1>2. ASSUME NEW k \in Kids, Rotate(k) PROVE TypeOK'
  BY <1>2 DEF Rotate
<1>3. ASSUME NEW r \in Requests, Arrive(r) PROVE TypeOK'
  BY <1>3 DEF Arrive
<1>4. ASSUME NEW r \in Requests, FastPath(r) PROVE TypeOK'
  BY <1>4 DEF FastPath
<1>5. ASSUME NEW r \in Requests, Wait(r) PROVE TypeOK'
  BY <1>5 DEF Wait
<1>6. ASSUME NEW r \in Requests, LookAgain(r) PROVE TypeOK'
  BY <1>6 DEF LookAgain, HasLock
<1>7. ASSUME NEW r \in Requests, Fetch(r) PROVE TypeOK'
  BY <1>7 DEF Fetch, HasLock
<1>8. ASSUME NEW r \in Requests, Serve(r) PROVE TypeOK'
  BY <1>8 DEF Serve
<1>9. ASSUME NEW r \in Requests, Fetched(r) PROVE TypeOK'
  <2>1. PICK outcome \in Outcomes : Ends(r, outcome)
    BY <1>9 DEF Fetched
  <2>2. /\ kid' \in [Requests -> Kids \cup {Forged, NoKid}]
        /\ step' \in [Requests -> {"none", "new", "waiting", "fetching", "served"} \cup Outcomes]
    BY <2>1
  <2>3. \A q \in Requests : step'[q] \in {"fetching", "served"} <=> lock' = q
    BY <1>9, <2>1 DEF Fetched
  <2>4. UNCHANGED <<now, endpoint, lastAttempt, failures>> /\ lastSuccess' = now
    BY <1>9 DEF Fetched
  <2>5. keys' \subseteq Kids /\ sent' \subseteq Kids /\ lock' = Nobody /\ lastFailed' \in BOOLEAN
    BY <1>9 DEF Fetched
  <2> HIDE DEF Ends, Ruled
  <2> QED
    BY <2>2, <2>3, <2>4, <2>5
<1>10. ASSUME NEW r \in Requests, FetchFails(r) PROVE TypeOK'
  BY <1>10 DEF FetchFails
<1>11. ASSUME NEW r \in Requests, FetchMalformed(r) PROVE TypeOK'
  BY <1>11 DEF FetchMalformed
<1>12. CASE UNCHANGED vars
  BY <1>12 DEF vars
<1> QED
  BY <1>1, <1>2, <1>3, <1>4, <1>5, <1>6, <1>7, <1>8, <1>9, <1>10, <1>11, <1>12
     DEF Next, Look, Locked, Response

(* An answer changes nothing the cache is about.                            *)
LEMMA AnswersAreAnswers ==
  ASSUME TypeOK, NEW r \in Requests, Arrive(r) \/ FastPath(r) \/ Wait(r) \/ LookAgain(r)
  PROVE  /\ AnswerStep
         /\ \A q \in Requests : step'[q] = "served" => step[q] = "served"
<1>1. AnswerStep
  BY DEF Arrive, FastPath, Wait, LookAgain, AnswerStep
<1>2. step' \in {[step EXCEPT ![r] = to] : to \in Outcomes \cup {"new", "waiting"}}
  BY DEF Arrive, FastPath, Wait, LookAgain, Ruled, Ends, Reaches, Outcomes
<1> QED
  BY <1>1, <1>2 DEF TypeOK, Outcomes

-----------------------------------------------------------------------------
(* The three parts of the invariant.                                        *)

LEMMA InitInvariant == Init => IInv
<1> SUFFICES ASSUME Init PROVE IInv
  OBVIOUS
<1>1. TypeOK
  <2>1. \A r \in Requests : step[r] \in {"fetching", "served"} <=> lock = r
    BY DEF Init
  <2>2. since \in [Kids -> Time \cup {Never}] /\ until \in [Kids -> Time \cup {Never}]
    BY DEF Init
  <2>3. kid \in [Requests -> Kids \cup {Forged, NoKid}]
    BY DEF Init
  <2>4. step \in [Requests -> {"none", "new", "waiting", "fetching", "served"} \cup Outcomes]
    BY DEF Init
  <2>5. /\ now \in 0..MaxTime /\ failures \in 0..MaxFailures /\ rotations \in 0..MaxRotations
        /\ lastSuccess = Never /\ lastAttempt = Never
    BY DEF Init
  <2>6. published \subseteq Kids /\ keys \subseteq Kids /\ sent \subseteq Kids
    BY DEF Init
  <2> QED
    BY <2>1, <2>2, <2>3, <2>4, <2>5, <2>6 DEF Init, TypeOK
<1>2. Clocks /\ HeldKeys /\ MissingKeys
  BY DEF Init, Clocks, HeldKeys, MissingKeys
<1> QED
  BY <1>1, <1>2 DEF IInv

LEMMA StepsKeepClocks ==
  ASSUME IInv, [Next]_vars
  PROVE  Clocks'
<1> USE DEF IInv, TypeOK, Clocks, endpoint, cache, fetches
<1>1. CASE Tick
  BY <1>1 DEF Tick
<1>2. ASSUME NEW k \in Kids, Rotate(k) PROVE Clocks'
  BY <1>2 DEF Rotate
<1>3. ASSUME NEW r \in Requests, Arrive(r) \/ Look(r) \/ LookAgain(r) PROVE Clocks'
  BY <1>3, AnswersAreAnswers DEF AnswerStep, Look
<1>4. ASSUME NEW r \in Requests, Fetch(r) PROVE Clocks'
  BY <1>4 DEF Fetch
<1>5. ASSUME NEW r \in Requests, Serve(r) PROVE Clocks'
  BY <1>5 DEF Serve
<1>6. ASSUME NEW r \in Requests, Fetched(r) PROVE Clocks'
  BY <1>6 DEF Fetched
<1>7. ASSUME NEW r \in Requests, FetchFails(r) \/ FetchMalformed(r) PROVE Clocks'
  BY <1>7 DEF FetchFails, FetchMalformed
<1>8. CASE UNCHANGED vars
  BY <1>8 DEF vars
<1> QED
  BY <1>1, <1>2, <1>3, <1>4, <1>5, <1>6, <1>7, <1>8 DEF Next, Locked, Response

LEMMA StepsKeepHeldKeys ==
  ASSUME IInv, [Next]_vars
  PROVE  HeldKeys'
<1> USE DEF IInv, TypeOK, Clocks, HeldKeys, endpoint, cache, fetches
<1>1. CASE Tick
  BY <1>1 DEF Tick
<1>2. ASSUME NEW k \in Kids, Rotate(k) PROVE HeldKeys'
  <2>1. CASE k \in published
    <3>1. /\ published' = published \ {k} /\ until' = [until EXCEPT ![k] = now]
          /\ UNCHANGED <<now, cache, fetches>>
      BY <1>2, <2>1 DEF Rotate
    <3>2. until'[k] = now /\ \A q \in Kids \ {k} : until'[q] = until[q]
      BY <3>1
    <3>3. ASSUME NEW q \in keys \ published'
          PROVE  until'[q] # Never /\ lastSuccess - until'[q] <= Slow
      BY <3>1, <3>2, <3>3
    <3>4. ASSUME NEW q \in sent \ published'
          PROVE  until'[q] # Never /\ until'[q] >= lastAttempt
      BY <3>1, <3>2, <3>4
    <3> QED
      BY <3>1, <3>3, <3>4
  <2>2. CASE k \notin published
    BY <1>2, <2>2 DEF Rotate
  <2> QED
    BY <2>1, <2>2
<1>3. ASSUME NEW r \in Requests, Arrive(r) \/ Look(r) \/ LookAgain(r) PROVE HeldKeys'
  BY <1>3, AnswersAreAnswers DEF AnswerStep, Look
<1>4. ASSUME NEW r \in Requests, Fetch(r) PROVE HeldKeys'
  BY <1>4 DEF Fetch, HasLock
<1>5. ASSUME NEW r \in Requests, Serve(r) PROVE HeldKeys'
  BY <1>5 DEF Serve
<1>6. ASSUME NEW r \in Requests, Fetched(r) PROVE HeldKeys'
  BY <1>6 DEF Fetched
<1>7. ASSUME NEW r \in Requests, FetchFails(r) \/ FetchMalformed(r) PROVE HeldKeys'
  BY <1>7 DEF FetchFails, FetchMalformed
<1>8. CASE UNCHANGED vars
  BY <1>8 DEF vars
<1> QED
  BY <1>1, <1>2, <1>3, <1>4, <1>5, <1>6, <1>7, <1>8 DEF Next, Locked, Response

LEMMA StepsKeepMissingKeys ==
  ASSUME IInv, [Next]_vars
  PROVE  MissingKeys'
<1> USE DEF IInv, TypeOK, Clocks, HeldKeys, MissingKeys, endpoint, cache, fetches
<1>1. CASE Tick
  BY <1>1 DEF Tick
<1>2. ASSUME NEW k \in Kids, Rotate(k) PROVE MissingKeys'
  <2>1. CASE k \in published
    BY <1>2, <2>1 DEF Rotate
  <2>2. CASE k \notin published
    BY <1>2, <2>2 DEF Rotate
  <2> QED
    BY <2>1, <2>2
<1>3. ASSUME NEW r \in Requests, Arrive(r) \/ Look(r) \/ LookAgain(r) PROVE MissingKeys'
  BY <1>3, AnswersAreAnswers DEF AnswerStep, Look
<1>4. ASSUME NEW r \in Requests, Fetch(r) PROVE MissingKeys'
  BY <1>4 DEF Fetch, HasLock, Reaches
<1>5. ASSUME NEW r \in Requests, Serve(r) PROVE MissingKeys'
  BY <1>5 DEF Serve, Reaches
<1>6. ASSUME NEW r \in Requests, Fetched(r) PROVE MissingKeys'
  <2>1. \A q \in Requests : step'[q] # "served"
    BY <1>6 DEF Fetched, Ruled, Ends
  <2> QED
    BY <1>6, <2>1 DEF Fetched
<1>7. ASSUME NEW r \in Requests, FetchFails(r) \/ FetchMalformed(r) PROVE MissingKeys'
  <2>1. \A q \in Requests : step'[q] # "served"
    BY <1>7 DEF FetchFails, FetchMalformed, Ends
  <2> QED
    BY <1>7, <2>1 DEF FetchFails, FetchMalformed
<1>8. CASE UNCHANGED vars
  BY <1>8 DEF vars
<1> QED
  BY <1>1, <1>2, <1>3, <1>4, <1>5, <1>6, <1>7, <1>8 DEF Next, Locked, Response

LEMMA Invariance == Spec => []IInv
<1>1. IInv /\ [Next]_vars => IInv'
  BY StepsKeepTypes, StepsKeepClocks, StepsKeepHeldKeys, StepsKeepMissingKeys DEF IInv
<1> QED
  BY InitInvariant, <1>1, PTL DEF Spec

-----------------------------------------------------------------------------
(* What a step of the cache may do.                                         *)

LEMMA OneRequestMoves ==
  ASSUME TypeOK, [Next]_vars, NEW r \in Requests, step'[r] # step[r]
  PROVE  Arrive(r) \/ Look(r) \/ Locked(r) \/ Response(r)
<1>1. \A q \in Requests : Arrive(q) \/ Look(q) \/ Locked(q) \/ Response(q) =>
        \E to : step' = [step EXCEPT ![q] = to]
  BY DEF Arrive, Look, FastPath, Wait, Locked, LookAgain, Fetch, Response, Serve, Fetched,
         FetchFails, FetchMalformed, Ruled, Ends, Reaches
<1>2. \A q \in Requests : Arrive(q) \/ Look(q) \/ Locked(q) \/ Response(q) => q = r
  BY <1>1 DEF TypeOK
<1> QED
  BY <1>2 DEF Next, Tick, Rotate, vars

(* A verdict for which a key was looked up is given where get returns.      *)
LEMMA VerdictsComeFromGet ==
  ASSUME TypeOK, [Next]_vars, NEW r \in Requests, NEW to \in {"passed", "unknown"},
         Becomes(r, to)
  PROVE  FastPath(r) \/ LookAgain(r) \/ Fetched(r)
<1>1. Arrive(r) \/ Look(r) \/ Locked(r) \/ Response(r)
  BY OneRequestMoves DEF Becomes
<1>2. ~Arrive(r) /\ ~Wait(r) /\ ~Fetch(r) /\ ~Serve(r) /\ ~FetchFails(r) /\ ~FetchMalformed(r)
  BY DEF TypeOK, Becomes, Arrive, Wait, Fetch, Serve, FetchFails, FetchMalformed, Ends, Reaches
<1> QED
  BY <1>1, <1>2 DEF Look, Locked, Response

LEMMA PassedKeyIsRecent ==
  ASSUME IInv, [Next]_vars, NEW r \in Requests, Becomes(r, "passed"), kid[r] \notin published
  PROVE  until[kid[r]] # Never /\ now - until[kid[r]] <= TTL + Slow
<1> USE DEF IInv, TypeOK
<1>1. CASE kid[r] \in keys /\ ~Expired
  BY <1>1 DEF HeldKeys, Clocks, Expired
<1>2. CASE Fetched(r)
  <2>1. kid[r] \in sent
    BY <1>2 DEF Fetched, Ruled, Ends, Becomes
  <2> QED
    BY <1>2, <2>1 DEF Fetched, HeldKeys, Clocks
<1>3. CASE FastPath(r)
  BY <1>1, <1>3 DEF FastPath, Hit
<1>4. CASE LookAgain(r)
  <2>1. kid[r] \in keys
    BY <1>4 DEF LookAgain, Ruled, Ends, Becomes
  <2> QED
    BY <1>1, <1>4, <2>1 DEF LookAgain, Hit
<1> QED
  BY <1>2, <1>3, <1>4, VerdictsComeFromGet

LEMMA MissingKeyIsNew ==
  ASSUME IInv, [Next]_vars, NEW r \in Requests, Becomes(r, "unknown"),
         kid[r] \in published, ~lastFailed'
  PROVE  now - since[kid[r]] <= MinRefetch
<1> USE DEF IInv, TypeOK
<1>1. CASE FastPath(r)
  BY <1>1 DEF FastPath, Hit, Ruled, Ends, Becomes
<1>2. CASE LookAgain(r)
  <2>1. kid[r] \notin keys
    BY <1>2 DEF LookAgain, Ruled, Ends, Becomes
  <2>2. lock = Nobody /\ ~lastFailed /\ lastAttempt # Never /\ now - lastAttempt <= MinRefetch
    BY <1>2, <2>1 DEF LookAgain, HasLock, Hit, RefetchAllowed, fetches
  <2>3. since[kid[r]] >= lastAttempt
    BY <2>1, <2>2 DEF MissingKeys
  <2> QED
    BY <2>2, <2>3
<1>3. CASE Fetched(r)
  <2>1. kid[r] \notin sent
    BY <1>3 DEF Fetched, Ruled, Ends, Becomes
  <2>2. since[kid[r]] >= lastAttempt
    BY <1>3, <2>1 DEF Fetched, MissingKeys
  <2> QED
    BY <1>3, <2>2 DEF Fetched, Clocks
<1> QED
  BY <1>1, <1>2, <1>3, VerdictsComeFromGet

LEMMA NextFetchIsLater ==
  ASSUME IInv, [Next]_vars, NEW r \in Requests, Becomes(r, "fetching"),
         lastAttempt # Never, ~lastFailed
  PROVE  now - lastAttempt > MinRefetch
<1> USE DEF IInv, TypeOK
<1>1. Fetch(r)
  <2>1. Arrive(r) \/ Look(r) \/ Locked(r) \/ Response(r)
    BY OneRequestMoves DEF Becomes
  <2>2. ~Arrive(r) /\ ~Look(r) /\ ~LookAgain(r) /\ ~Response(r)
    BY DEF Becomes, Arrive, Look, FastPath, Wait, LookAgain, Response, Serve, Fetched,
           FetchFails, FetchMalformed, Ruled, Ends, Reaches
  <2> QED
    BY <2>1, <2>2 DEF Locked
<1>2. lastSuccess # Never /\ lastSuccess >= lastAttempt
  BY <1>1 DEF Fetch, HasLock, Clocks
<1> QED
  BY <1>1, <1>2 DEF Fetch, Expired, RefetchAllowed

-----------------------------------------------------------------------------
(* Requests, keys, clocks and fetches keep their shapes, and the lock is    *)
(* held exactly while its holder's fetch is under way.                      *)
THEOREM CacheTypeCorrect == Spec => []TypeOK
<1>1. IInv => TypeOK
  BY DEF IInv
<1> QED
  BY Invariance, <1>1, PTL

(* No token signed with a withdrawn key passes later than TTL and the time  *)
(* of one response after the withdrawal.                                    *)
THEOREM WithdrawnKeysExpire == Spec => WithdrawnKeysRunOut
<1>1. IInv /\ [Next]_vars =>
        [\A r \in Requests : Becomes(r, "passed") /\ kid[r] \notin published =>
           until[kid[r]] # Never /\ now - until[kid[r]] <= TTL + Slow]_vars
  BY PassedKeyIsRecent
<1> QED
  BY Invariance, <1>1, PTL DEF Spec, WithdrawnKeysRunOut

(* A published key is refused as unknown for at most the refetch interval,  *)
(* unless the last fetch failed.                                            *)
THEOREM NewKeysBecomeKnown == Spec => NewKeysAreFound
<1>1. IInv /\ [Next]_vars =>
        [\A r \in Requests : Becomes(r, "unknown") /\ kid[r] \in published /\ ~lastFailed' =>
           now - since[kid[r]] <= MinRefetch]_vars
  BY MissingKeyIsNew
<1> QED
  BY Invariance, <1>1, PTL DEF Spec, NewKeysAreFound

(* Fetches that succeed are further apart than the refetch interval,        *)
(* whatever requests come.                                                  *)
THEOREM FetchesKeepTheirPace == Spec => FetchesArePaced
<1>1. IInv /\ [Next]_vars =>
        [\A r \in Requests : Becomes(r, "fetching") /\ lastAttempt # Never /\ ~lastFailed =>
           now - lastAttempt > MinRefetch]_vars
  BY NextFetchIsLater
<1> QED
  BY Invariance, <1>1, PTL DEF Spec, FetchesArePaced
=============================================================================
