----------------------------- MODULE PlatformProofs -----------------------------
(***************************************************************************)
(* TLAPS proofs about what the domains stand on.  First the helpers of     *)
(* shared/, sagas, workflows, the event publisher and the intake of the    *)
(* PMS's requests, for every number of callers, sessions, instances, steps *)
(* and nodes, every threshold, lifetime and clock.  Then accounts and      *)
(* their links and the tree of organisations, for any number of rows,      *)
(* tenants and sessions, whatever requests overlap.                        *)
(***************************************************************************)
EXTENDS Resilience, Orchestration, EventBus, PmsIntake, Accounts, Organizations,
        FiniteSetTheorems, SequenceTheorems, TLAPS

-----------------------------------------------------------------------------
(* The circuit breaker *)

BreakerInv == BreakerTypeOK /\ ClosedBelowThreshold

LEMMA BreakerInitially == BreakerInit => BreakerInv
BY BreakerAssumption DEF BreakerInit, BreakerInv, BreakerTypeOK, ClosedBelowThreshold

\* Every answer, early or late, leaves the circuit closed below the threshold
\* and nowhere else.
LEMMA BreakerStep == BreakerInv /\ [BreakerNext]_breakerVars => BreakerInv'
<1> SUFFICES ASSUME BreakerInv, [BreakerNext]_breakerVars PROVE BreakerInv'
  OBVIOUS
<1> USE BreakerAssumption DEF BreakerInv, BreakerTypeOK, ClosedBelowThreshold
<1>1. ASSUME NEW c \in Callers, BeginCall(c) PROVE BreakerInv'
  BY <1>1 DEF BeginCall, Allowed
<1>2. ASSUME NEW c \in Callers, RecordSuccess(c) PROVE BreakerInv'
  BY <1>2 DEF RecordSuccess
<1>3. ASSUME NEW c \in Callers, RecordFailure(c) PROVE BreakerInv'
  BY <1>3 DEF RecordFailure
<1>4. CASE SecondPasses
  BY <1>4 DEF SecondPasses
<1>5. CASE UNCHANGED breakerVars
  BY <1>5 DEF breakerVars
<1> QED
  BY <1>1, <1>2, <1>3, <1>4, <1>5 DEF BreakerNext

\* The circuit breaker keeps its promise to the called service, whatever order
\* answers arrive in: is_allowed, record_success and record_failure.
THEOREM BreakerHolds == BreakerSpec => BreakerProtects
<1> DEFINE Left == circuit = "open" /\ circuit' # "open" =>
                       circuit' = "half_open" /\ second - lastFailure > RecoveryTimeout
<1>1. BreakerInv /\ [BreakerNext]_breakerVars => [Left]_breakerVars
  <2> SUFFICES ASSUME BreakerInv, BreakerNext, circuit = "open", circuit' # "open"
               PROVE  circuit' = "half_open" /\ second - lastFailure > RecoveryTimeout
    OBVIOUS
  <2> QED
    BY DEF BreakerNext, BeginCall, Allowed, RecordSuccess, RecordFailure, SecondPasses
<1>2. BreakerInv => BreakerTypeOK /\ ClosedBelowThreshold
  BY DEF BreakerInv
<1>3. BreakerSpec => []BreakerInv
  BY BreakerInitially, BreakerStep, PTL DEF BreakerSpec
<1>4. BreakerSpec => [](BreakerTypeOK /\ ClosedBelowThreshold)
  BY <1>2, <1>3, PTL
<1>5. BreakerSpec => OpenUntilRecovery
  BY <1>1, <1>3, PTL DEF BreakerSpec, OpenUntilRecovery
<1> QED
  BY <1>4, <1>5 DEF BreakerProtects

-----------------------------------------------------------------------------
(* The idempotency guard *)

Answers == {"no", "proceed", "done", "failed", "mismatch", "null"}

Hashes == {HashOf[c] : c \in Calls}

Entries == [status : {"processing", "completed"}, hash : Hashes,
            response : Hashes \cup {"null"}, created : Int]

\* While no entry was swept away under a request at work, that request holds
\* the entry, and nobody else proceeds.
Locked ==
    /\ \A c \in AtWork : entry # NoEntry /\ entry.hash = HashOf[c]
    /\ \A c, d \in AtWork : c = d
    /\ entry # NoEntry => entry.response \in {"null", entry.hash}
    /\ \A c \in Calls : asked[c] \in Answers \cup {HashOf[c]}

GuardInv ==
    /\ moment \in Int
    /\ entry \in Entries \cup {NoEntry}
    /\ asked \in [Calls -> Answers \cup Hashes]
    /\ swept \in BOOLEAN
    /\ swept \/ Locked

LEMMA EntryType == \A e \in Entries : e # NoEntry
BY DEF Entries, NoEntry

LEMMA GuardInitially == GuardInit => GuardInv
<1> SUFFICES ASSUME GuardInit PROVE GuardInv
  OBVIOUS
<1>1. asked \in [Calls -> Answers \cup Hashes] /\ \A c \in Calls : asked[c] = "no"
  BY DEF GuardInit, Answers
<1>2. AtWork = {}
  BY <1>1 DEF AtWork
<1>3. moment \in Int /\ entry = NoEntry
  BY DEF GuardInit
<1>4. swept \in BOOLEAN
  BY Zenon DEF GuardInit
<1>5. Locked
  BY <1>1, <1>2, <1>3 DEF Locked, Answers
<1> QED
  BY <1>1, <1>3, <1>4, <1>5 DEF GuardInv

\* The answer to a request while the guard holds.
LEMMA AnswerType ==
    ASSUME GuardInv, NEW c \in Calls
    PROVE  /\ Answer(c) \in Answers \cup Hashes
           /\ Answer(c) = "proceed" <=> entry = NoEntry
           /\ ~swept => Answer(c) \in Answers \cup {HashOf[c]}
<1>1. CASE entry = NoEntry
  BY <1>1 DEF Answer, Answers
<1>2. CASE entry # NoEntry
  <2>1. entry \in Entries
    BY <1>2 DEF GuardInv
  <2>2. entry.response \in Hashes \cup {"null"} /\ entry.hash \in Hashes
    BY <2>1 DEF Entries
  <2>3. "proceed" \notin Hashes \cup {"null"}
    BY GuardAssumption DEF Hashes
  <2>4. Answer(c) = IF entry.hash # HashOf[c] THEN "mismatch" ELSE entry.response
    BY <1>2 DEF Answer
  <2>5. ~swept => entry.response \in {"null", entry.hash}
    BY <1>2 DEF GuardInv, Locked
  <2> QED
    BY <1>2, <2>2, <2>3, <2>4, <2>5 DEF Answers
<1> QED
  BY <1>1, <1>2

LEMMA GuardStep == GuardInv /\ [GuardNext]_guardVars => GuardInv'
<1> SUFFICES ASSUME GuardInv, [GuardNext]_guardVars PROVE GuardInv'
  OBVIOUS
<1> USE GuardAssumption
<1>1. ASSUME NEW c \in Calls, CheckAndLock(c) PROVE GuardInv'
  <2>1. Answer(c) \in Answers \cup Hashes /\ (Answer(c) = "proceed" <=> entry = NoEntry)
    BY AnswerType
  <2>2. ~swept => Answer(c) \in Answers \cup {HashOf[c]}
    BY AnswerType
  <2> DEFINE new == [status |-> "processing", hash |-> HashOf[c], response |-> "null",
                     created |-> moment]
  <2>3. new \in Entries /\ new # NoEntry /\ new.hash = HashOf[c] /\ new.response = "null"
    BY EntryType DEF Entries, GuardInv, Hashes
  <2>4. asked' = [asked EXCEPT ![c] = Answer(c)] /\ moment' = moment /\ swept' = swept
    BY <1>1 DEF CheckAndLock
  <2>5. entry' = IF entry = NoEntry THEN new ELSE entry
    BY <1>1, <2>1 DEF CheckAndLock
  <2> HIDE DEF new
  <2>6. asked' \in [Calls -> Answers \cup Hashes]
    BY <2>1, <2>4 DEF GuardInv
  <2>7. entry' \in Entries \cup {NoEntry}
    BY <2>3, <2>5 DEF GuardInv
  <2>8. ASSUME ~swept PROVE Locked'
    <3>1. CASE entry = NoEntry
      <4>1. \A d \in Calls : asked[d] # "proceed"
        BY <2>8, <3>1 DEF GuardInv, Locked, AtWork
      <4>2. AtWork' = {c}
        BY <2>1, <2>4, <3>1, <4>1 DEF GuardInv, AtWork
      <4> QED
        BY <2>2, <2>3, <2>4, <2>5, <2>8, <3>1, <4>2 DEF GuardInv, Locked
    <3>2. CASE entry # NoEntry
      <4>1. AtWork' \subseteq AtWork
        BY <2>1, <2>4, <3>2 DEF GuardInv, AtWork
      <4> QED
        BY <2>2, <2>4, <2>5, <2>8, <3>2, <4>1 DEF GuardInv, Locked
    <3> QED
      BY <3>1, <3>2
  <2> QED
    BY <2>4, <2>6, <2>7, <2>8 DEF GuardInv
<1>2. ASSUME NEW c \in Calls, StoreResult(c) PROVE GuardInv'
  <2> DEFINE new == [status |-> "completed", hash |-> entry.hash, response |-> HashOf[c],
                     created |-> entry.created]
  <2>1. asked' = [asked EXCEPT ![c] = "done"] /\ moment' = moment /\ swept' = swept
    BY <1>2 DEF StoreResult
  <2>2. entry' = IF entry = NoEntry THEN entry ELSE new
    BY <1>2 DEF StoreResult
  <2>3. entry # NoEntry => entry \in Entries
    BY DEF GuardInv
  <2>4. entry # NoEntry =>
            new \in Entries /\ new.hash = entry.hash /\ new.response = HashOf[c] /\ new # NoEntry
    BY <2>3, EntryType DEF Entries, Hashes
  <2> HIDE DEF new
  <2>5. asked' \in [Calls -> Answers \cup Hashes]
    BY <2>1 DEF GuardInv, Answers
  <2>6. ASSUME ~swept PROVE Locked'
    <3>1. c \in AtWork
      BY <1>2 DEF StoreResult, AtWork
    <3>2. AtWork' = AtWork \ {c}
      BY <2>1 DEF GuardInv, AtWork
    <3>3. entry # NoEntry /\ entry.hash = HashOf[c]
      BY <2>6, <3>1 DEF GuardInv, Locked
    <3> QED
      BY <2>1, <2>2, <2>4, <2>6, <3>2, <3>3 DEF GuardInv, Locked, Answers
  <2> QED
    BY <2>1, <2>2, <2>4, <2>5, <2>6 DEF GuardInv
<1>3. ASSUME NEW c \in Calls, FailCall(c) PROVE GuardInv'
  <2>1. asked' = [asked EXCEPT ![c] = "failed"] /\ entry' = entry /\ moment' = moment /\ swept' = swept
    BY <1>3 DEF FailCall
  <2>2. AtWork' \subseteq AtWork
    BY <2>1 DEF GuardInv, AtWork
  <2>3. asked' \in [Calls -> Answers \cup Hashes]
    BY <2>1 DEF GuardInv, Answers
  <2> QED
    BY <2>1, <2>2, <2>3 DEF GuardInv, Locked, Answers
<1>4. CASE Cleanup
  <2>1. entry' = NoEntry /\ asked' = asked /\ moment' = moment /\ swept' = (swept \/ AtWork # {})
    BY <1>4 DEF Cleanup
  <2>2. AtWork' = AtWork
    BY <2>1 DEF AtWork
  <2> QED
    BY <2>1, <2>2 DEF GuardInv, Locked
<1>5. CASE MomentPasses
  <2>1. moment' \in Int /\ UNCHANGED <<entry, asked, swept>>
    BY <1>5 DEF MomentPasses, GuardInv
  <2> QED
    BY <2>1 DEF GuardInv, Locked, AtWork
<1>6. CASE UNCHANGED guardVars
  BY <1>6 DEF guardVars, GuardInv, Locked, AtWork
<1> QED
  BY <1>1, <1>2, <1>3, <1>4, <1>5, <1>6 DEF GuardNext

\* Until an entry is swept away under it, one request with a key is at work,
\* and every other gets the response to its own data, nothing, or an error:
\* check_and_lock, store_result and cleanup.
THEOREM GuardHolds == GuardSpec => [](OneAtWork /\ AnswersMatchData)
<1>1. ASSUME GuardInv PROVE OneAtWork /\ AnswersMatchData
  <2>1. swept \/ \A c, d \in AtWork : c = d
    BY <1>1 DEF GuardInv, Locked
  <2>2. ASSUME ~swept PROVE Cardinality(AtWork) <= 1
    <3>1. CASE AtWork = {}
      BY <3>1, FS_EmptySet
    <3>2. CASE AtWork # {}
      <4>1. PICK c \in AtWork : AtWork = {c}
        BY <2>1, <2>2, <3>2
      <4>2. Cardinality({c}) = 1
        BY FS_Singleton
      <4> QED
        BY <4>1, <4>2
    <3> QED
      BY <3>1, <3>2
  <2> QED
    BY <1>1, <2>2 DEF GuardInv, Locked, OneAtWork, AnswersMatchData, Answers
<1> QED
  BY <1>1, GuardInitially, GuardStep, PTL DEF GuardSpec

-----------------------------------------------------------------------------
(* The result cache *)

\* A copy is kept no longer than its lifetime after it was made, and it is made
\* from a value that was stored no longer ago than the lifetime of its source.
CacheInv ==
    /\ time \in Int
    /\ DOMAIN local = Processes /\ local = [p \in Processes |-> local[p]]
    /\ DOMAIN served = Processes /\ served = [p \in Processes |-> served[p]]
    /\ redis # NoValue =>
           /\ redis.value \in Int /\ redis.until \in Int
           /\ redis.until <= redis.value + Ttl
    /\ \A p \in Processes : local[p] # NoValue =>
           /\ local[p].value \in Int /\ local[p].until \in Int
           /\ local[p].until <= local[p].value + Ttl + LocalTtl
    /\ \A p \in Processes : served[p] # NoValue =>
           served[p] \in Int /\ served[p] <= Ttl + LocalTtl

LEMMA CacheInitially == CacheInit => CacheInv
BY DEF CacheInit, CacheInv

\* What is kept locally, of a value that is at most Ttl old.
LEMMA KeepLocalFacts ==
    ASSUME CacheInv, NEW p \in Processes, NEW v \in Int, KeepLocal(p, v), time <= v + Ttl
    PROVE  /\ DOMAIN local' = Processes /\ local' = [q \in Processes |-> local'[q]]
           /\ \A q \in Processes : local'[q] # NoValue =>
                  /\ local'[q].value \in Int /\ local'[q].until \in Int
                  /\ local'[q].until <= local'[q].value + Ttl + LocalTtl
<1> DEFINE kept == [value |-> v, until |-> time + LocalTtl]
<1>1. kept.value \in Int /\ kept.until \in Int /\ kept.until <= kept.value + Ttl + LocalTtl
  BY CacheAssumption DEF CacheInv
<1>2. local' = [local EXCEPT ![p] = kept]
  BY DEF KeepLocal
<1> HIDE DEF kept
<1>3. DOMAIN local' = Processes /\ local' = [q \in Processes |-> local'[q]]
  BY <1>2 DEF CacheInv
<1>4. \A q \in Processes : local'[q] = IF q = p THEN kept ELSE local[q]
  BY <1>2 DEF CacheInv
<1> QED
  BY <1>1, <1>3, <1>4 DEF CacheInv

\* What is served is no older than the two lifetimes.
LEMMA ServeFacts ==
    ASSUME CacheInv, NEW p \in Processes, NEW v \in Int, Serve(p, v), time <= v + Ttl + LocalTtl
    PROVE  /\ DOMAIN served' = Processes /\ served' = [q \in Processes |-> served'[q]]
           /\ \A q \in Processes : served'[q] # NoValue =>
                  served'[q] \in Int /\ served'[q] <= Ttl + LocalTtl
<1>1. time - v \in Int /\ time - v <= Ttl + LocalTtl
  BY CacheAssumption DEF CacheInv
<1>2. served' = [served EXCEPT ![p] = time - v]
  BY DEF Serve
<1>3. \A q \in Processes : served'[q] = IF q = p THEN time - v ELSE served[q]
  BY <1>2 DEF CacheInv
<1>4. DOMAIN served' = Processes /\ served' = [q \in Processes |-> served'[q]]
  BY <1>2 DEF CacheInv
<1> QED
  BY <1>1, <1>3, <1>4 DEF CacheInv

LEMMA CacheStep == CacheInv /\ [CacheNext]_cacheVars => CacheInv'
<1> SUFFICES ASSUME CacheInv, [CacheNext]_cacheVars PROVE CacheInv'
  OBVIOUS
<1> USE CacheAssumption
<1>1. ASSUME NEW p \in Processes, LocalHit(p) PROVE CacheInv'
  <2>1. /\ local[p] # NoValue /\ time < local[p].until /\ Serve(p, local[p].value)
        /\ UNCHANGED <<time, local, redis>>
    BY <1>1 DEF LocalHit, Fresh
  <2>2. local[p].value \in Int /\ time <= local[p].value + Ttl + LocalTtl
    BY <2>1 DEF CacheInv
  <2> QED
    BY <2>1, <2>2, ServeFacts DEF CacheInv
<1>2. ASSUME NEW p \in Processes, RedisHit(p) PROVE CacheInv'
  <2>1. /\ redis # NoValue /\ time < redis.until /\ KeepLocal(p, redis.value)
        /\ Serve(p, redis.value) /\ UNCHANGED <<time, redis>>
    BY <1>2 DEF RedisHit, Fresh
  <2>2. redis.value \in Int /\ time <= redis.value + Ttl
    BY <2>1 DEF CacheInv
  <2>3. time <= redis.value + Ttl + LocalTtl
    BY <2>2 DEF CacheInv
  <2> QED
    BY <2>1, <2>2, <2>3, KeepLocalFacts, ServeFacts DEF CacheInv
<1>3. ASSUME NEW p \in Processes, Compute(p) PROVE CacheInv'
  BY <1>3 DEF Compute, CacheInv
<1>4. ASSUME NEW p \in Processes, StoreLocal(p) PROVE CacheInv'
  <2>1. KeepLocal(p, time) /\ UNCHANGED <<time, redis, served>>
    BY <1>4 DEF StoreLocal
  <2>2. time \in Int /\ time <= time + Ttl
    BY DEF CacheInv
  <2> QED
    BY <2>1, <2>2, KeepLocalFacts DEF CacheInv
<1>5. ASSUME NEW p \in Processes, StoreRedis(p) PROVE CacheInv'
  <2> DEFINE new == [value |-> time, until |-> time + Ttl]
  <2>1. Serve(p, time) /\ UNCHANGED <<time, local>> /\ (redis' = redis \/ redis' = new)
    BY <1>5 DEF StoreRedis
  <2>2. time \in Int /\ time <= time + Ttl + LocalTtl
    BY DEF CacheInv
  <2>3. new.value \in Int /\ new.until \in Int /\ new.until <= new.value + Ttl
    BY <2>2
  <2> HIDE DEF new
  <2> QED
    BY <2>1, <2>2, <2>3, ServeFacts DEF CacheInv
<1>6. ASSUME NEW p \in Processes, ProcessRestarts(p) PROVE CacheInv'
  BY <1>6 DEF ProcessRestarts, CacheInv
<1>7. CASE TimePasses
  BY <1>7 DEF TimePasses, CacheInv
<1>8. CASE UNCHANGED cacheVars
  BY <1>8 DEF cacheVars, CacheInv
<1> QED
  BY <1>1, <1>2, <1>3, <1>4, <1>5, <1>6, <1>7, <1>8 DEF CacheNext

\* A figure that the two-level cache serves was stored no longer ago than the
\* two lifetimes together, whatever their lengths and however many processes
\* keep copies: CacheManager.get, set and get_or_set.
THEOREM CacheHolds == CacheSpec => []ServedIsRecent
<1>1. CacheInv => ServedIsRecent
  BY DEF CacheInv, ServedIsRecent
<1> QED
  BY <1>1, CacheInitially, CacheStep, PTL DEF CacheSpec

-----------------------------------------------------------------------------
(* The rate limiter *)

\* The requests admitted in the window that starts at t.
InWindowFrom(t) == {n \in DOMAIN admitted : admitted[n] \in t..t + (Window - 1)}

\* A request that the store no longer holds is out of every window that is
\* still open.
LimiterInv ==
    /\ clock \in Nat
    /\ admitted \in Seq(Nat)
    /\ \A n \in 1..Len(admitted) : admitted[n] <= clock
    /\ stamps \subseteq 1..Len(admitted)
    /\ \A n \in 1..Len(admitted) : n \notin stamps => ~InWindow(admitted[n])
    /\ \A t \in 0..LastTick : Cardinality(InWindowFrom(t)) <= MaxAdmitted

LEMMA LimiterInitially == LimiterInit => LimiterInv
<1> SUFFICES ASSUME LimiterInit PROVE LimiterInv
  OBVIOUS
<1>1. clock = 0 /\ admitted = <<>> /\ stamps = {}
  BY DEF LimiterInit
<1>2. admitted \in Seq(Nat) /\ Len(admitted) = 0 /\ DOMAIN admitted = {}
  BY <1>1
<1>3. \A t : InWindowFrom(t) = {}
  BY <1>2 DEF InWindowFrom
<1>4. Cardinality({}) = 0
  BY FS_EmptySet
<1>5. \A t \in 0..LastTick : Cardinality(InWindowFrom(t)) <= MaxAdmitted
  BY <1>3, <1>4, LimiterAssumption
<1> QED
  BY <1>1, <1>2, <1>5 DEF LimiterInv

\* A request that is admitted finds the store below the limit, and the store
\* holds all that may share a window with it.
LEMMA AdmissionFits ==
    ASSUME LimiterInv, Cardinality(StillHeld) < MaxAdmitted,
           admitted' = Append(admitted, clock), UNCHANGED clock,
           NEW t \in 0..LastTick
    PROVE  Cardinality(InWindowFrom(t)') <= MaxAdmitted
<1> DEFINE new == Len(admitted) + 1
<1>1. /\ clock \in Nat /\ admitted \in Seq(Nat) /\ Len(admitted) \in Nat
      /\ DOMAIN admitted = 1..Len(admitted)
      /\ \A n \in 1..Len(admitted) : admitted[n] \in Nat /\ admitted[n] <= clock
      /\ Window \in Nat \ {0} /\ MaxAdmitted \in Nat /\ t \in Nat
  BY LimiterAssumption DEF LimiterInv
<1>2. /\ DOMAIN admitted' = 1..new
      /\ admitted'[new] = clock
      /\ \A n \in 1..Len(admitted) : admitted'[n] = admitted[n]
  BY <1>1
<1>3. InWindowFrom(t)' = {n \in 1..new : admitted'[n] \in t..t + (Window - 1)}
  BY <1>2 DEF InWindowFrom
<1>4. CASE clock \notin t..t + (Window - 1)
  <2>1. InWindowFrom(t)' = InWindowFrom(t)
    <3>1. \A n \in 1..new : n = new \/ n \in 1..Len(admitted)
      BY <1>1
    <3>2. 1..Len(admitted) \subseteq 1..new
      BY <1>1
    <3> HIDE DEF new
    <3> QED
      BY <1>1, <1>2, <1>3, <1>4, <3>1, <3>2 DEF InWindowFrom
  <2> QED
    BY <2>1 DEF LimiterInv
<1>5. CASE clock \in t..t + (Window - 1)
  <2>1. InWindowFrom(t)' \subseteq StillHeld \cup {new}
    <3> SUFFICES ASSUME NEW n \in InWindowFrom(t)', n # new PROVE n \in StillHeld
      OBVIOUS
    <3>1. n \in 1..Len(admitted) /\ admitted'[n] \in t..t + (Window - 1)
      BY <1>1, <1>3
    <3>2. admitted[n] \in t..t + (Window - 1)
      BY <1>2, <3>1
    <3>3. InWindow(admitted[n])
      BY <1>1, <1>5, <3>2 DEF InWindow
    <3> QED
      BY <3>1, <3>3 DEF LimiterInv, StillHeld
  <2>2. IsFiniteSet(StillHeld) /\ Cardinality(StillHeld) \in Nat
    <3>1. IsFiniteSet(1..Len(admitted))
      BY <1>1, FS_Interval
    <3>2. StillHeld \subseteq 1..Len(admitted)
      BY DEF StillHeld, LimiterInv
    <3> QED
      BY <3>1, <3>2, FS_Subset, FS_CardinalityType
  <2>3. /\ IsFiniteSet(StillHeld \cup {new})
        /\ Cardinality(StillHeld \cup {new}) \in {Cardinality(StillHeld), Cardinality(StillHeld) + 1}
    <3> HIDE DEF new
    <3> QED
      BY <2>2, FS_AddElement
  <2>4. /\ Cardinality(InWindowFrom(t)') \in Nat
        /\ Cardinality(InWindowFrom(t)') <= Cardinality(StillHeld \cup {new})
    BY <2>1, <2>3, FS_Subset, FS_CardinalityType
  <2> QED
    BY <1>1, <2>2, <2>3, <2>4
<1> QED
  BY <1>4, <1>5

LEMMA LimiterStep == LimiterInv /\ [LimiterNext]_limiterVars => LimiterInv'
<1> SUFFICES ASSUME LimiterInv, [LimiterNext]_limiterVars PROVE LimiterInv'
  OBVIOUS
<1>0. /\ clock \in Nat /\ admitted \in Seq(Nat) /\ Len(admitted) \in Nat
      /\ \A n \in 1..Len(admitted) : admitted[n] \in Nat
      /\ Window \in Nat
      /\ StillHeld \subseteq stamps
  BY LimiterAssumption DEF LimiterInv, StillHeld
<1>1. CASE IsAllowed /\ Cardinality(StillHeld) < MaxAdmitted
  <2>1. /\ admitted' = Append(admitted, clock) /\ UNCHANGED clock
        /\ stamps' = StillHeld \cup {Len(admitted) + 1}
    BY <1>1 DEF IsAllowed
  <2>2. /\ admitted' \in Seq(Nat) /\ Len(admitted') = Len(admitted) + 1
        /\ admitted'[Len(admitted) + 1] = clock
        /\ \A n \in 1..Len(admitted) : admitted'[n] = admitted[n]
    BY <1>0, <2>1
  <2>3. \A n \in 1..Len(admitted') : n \in 1..Len(admitted) \/ n = Len(admitted) + 1
    BY <1>0, <2>2
  <2>4. \A n \in 1..Len(admitted') : admitted'[n] <= clock'
    BY <1>0, <2>1, <2>2, <2>3 DEF LimiterInv
  <2>5. stamps' \subseteq 1..Len(admitted')
    <3>1. \A n \in StillHeld : n \in 1..Len(admitted)
      BY <1>0 DEF LimiterInv
    <3> QED
      BY <1>0, <2>1, <2>2, <3>1
  <2>6. \A n \in 1..Len(admitted') : n \notin stamps' => ~InWindow(admitted[n])'
    BY <2>1, <2>2, <2>3 DEF LimiterInv, StillHeld, InWindow
  <2>7. \A t \in 0..LastTick : Cardinality(InWindowFrom(t)') <= MaxAdmitted
    BY <1>1, <2>1, AdmissionFits
  <2> QED
    BY <1>0, <2>1, <2>2, <2>4, <2>5, <2>6, <2>7 DEF LimiterInv
<1>2. CASE IsAllowed /\ ~(Cardinality(StillHeld) < MaxAdmitted)
  <2>1. UNCHANGED <<clock, admitted>> /\ stamps' = StillHeld
    BY <1>2 DEF IsAllowed
  <2> QED
    BY <1>0, <2>1 DEF LimiterInv, StillHeld, InWindow, InWindowFrom
<1>3. CASE Reset
  <2>1. UNCHANGED clock /\ admitted' = <<>> /\ stamps' = {}
    BY <1>3 DEF Reset
  <2>2. admitted' \in Seq(Nat) /\ Len(admitted') = 0 /\ DOMAIN admitted' = {}
    BY <2>1
  <2>3. \A t \in 0..LastTick : InWindowFrom(t)' = {}
    BY <2>2 DEF InWindowFrom
  <2>4. \A t \in 0..LastTick : Cardinality(InWindowFrom(t)') <= MaxAdmitted
    BY <2>3, FS_EmptySet, LimiterAssumption
  <2> QED
    BY <1>0, <2>1, <2>2, <2>4 DEF LimiterInv
<1>4. CASE LimiterTick
  <2>1. clock' = clock + 1 /\ UNCHANGED <<admitted, stamps>>
    BY <1>4 DEF LimiterTick
  <2> QED
    BY <1>0, <2>1 DEF LimiterInv, InWindow, InWindowFrom
<1>5. CASE UNCHANGED limiterVars
  BY <1>5 DEF limiterVars, LimiterInv, InWindow, InWindowFrom
<1> QED
  BY <1>1, <1>2, <1>3, <1>4, <1>5 DEF LimiterNext

\* However long the windows, however many requests and whenever they come, no
\* window has more of them admitted than the limit: InMemoryRateLimiter.
THEOREM LimiterHolds == LimiterSpec => []EveryWindowIsLimited
<1>1. LimiterInv => EveryWindowIsLimited
  BY DEF LimiterInv, EveryWindowIsLimited, InWindowFrom
<1> QED
  BY <1>1, LimiterInitially, LimiterStep, PTL DEF LimiterSpec

-----------------------------------------------------------------------------
(* The helpers together *)

\* Limits are kept, repetitions are answered as the first request was, and what
\* is cached is not older than it may be, whatever the callers of the limiter,
\* the guard and the cache do.
THEOREM HelpersHold ==
    LimiterSpec /\ GuardSpec /\ CacheSpec => []HelpersAreSound
<1>1. EveryWindowIsLimited /\ OneAtWork /\ AnswersMatchData /\ ServedIsRecent => HelpersAreSound
  BY DEF HelpersAreSound
<1> QED
  BY <1>1, LimiterHolds, GuardHolds, CacheHolds, PTL

-----------------------------------------------------------------------------
(* Sagas *)

SagaStatuses == {"pending", "started", "completed", "compensating", "compensated"}

StepStatuses == {"pending", "executing", "completed", "failed"}

SagaOf(n) ==
    [steps : {n}, status : SagaStatuses, step : [1..n -> StepStatuses],
     call : {"none", "runs", "returned", "raised"}, at : 0..n, back : Int]

\* The steps before the one a saga is at are completed, those after it have
\* not been touched; status and call tell what has become of that one.
InOrder(r) ==
    /\ \A i \in 1..r.steps : i < r.at => r.step[i] = "completed"
    /\ \A i \in 1..r.steps : i > r.at => r.step[i] = "pending"
    /\ r.status = "completed" =>
          /\ r.call = "returned" /\ r.at = r.steps
          /\ r.at > 0 => r.step[r.at] = "completed"
    /\ r.status \in {"compensating", "compensated"} =>
          r.at > 0 /\ r.step[r.at] = "failed" /\ r.back = r.at - 1
    /\ r.status = "compensated" => r.back = 0 /\ r.call = "returned"
    /\ r.call = "raised" => r.status = "compensating" /\ r.back > 0

SagaInv ==
    /\ saga = [s \in Instances |-> saga[s]]
    /\ \A s \in Instances : InOrder(saga[s]) /\ \E n \in Nat : saga[s] \in SagaOf(n)

\* A saga that is replaced by one of as many steps, in order, leaves all so.
LEMMA SagaMoves ==
    ASSUME SagaInv, NEW s \in Instances, NEW n \in Nat, NEW next \in SagaOf(n),
           InOrder(next), saga' = [saga EXCEPT ![s] = next]
    PROVE  SagaInv'
  <1>1. saga' = [t \in Instances |-> IF t = s THEN next ELSE saga[t]]
    BY DEF SagaInv
  <1>2. \A t \in Instances : saga'[t] = IF t = s THEN next ELSE saga[t]
    BY <1>1
  <1> QED
    BY <1>1, <1>2 DEF SagaInv

LEMMA SagaStep == SagaInv /\ [SagaNext]_sagaVars => SagaInv'
  <1> SUFFICES ASSUME SagaInv, [SagaNext]_sagaVars PROVE SagaInv'
    OBVIOUS
  <1>1. CASE UNCHANGED sagaVars
    BY <1>1 DEF SagaInv, sagaVars
  <1>2. CASE SagaNext
    <2>1. PICK s \in Instances : Start(s) \/ Proceed(s)
      BY <1>2 DEF SagaNext
    <2>2. PICK n \in Nat : saga[s] \in SagaOf(n)
      BY DEF SagaInv
    <2> DEFINE r == saga[s]
    <2>3. /\ r.steps = n /\ r.status \in SagaStatuses /\ r.step \in [1..n -> StepStatuses]
          /\ r.call \in {"none", "runs", "returned", "raised"} /\ r.at \in 0..n /\ r.back \in Int
      BY <2>2 DEF SagaOf
    <2>4. InOrder(r)
      BY DEF SagaInv
    <2>5. CASE Start(s)
      <3> DEFINE next == [r EXCEPT !.status = "started", !.call = "runs"]
      <3>1. saga' = [saga EXCEPT ![s] = next]
        BY <2>5 DEF Start, SagaInv
      <3>2. next \in SagaOf(n) /\ InOrder(next)
        BY <2>2, <2>3, <2>4 DEF SagaOf, InOrder, SagaStatuses
      <3> HIDE DEF next
      <3> QED
        BY <3>1, <3>2, SagaMoves
    <2>6. CASE Execute(s)
      <3> DEFINE step == [r.step EXCEPT ![r.at + 1] = "executing"]
                 next == [r EXCEPT !.at = r.at + 1, !.step = step]
      <3>1. saga' = [saga EXCEPT ![s] = next]
        BY <2>6 DEF Execute, SagaInv
      <3>2. r.at < n /\ (r.at = 0 \/ r.step[r.at] = "completed") /\ r.call = "runs"
            /\ r.status = "started"
        <4>1. /\ r.at < n /\ r.call = "runs" /\ r.status = "started"
              /\ AtStep(s) = "none" \/ AtStep(s) = "completed"
          BY <2>3, <2>6 DEF Execute, Forward
        <4>2. r.at # 0 => AtStep(s) = r.step[r.at] /\ r.step[r.at] # "none"
          BY <2>3 DEF AtStep, StepStatuses
        <4> QED
          BY <4>1, <4>2
      <3>3. r.at + 1 \in 1..n /\ step \in [1..n -> StepStatuses]
            /\ \A i \in 1..n : step[i] = IF i = r.at + 1 THEN "executing" ELSE r.step[i]
        BY <2>3, <3>2 DEF StepStatuses
      <3>4. \A i \in 1..n : i < r.at + 1 => step[i] = "completed"
        BY <2>3, <2>4, <3>2, <3>3 DEF InOrder
      <3>5. \A i \in 1..n : i > r.at + 1 => step[i] = "pending"
        BY <2>3, <2>4, <3>3 DEF InOrder
      <3> HIDE DEF step
      <3>6. next \in SagaOf(n) /\ InOrder(next)
        <4>1. next \in SagaOf(n)
          <5>1. r.at + 1 \in 0..n
            BY <2>3, <3>3
          <5> DEFINE further == [r EXCEPT !.at = r.at + 1]
          <5>2. further \in SagaOf(n) /\ next = [further EXCEPT !.step = step]
            BY <2>2, <5>1 DEF SagaOf
          <5> HIDE DEF next, further
          <5> QED
            BY <3>3, <5>2 DEF SagaOf
        <4>2. next.steps = n /\ next.at = r.at + 1 /\ next.step = step
              /\ next.status = "started" /\ next.call = "runs"
          BY <2>2, <3>2 DEF SagaOf
        <4> HIDE DEF next
        <4> QED
          BY <3>4, <3>5, <4>1, <4>2 DEF InOrder
      <3> HIDE DEF next
      <3> QED
        BY <3>1, <3>6, SagaMoves
    <2>7. CASE StepCompletes(s)
      <3> DEFINE step == [r.step EXCEPT ![r.at] = "completed"]
                 next == [r EXCEPT !.step = step]
      <3>1. saga' = [saga EXCEPT ![s] = next]
        BY <2>7 DEF StepCompletes, SagaInv
      <3>2. r.status = "started" /\ r.call = "runs"
        BY <2>7 DEF StepCompletes, Forward
      <3>3. step \in [1..n -> StepStatuses]
            /\ \A i \in 1..n : i # r.at => step[i] = r.step[i]
        BY <2>3 DEF StepStatuses
      <3> HIDE DEF step
      <3>4. next \in SagaOf(n) /\ InOrder(next)
        BY <2>2, <2>3, <2>4, <3>2, <3>3 DEF SagaOf, InOrder
      <3> HIDE DEF next
      <3> QED
        BY <3>1, <3>4, SagaMoves
    <2>8. CASE StepFails(s)
      <3> DEFINE step == [r.step EXCEPT ![r.at] = "failed"]
                 next == [r EXCEPT !.step = step, !.status = "compensating", !.back = r.at - 1]
      <3>1. saga' = [saga EXCEPT ![s] = next]
        BY <2>8 DEF StepFails, SagaInv
      <3>2. r.at # 0 /\ r.call = "runs"
        BY <2>8 DEF StepFails, Forward, AtStep
      <3>3. step \in [1..n -> StepStatuses] /\ step[r.at] = "failed"
            /\ \A i \in 1..n : i # r.at => step[i] = r.step[i]
        BY <2>3, <3>2 DEF StepStatuses
      <3> HIDE DEF step
      <3>4. next \in SagaOf(n) /\ InOrder(next)
        <4>1. next \in SagaOf(n)
          <5>1. r.at - 1 \in Int
            BY <2>3
          <5> DEFINE failed == [r EXCEPT !.step = step]
          <5>2. failed \in SagaOf(n)
                /\ next = [failed EXCEPT !.status = "compensating", !.back = r.at - 1]
            BY <2>2, <3>3 DEF SagaOf
          <5> HIDE DEF next, failed
          <5> QED
            BY <5>1, <5>2 DEF SagaOf, SagaStatuses
        <4>2. next.steps = n /\ next.at = r.at /\ next.step = step /\ next.back = r.at - 1
              /\ next.status = "compensating" /\ next.call = "runs"
          BY <2>2, <2>3, <3>2 DEF SagaOf
        <4>3. \A i \in 1..n : (i < r.at => step[i] = "completed") /\ (i > r.at => step[i] = "pending")
          BY <2>3, <2>4, <3>3 DEF InOrder
        <4> HIDE DEF next
        <4> QED
          BY <2>3, <3>2, <3>3, <4>1, <4>2, <4>3 DEF InOrder
      <3> HIDE DEF next
      <3> QED
        BY <3>1, <3>4, SagaMoves
    <2>9. CASE CompensateNext(s)
      <3> DEFINE next == [r EXCEPT !.call = "raised"]
      <3>1. saga' = [saga EXCEPT ![s] = next]
        BY <2>9 DEF CompensateNext, SagaInv
      <3>2. r.status = "compensating" /\ r.back > 0
        BY <2>9 DEF CompensateNext
      <3>3. next \in SagaOf(n) /\ InOrder(next)
        BY <2>2, <2>3, <2>4, <3>2 DEF SagaOf, InOrder
      <3> HIDE DEF next
      <3> QED
        BY <3>1, <3>3, SagaMoves
    <2>10. CASE EndCompensation(s)
      <3> DEFINE next == [r EXCEPT !.status = "compensated", !.call = "returned"]
      <3>1. saga' = [saga EXCEPT ![s] = next]
        BY <2>10 DEF EndCompensation, SagaInv
      <3>2. r.status = "compensating" /\ r.back = 0
        BY <2>10 DEF EndCompensation
      <3>3. next \in SagaOf(n) /\ InOrder(next)
        BY <2>2, <2>3, <2>4, <3>2 DEF SagaOf, InOrder, SagaStatuses
      <3> HIDE DEF next
      <3> QED
        BY <3>1, <3>3, SagaMoves
    <2>11. CASE Complete(s)
      <3> DEFINE next == [r EXCEPT !.status = "completed", !.call = "returned"]
      <3>1. saga' = [saga EXCEPT ![s] = next]
        BY <2>11 DEF Complete, SagaInv
      <3>2. r.at = r.steps /\ (r.at > 0 => r.step[r.at] = "completed")
        <4>1. r.at = r.steps /\ (AtStep(s) = "none" \/ AtStep(s) = "completed")
          BY <2>11 DEF Complete
        <4>2. r.at # 0 => AtStep(s) = r.step[r.at] /\ r.step[r.at] # "none"
          BY <2>3 DEF AtStep, StepStatuses
        <4> QED
          BY <2>3, <4>1, <4>2
      <3>3. next \in SagaOf(n) /\ InOrder(next)
        BY <2>2, <2>3, <2>4, <3>2 DEF SagaOf, InOrder, SagaStatuses
      <3> HIDE DEF next
      <3> QED
        BY <3>1, <3>3, SagaMoves
    <2> QED
      BY <2>1, <2>5, <2>6, <2>7, <2>8, <2>9, <2>10, <2>11 DEF Proceed
  <1> QED
    BY <1>1, <1>2

\* SagaOrchestrator.start: a 'completed' saga has completed every step, a
\* 'compensated' one has no step completed, and one whose start() raised stays
\* 'compensating' with its first steps completed and the next one failed, for
\* any number of sagas and of steps.
THEOREM SagasHold == SagaSpec => []StatusTellsSteps
  <1>1. SagaInit => SagaInv
    <2> SUFFICES ASSUME SagaInit PROVE SagaInv
      OBVIOUS
    <2>1. ASSUME NEW n \in 0..MaxSteps
          PROVE  NotStarted(n) \in SagaOf(n) /\ InOrder(NotStarted(n)) /\ n \in Nat
      BY <2>1, SagaAssumption DEF NotStarted, SagaOf, InOrder, SagaStatuses, StepStatuses
    <2>2. \A s \in Instances : \E n \in 0..MaxSteps : saga[s] = NotStarted(n)
      BY DEF SagaInit
    <2> QED
      BY <2>1, <2>2 DEF SagaInit, SagaInv
  <1>2. SagaInv => StatusTellsSteps
    <2> SUFFICES ASSUME SagaInv, NEW s \in Instances
                 PROVE  /\ saga[s].status = "completed" => Completed(s) = 1..saga[s].steps
                        /\ saga[s].status = "compensated" => Completed(s) = {}
                        /\ saga[s].call = "raised" =>
                              saga[s].status = "compensating" /\ \E i \in 2..saga[s].steps :
                                  Completed(s) = 1..(i - 1) /\ saga[s].step[i] = "failed"
      BY DEF StatusTellsSteps
    <2>1. PICK n \in Nat : saga[s] \in SagaOf(n)
      BY DEF SagaInv
    <2> DEFINE r == saga[s]
    <2>2. r.steps = n /\ r.at \in 0..n /\ r.back \in Int
      BY <2>1 DEF SagaOf
    <2>3. InOrder(r)
      BY DEF SagaInv
    <2>4. r.status = "completed" => Completed(s) = 1..r.steps
      BY <2>2, <2>3 DEF InOrder, Completed
    <2>5. r.status = "compensated" => Completed(s) = {}
      BY <2>2, <2>3 DEF InOrder, Completed
    <2>6. ASSUME r.call = "raised"
          PROVE  r.status = "compensating" /\ r.at \in 2..n
                 /\ Completed(s) = 1..(r.at - 1) /\ r.step[r.at] = "failed"
      <3>1. r.status = "compensating" /\ r.at > 0 /\ r.step[r.at] = "failed" /\ r.at - 1 > 0
        BY <2>2, <2>3, <2>6 DEF InOrder
      <3>2. r.at \in 2..n
        BY <2>2, <3>1
      <3>3. \A i \in 1..n : r.step[i] = "completed" <=> i < r.at
        BY <2>2, <2>3, <3>1 DEF InOrder
      <3>4. Completed(s) = 1..(r.at - 1)
        BY <2>2, <3>2, <3>3 DEF Completed
      <3> QED
        BY <3>1, <3>2, <3>4
    <2> QED
      BY <2>2, <2>4, <2>5, <2>6
  <1> QED
    BY <1>1, <1>2, SagaStep, PTL DEF SagaSpec

-----------------------------------------------------------------------------
(* The workflow engine *)

Task == [flow : Flows, node : Nat \ {0}, status : {"pending", "approved", "cancelled", "rejected"}]

FlowTypes ==
    /\ flow \in [Flows -> [status : {"none", "running", "completed", "rejected"}, node : Nat]]
    /\ \A f \in Flows : flow[f].status = "none" => flow[f] = NoInstance
    /\ flowTasks \in Seq(Task)
    /\ \A t \in DOMAIN flowTasks :
          /\ flowTasks[t].node <= LastNode(flowTasks[t].flow)
          /\ flow[flowTasks[t].flow].status # "none"

\* Node n of flow f has a task that let the flow pass.
Passed(f, n) ==
    \E t \in DOMAIN flowTasks :
        flowTasks[t].flow = f /\ flowTasks[t].node = n /\ flowTasks[t].status \in Onward

\* A task was opened because every node before its own had been passed, also
\* when the flow has gone back and forth since.
PassedBefore ==
    \A t \in DOMAIN flowTasks : \A n \in 1..(flowTasks[t].node - 1) : Passed(flowTasks[t].flow, n)

SingleAssignees(f) == \A n \in 1..LastNode(f) : Len(NodesOf[f][n]) = 1

\* A flow whose nodes have one assignee each has no open task but the one of
\* the node it is at.
OneOpen ==
    \A t \in DOMAIN flowTasks :
        Pending(t) /\ SingleAssignees(flowTasks[t].flow) =>
            /\ flow[flowTasks[t].flow].status = "running"
            /\ \A u \in DOMAIN flowTasks :
                  Pending(u) /\ flowTasks[u].flow = flowTasks[t].flow => u = t

FlowInv == FlowTypes /\ FlowsGoOn /\ PassedBefore /\ OneOpen

\* The tasks a node opens: at least one, all alike, one of a single assignee.
LEMMA OpenedTasks ==
    ASSUME NEW f \in Flows, NEW n \in 1..LastNode(f)
    PROVE  /\ Opened(f, n) \in Seq(Task) /\ Len(Opened(f, n)) \in Nat \ {0}
           /\ \A i \in 1..Len(Opened(f, n)) :
                 Opened(f, n)[i] = [flow |-> f, node |-> n, status |-> "pending"]
           /\ SingleAssignees(f) => Len(Opened(f, n)) = 1
  <1>1. NodesOf[f] \in Seq(Seq(STRING)) /\ n \in 1..Len(NodesOf[f])
    BY WorkflowAssumption DEF LastNode
  <1>2. NodesOf[f][n] \in Seq(STRING)
    BY <1>1
  <1>3. Len(NodesOf[f][n]) \in Nat \ {0} /\ DOMAIN NodesOf[f][n] = 1..Len(NodesOf[f][n])
    <2>1. Len(NodesOf[f][n]) > 0
      BY <1>1, WorkflowAssumption
    <2> QED
      BY <1>2, <2>1
  <1>4. [flow |-> f, node |-> n, status |-> "pending"] \in Task
    BY <1>1 DEF Task
  <1>5. Opened(f, n) = [i \in 1..Len(NodesOf[f][n]) |-> [flow |-> f, node |-> n, status |-> "pending"]]
    BY <1>3 DEF Opened
  <1>6. Opened(f, n) \in Seq(Task) /\ Len(Opened(f, n)) = Len(NodesOf[f][n])
    BY <1>3, <1>4, <1>5
  <1>7. SingleAssignees(f) => Len(NodesOf[f][n]) = 1
    BY DEF SingleAssignees
  <1> QED
    BY <1>3, <1>5, <1>6, <1>7

\* A step adds to tasks those of node n of flow f, and keeps them.
Extends(tasks, f, n) ==
    /\ flowTasks' \in Seq(Task)
    /\ \A t \in DOMAIN tasks : t \in DOMAIN flowTasks' /\ flowTasks'[t] = tasks[t]
    /\ \A t \in DOMAIN flowTasks' \ DOMAIN tasks :
          flowTasks'[t] = [flow |-> f, node |-> n, status |-> "pending"]
    /\ Len(tasks) + 1 \in DOMAIN flowTasks' \ DOMAIN tasks
    /\ SingleAssignees(f) => DOMAIN flowTasks' \ DOMAIN tasks = {Len(tasks) + 1}

LEMMA TasksAfter ==
    ASSUME NEW tasks \in Seq(Task), NEW f \in Flows, NEW n \in 1..LastNode(f),
           flowTasks' = tasks \o Opened(f, n)
    PROVE  Extends(tasks, f, n)
  <1> DEFINE opened == Opened(f, n)
  <1>1. /\ opened \in Seq(Task) /\ Len(opened) \in Nat \ {0}
        /\ \A i \in 1..Len(opened) : opened[i] = [flow |-> f, node |-> n, status |-> "pending"]
        /\ SingleAssignees(f) => Len(opened) = 1
    BY OpenedTasks
  <1> HIDE DEF opened
  <1>2. flowTasks' = tasks \o opened
    BY DEF opened
  <1>3. /\ flowTasks' \in Seq(Task) /\ Len(flowTasks') = Len(tasks) + Len(opened)
        /\ \A i \in 1..Len(tasks) + Len(opened) :
              flowTasks'[i] = IF i <= Len(tasks) THEN tasks[i] ELSE opened[i - Len(tasks)]
    BY <1>1, <1>2, ConcatProperties
  <1>4. Len(tasks) \in Nat /\ DOMAIN tasks = 1..Len(tasks) /\ DOMAIN flowTasks' = 1..Len(tasks) + Len(opened)
    BY <1>3, LenProperties
  <1>5. \A t \in DOMAIN flowTasks' \ DOMAIN tasks : t - Len(tasks) \in 1..Len(opened) /\ ~(t <= Len(tasks))
    BY <1>1, <1>4
  <1>6. Len(tasks) + 1 \in DOMAIN flowTasks' \ DOMAIN tasks
    BY <1>1, <1>4
  <1>7. SingleAssignees(f) => DOMAIN flowTasks' \ DOMAIN tasks = {Len(tasks) + 1}
    BY <1>1, <1>4
  <1> QED
    BY <1>1, <1>3, <1>4, <1>5, <1>6, <1>7 DEF opened, Extends

LEMMA DecidedTasks ==
    ASSUME FlowTypes, NEW t \in DOMAIN flowTasks, NEW action \in {"approved", "cancelled", "rejected"}
    PROVE  /\ Decided(t, action) \in Seq(Task) /\ DOMAIN Decided(t, action) = DOMAIN flowTasks
           /\ \A u \in DOMAIN flowTasks : u # t => Decided(t, action)[u] = flowTasks[u]
           /\ Decided(t, action)[t].flow = flowTasks[t].flow
           /\ Decided(t, action)[t].node = flowTasks[t].node
           /\ Decided(t, action)[t].status = action
  <1> DEFINE next == [flowTasks[t] EXCEPT !.status = action]
  <1>1. flowTasks \in Seq(Task) /\ t \in 1..Len(flowTasks) /\ DOMAIN flowTasks = 1..Len(flowTasks)
    BY DEF FlowTypes
  <1>2. flowTasks[t] \in Task
    BY <1>1
  <1>3. next \in Task /\ next.flow = flowTasks[t].flow /\ next.node = flowTasks[t].node
        /\ next.status = action
    BY <1>2 DEF Task
  <1> HIDE DEF next
  <1>4. Decided(t, action) = [flowTasks EXCEPT ![t] = next]
    BY DEF Decided, next
  <1>5. /\ Decided(t, action) \in Seq(Task) /\ Len(Decided(t, action)) = Len(flowTasks)
        /\ \A u \in 1..Len(flowTasks) : Decided(t, action)[u] = IF u = t THEN next ELSE flowTasks[u]
    BY <1>1, <1>3, <1>4, ExceptSeq
  <1>6. DOMAIN Decided(t, action) = 1..Len(flowTasks)
    BY <1>5
  <1> QED
    BY <1>1, <1>3, <1>5, <1>6

\* A step keeps every task, and the decision of every decided one.
Kept ==
    \A u \in DOMAIN flowTasks :
        /\ u \in DOMAIN flowTasks'
        /\ flowTasks'[u].flow = flowTasks[u].flow /\ flowTasks'[u].node = flowTasks[u].node
        /\ ~Pending(u) => flowTasks'[u].status = flowTasks[u].status

LEMMA PassedStays ==
    ASSUME Kept, NEW f \in Flows, NEW n \in Nat, Passed(f, n)
    PROVE  Passed(f, n)'
  <1>1. PICK t \in DOMAIN flowTasks :
           flowTasks[t].flow = f /\ flowTasks[t].node = n /\ flowTasks[t].status \in Onward
    BY DEF Passed
  <1>2. ~Pending(t)
    BY <1>1 DEF Pending, Onward
  <1>3. /\ t \in DOMAIN flowTasks' /\ flowTasks'[t].flow = f /\ flowTasks'[t].node = n
        /\ flowTasks'[t].status \in Onward
    BY <1>1, <1>2 DEF Kept
  <1> QED
    BY <1>3 DEF Passed

LEMMA FlowInitially == WorkflowInit => FlowInv
  <1> SUFFICES ASSUME WorkflowInit PROVE FlowInv
    OBVIOUS
  <1>1. flowTasks = <<>> /\ DOMAIN flowTasks = {} /\ flowTasks \in Seq(Task)
    BY DEF WorkflowInit
  <1>2. \A f \in Flows : flow[f] = NoInstance
    BY DEF WorkflowInit
  <1>3. FlowTypes
    BY <1>1, <1>2 DEF FlowTypes, NoInstance, WorkflowInit
  <1> QED
    BY <1>1, <1>2, <1>3 DEF FlowInv, FlowsGoOn, PassedBefore, OneOpen, NoInstance

\* Flow f starts, and the tasks of its first node are the first it has.
LEMMA StartStep ==
    ASSUME FlowInv, NEW f \in Flows, StartInstance(f)
    PROVE  FlowInv'
  <1>1. flow[f] = NoInstance /\ flow[f].status = "none" /\ 1 \in 1..LastNode(f)
    BY WorkflowAssumption DEF StartInstance, NoInstance, LastNode
  <1>2. \A t \in DOMAIN flowTasks : flowTasks[t].flow # f
    BY <1>1 DEF FlowInv, FlowTypes
  <1>3. /\ flow' \in [Flows -> [status : {"none", "running", "completed", "rejected"}, node : Nat]]
        /\ flow'[f] = [status |-> "running", node |-> 1]
        /\ \A g \in Flows \ {f} : flow'[g] = flow[g]
    BY DEF StartInstance, FlowInv, FlowTypes
  <1>4. flowTasks \in Seq(Task) /\ flowTasks' = flowTasks \o Opened(f, 1)
    BY DEF StartInstance, FlowInv, FlowTypes
  <1>5. /\ flowTasks' \in Seq(Task)
        /\ \A t \in DOMAIN flowTasks : t \in DOMAIN flowTasks' /\ flowTasks'[t] = flowTasks[t]
        /\ \A t \in DOMAIN flowTasks' \ DOMAIN flowTasks :
              flowTasks'[t] = [flow |-> f, node |-> 1, status |-> "pending"]
        /\ Len(flowTasks) + 1 \in DOMAIN flowTasks' \ DOMAIN flowTasks
        /\ SingleAssignees(f) => DOMAIN flowTasks' \ DOMAIN flowTasks = {Len(flowTasks) + 1}
    <2>1. PICK tasks \in Seq(Task) : tasks = flowTasks
      BY <1>4
    <2>2. PICK first \in 1..LastNode(f) : first = 1
      BY <1>1
    <2>3. flowTasks' = tasks \o Opened(f, first)
      BY <1>4, <2>1, <2>2
    <2>4. Extends(tasks, f, first)
      BY <2>3, TasksAfter, Zenon
    <2> QED
      BY <2>1, <2>2, <2>4 DEF Extends
  <1>6. \A t \in DOMAIN flowTasks : flowTasks[t] \in Task
    BY <1>4
  <1>7. FlowTypes'
    <2>1. \A g \in Flows : flow'[g].status = "none" => flow'[g] = NoInstance
      BY <1>3 DEF FlowInv, FlowTypes
    <2>2. \A t \in DOMAIN flowTasks :
             /\ flowTasks[t].flow \in Flows \ {f} /\ flowTasks[t].node <= LastNode(flowTasks[t].flow)
             /\ flow[flowTasks[t].flow].status # "none"
      BY <1>2, <1>6 DEF FlowInv, FlowTypes, Task
    <2>3. \A t \in DOMAIN flowTasks' : /\ flowTasks'[t].node <= LastNode(flowTasks'[t].flow)
                                       /\ flow'[flowTasks'[t].flow].status # "none"
      <3> SUFFICES ASSUME NEW t \in DOMAIN flowTasks'
                   PROVE  /\ flowTasks'[t].node <= LastNode(flowTasks'[t].flow)
                          /\ flow'[flowTasks'[t].flow].status # "none"
        OBVIOUS
      <3>1. CASE t \in DOMAIN flowTasks
        BY <1>3, <1>5, <2>2, <3>1
      <3>2. CASE t \notin DOMAIN flowTasks
        <4>1. flowTasks'[t].flow = f /\ flowTasks'[t].node = 1
          BY <1>5, <3>2
        <4>2. 1 <= LastNode(f)
          BY <1>1
        <4> QED
          BY <1>3, <4>1, <4>2
      <3> QED
        BY <3>1, <3>2
    <2> QED
      BY <1>3, <1>5, <2>1, <2>3 DEF FlowTypes, LastNode
  <1>8. \A g \in Flows : \A n \in Nat : Passed(g, n) => Passed(g, n)'
    BY <1>5, PassedStays DEF Kept
  <1>9. FlowsGoOn'
    <2> SUFFICES ASSUME NEW g \in Flows
                 PROVE  /\ flow'[g].status = "running" =>
                              \E t \in DOMAIN flowTasks' : Pending(t)' /\ flowTasks'[t].flow = g
                                                           /\ flowTasks'[t].node = flow'[g].node
                        /\ flow'[g].status = "completed" => \A n \in 1..LastNode(g) : Passed(g, n)'
      BY DEF FlowsGoOn, Passed
    <2>1. CASE g = f
      BY <1>3, <1>5, <2>1 DEF Pending
    <2>2. CASE g # f
      <3>1. flow'[g] = flow[g]
        BY <1>3, <2>2
      <3>2. flow[g].status = "running" =>
               \E t \in DOMAIN flowTasks : Pending(t) /\ flowTasks[t].flow = g
                                           /\ flowTasks[t].node = flow[g].node
        BY DEF FlowInv, FlowsGoOn
      <3>3. flow[g].status = "completed" => \A n \in 1..LastNode(g) : Passed(g, n)
        BY DEF FlowInv, FlowsGoOn, Passed
      <3>4. flow[g].status = "completed" => \A n \in 1..LastNode(g) : Passed(g, n)'
        BY <1>8, <3>3
      <3> QED
        BY <1>5, <3>1, <3>2, <3>4 DEF Pending
    <2> QED
      BY <2>1, <2>2
  <1>10. PassedBefore'
    <2> SUFFICES ASSUME NEW t \in DOMAIN flowTasks', NEW g, g = flowTasks'[t].flow,
                        NEW n \in 1..(flowTasks'[t].node - 1)
                 PROVE  Passed(g, n)'
      BY DEF PassedBefore, Passed
    <2>1. t \in DOMAIN flowTasks
      BY <1>5
    <2>2. g = flowTasks[t].flow /\ g \in Flows /\ n \in 1..(flowTasks[t].node - 1) /\ n \in Nat
      BY <1>5, <1>6, <2>1 DEF Task
    <2>3. Passed(g, n)
      BY <2>1, <2>2 DEF FlowInv, PassedBefore
    <2> QED
      BY <1>8, <2>2, <2>3
  <1>11. OneOpen'
    <2> SUFFICES ASSUME NEW t \in DOMAIN flowTasks', Pending(t)', SingleAssignees(flowTasks'[t].flow)
                 PROVE  /\ flow'[flowTasks'[t].flow].status = "running"
                        /\ \A u \in DOMAIN flowTasks' :
                              Pending(u)' /\ flowTasks'[u].flow = flowTasks'[t].flow => u = t
      BY DEF OneOpen, SingleAssignees, LastNode
    <2>1. CASE t \in DOMAIN flowTasks
      <3>1. flowTasks'[t] = flowTasks[t] /\ flowTasks[t].flow \in Flows \ {f}
        BY <1>2, <1>5, <1>6, <2>1 DEF Task
      <3>2. Pending(t) /\ SingleAssignees(flowTasks[t].flow)
        BY <3>1 DEF Pending
      <3>3. /\ flow[flowTasks[t].flow].status = "running"
            /\ \A u \in DOMAIN flowTasks : Pending(u) /\ flowTasks[u].flow = flowTasks[t].flow => u = t
        BY <2>1, <3>2 DEF FlowInv, OneOpen
      <3>4. \A u \in DOMAIN flowTasks' \ DOMAIN flowTasks : flowTasks'[u].flow # flowTasks[t].flow
        BY <1>5, <3>1
      <3> QED
        BY <1>3, <1>5, <3>1, <3>3, <3>4 DEF Pending
    <2>2. CASE t \notin DOMAIN flowTasks
      BY <1>2, <1>3, <1>5, <2>2
    <2> QED
      BY <2>1, <2>2
  <1> QED
    BY <1>7, <1>9, <1>10, <1>11 DEF FlowInv

\* Task t is decided and the tasks of the next node are opened.
LEMMA AdvanceStep ==
    ASSUME FlowInv, NEW t \in DOMAIN flowTasks, NEW action \in Onward, AdvanceTask(t, action)
    PROVE  FlowInv'
  <1>1. PICK f \in Flows : f = flowTasks[t].flow
    <2>1. flowTasks[t] \in Task
      BY DEF FlowInv, FlowTypes
    <2> QED
      BY <2>1 DEF Task
  <1>2. PICK next \in 1..LastNode(f) : next = flowTasks[t].node + 1
    <2>1. flowTasks[t] \in Task /\ NodesOf[f] \in Seq(Seq(STRING))
      BY WorkflowAssumption DEF FlowInv, FlowTypes
    <2>2. LastNode(f) \in Nat /\ flowTasks[t].node + 1 <= LastNode(f) /\ flowTasks[t].node \in Nat
      BY <1>1, <2>1 DEF AdvanceTask, LastNode, Task
    <2> QED
      BY <2>2
  <1>3. \A u \in DOMAIN flowTasks : flowTasks[u] \in Task
    BY DEF FlowInv, FlowTypes
  <1>4. PICK tasks \in Seq(Task) : tasks = Decided(t, action)
    BY DecidedTasks DEF FlowInv, Onward
  <1>5. /\ DOMAIN tasks = DOMAIN flowTasks
        /\ \A u \in DOMAIN flowTasks : u # t => tasks[u] = flowTasks[u]
        /\ tasks[t].flow = f /\ tasks[t].node = flowTasks[t].node /\ tasks[t].status = action
    BY <1>1, <1>4, DecidedTasks DEF FlowInv, Onward
  <1>6. flowTasks' = tasks \o Opened(f, next) /\ flow' = [flow EXCEPT ![f].node = next]
    BY <1>1, <1>2, <1>4 DEF AdvanceTask
  <1>7. Extends(tasks, f, next)
    BY <1>6, TasksAfter, Zenon
  <1>8. /\ flowTasks' \in Seq(Task)
        /\ \A u \in DOMAIN flowTasks : u \in DOMAIN flowTasks' /\ flowTasks'[u] = tasks[u]
        /\ \A u \in DOMAIN flowTasks' \ DOMAIN flowTasks :
              flowTasks'[u] = [flow |-> f, node |-> next, status |-> "pending"]
        /\ Len(tasks) + 1 \in DOMAIN flowTasks' \ DOMAIN flowTasks
        /\ SingleAssignees(f) => DOMAIN flowTasks' \ DOMAIN flowTasks = {Len(tasks) + 1}
    BY <1>5, <1>7 DEF Extends
  <1>9. /\ flow' \in [Flows -> [status : {"none", "running", "completed", "rejected"}, node : Nat]]
        /\ flow'[f].status = flow[f].status /\ flow'[f].node = next
        /\ flow[f].status # "none"
        /\ \A g \in Flows \ {f} : flow'[g] = flow[g]
    <2>1. flow \in [Flows -> [status : {"none", "running", "completed", "rejected"}, node : Nat]]
      BY DEF FlowInv, FlowTypes
    <2>2. flow[f].status # "none"
      BY <1>1 DEF FlowInv, FlowTypes
    <2>3. next \in Nat
      BY WorkflowAssumption DEF LastNode
    <2> QED
      BY <1>6, <2>1, <2>2, <2>3
  <1>10. \A u \in DOMAIN flowTasks :
            flowTasks'[u].flow = flowTasks[u].flow /\ flowTasks'[u].node = flowTasks[u].node
    BY <1>1, <1>5, <1>8
  <1>11. \A g \in Flows : \A n \in Nat : Passed(g, n) => Passed(g, n)'
    <2>1. Pending(t)
      BY DEF AdvanceTask
    <2>2. Kept
      BY <1>5, <1>8, <1>10, <2>1 DEF Kept
    <2> QED
      BY <2>2, PassedStays
  <1>12. FlowTypes'
    <2>1. \A g \in Flows : flow'[g].status = "none" => flow'[g] = NoInstance
      BY <1>9 DEF FlowInv, FlowTypes
    <2>2. \A u \in DOMAIN flowTasks' : /\ flowTasks'[u].node <= LastNode(flowTasks'[u].flow)
                                       /\ flow'[flowTasks'[u].flow].status # "none"
      <3> SUFFICES ASSUME NEW u \in DOMAIN flowTasks'
                   PROVE  /\ flowTasks'[u].node <= LastNode(flowTasks'[u].flow)
                          /\ flow'[flowTasks'[u].flow].status # "none"
        OBVIOUS
      <3>1. CASE u \in DOMAIN flowTasks
        <4>1. flowTasks[u].flow \in Flows /\ flowTasks[u].node <= LastNode(flowTasks[u].flow)
              /\ flow[flowTasks[u].flow].status # "none"
          BY <1>3, <3>1 DEF FlowInv, FlowTypes, Task
        <4> QED
          BY <1>9, <1>10, <3>1, <4>1
      <3>2. CASE u \notin DOMAIN flowTasks
        <4>1. flowTasks'[u].flow = f /\ flowTasks'[u].node = next
          BY <1>8, <3>2
        <4>2. next <= LastNode(f)
          OBVIOUS
        <4> QED
          BY <1>9, <4>1, <4>2
      <3> QED
        BY <3>1, <3>2
    <2> QED
      BY <1>8, <1>9, <2>1, <2>2 DEF FlowTypes, LastNode
  <1>13. FlowsGoOn'
    <2> SUFFICES ASSUME NEW g \in Flows
                 PROVE  /\ flow'[g].status = "running" =>
                              \E u \in DOMAIN flowTasks' : Pending(u)' /\ flowTasks'[u].flow = g
                                                           /\ flowTasks'[u].node = flow'[g].node
                        /\ flow'[g].status = "completed" => \A n \in 1..LastNode(g) : Passed(g, n)'
      BY DEF FlowsGoOn, Passed
    <2>1. flow'[g].status = "completed" => \A n \in 1..LastNode(g) : Passed(g, n)'
      <3>1. flow'[g].status = flow[g].status
        BY <1>9
      <3>2. flow[g].status = "completed" => \A n \in 1..LastNode(g) : Passed(g, n)
        BY DEF FlowInv, FlowsGoOn, Passed
      <3> QED
        BY <1>11, <3>1, <3>2
    <2>2. CASE g = f
      BY <1>8, <1>9, <2>1, <2>2 DEF Pending
    <2>3. CASE g # f
      <3>1. flow'[g] = flow[g]
        BY <1>9, <2>3
      <3>2. flow[g].status = "running" =>
               \E u \in DOMAIN flowTasks : Pending(u) /\ flowTasks[u].flow = g
                                           /\ flowTasks[u].node = flow[g].node
        BY DEF FlowInv, FlowsGoOn
      <3> QED
        BY <1>1, <1>5, <1>8, <2>1, <2>3, <3>1, <3>2 DEF Pending
    <2> QED
      BY <2>2, <2>3
  <1>14. PassedBefore'
    <2> SUFFICES ASSUME NEW u \in DOMAIN flowTasks', NEW g, g = flowTasks'[u].flow,
                        NEW n \in 1..(flowTasks'[u].node - 1)
                 PROVE  Passed(g, n)'
      BY DEF PassedBefore, Passed
    <2>1. CASE u \in DOMAIN flowTasks
      <3>1. g = flowTasks[u].flow /\ g \in Flows /\ n \in 1..(flowTasks[u].node - 1) /\ n \in Nat
        BY <1>3, <1>10, <2>1 DEF Task
      <3>2. Passed(g, n)
        BY <2>1, <3>1 DEF FlowInv, PassedBefore
      <3> QED
        BY <1>11, <3>1, <3>2
    <2>2. CASE u \notin DOMAIN flowTasks
      <3>1. g = f /\ flowTasks'[u].node = next
        BY <1>8, <2>2
      <3>2. n \in Nat /\ (n = flowTasks[t].node \/ n \in 1..(flowTasks[t].node - 1))
        <4>1. flowTasks[t].node \in Nat /\ n \in 1..(next - 1)
          BY <1>3, <3>1 DEF Task
        <4> QED
          BY <1>2, <4>1
      <3>3. CASE n = flowTasks[t].node
        <4>1. t \in DOMAIN flowTasks' /\ flowTasks'[t].flow = g /\ flowTasks'[t].node = n
              /\ flowTasks'[t].status \in Onward
          BY <1>5, <1>8, <3>1, <3>3
        <4> QED
          BY <4>1 DEF Passed
      <3>4. CASE n \in 1..(flowTasks[t].node - 1)
        <4>1. Passed(f, n)
          BY <1>1, <3>4 DEF FlowInv, PassedBefore
        <4> QED
          BY <1>11, <3>1, <3>2, <4>1
      <3> QED
        BY <3>2, <3>3, <3>4
    <2> QED
      BY <2>1, <2>2
  <1>15. OneOpen'
    <2> SUFFICES ASSUME NEW u \in DOMAIN flowTasks', Pending(u)', SingleAssignees(flowTasks'[u].flow)
                 PROVE  /\ flow'[flowTasks'[u].flow].status = "running"
                        /\ \A v \in DOMAIN flowTasks' :
                              Pending(v)' /\ flowTasks'[v].flow = flowTasks'[u].flow => v = u
      BY DEF OneOpen, SingleAssignees, LastNode
    <2>1. SingleAssignees(f) =>
             /\ flow[f].status = "running"
             /\ \A v \in DOMAIN flowTasks : Pending(v) /\ flowTasks[v].flow = f => v = t
      BY <1>1 DEF FlowInv, OneOpen, AdvanceTask
    <2>2. \A v \in DOMAIN flowTasks :
             Pending(v)' => Pending(v) /\ v # t /\ flowTasks'[v] = flowTasks[v]
      BY <1>5, <1>8 DEF Pending, Onward
    <2>3. CASE u \in DOMAIN flowTasks
      <3>1. Pending(u) /\ u # t /\ flowTasks'[u] = flowTasks[u] /\ flowTasks[u].flow \in Flows
        BY <1>3, <2>2, <2>3 DEF Task
      <3>2. flowTasks[u].flow # f
        BY <2>1, <2>3, <3>1
      <3>3. /\ flow[flowTasks[u].flow].status = "running"
            /\ \A v \in DOMAIN flowTasks : Pending(v) /\ flowTasks[v].flow = flowTasks[u].flow => v = u
        BY <2>3, <3>1 DEF FlowInv, OneOpen
      <3> QED
        BY <1>8, <1>9, <2>2, <3>1, <3>2, <3>3
    <2>4. CASE u \notin DOMAIN flowTasks
      <3>1. flowTasks'[u].flow = f
        BY <1>8, <2>4
      <3>2. \A v \in DOMAIN flowTasks : ~(Pending(v)' /\ flowTasks'[v].flow = f)
        BY <2>1, <2>2, <3>1
      <3> QED
        BY <1>8, <1>9, <2>1, <2>4, <3>1, <3>2
    <2> QED
      BY <2>3, <2>4
  <1> QED
    BY <1>12, <1>13, <1>14, <1>15 DEF FlowInv

\* Task t is decided and its flow ends.
LEMMA EndStep ==
    ASSUME FlowInv, NEW t \in DOMAIN flowTasks, Pending(t), NEW action, NEW end,
           \/ action = "rejected" /\ end = "rejected"
           \/ action \in Onward /\ end = "completed" /\ flowTasks[t].node = LastNode(flowTasks[t].flow),
           flow' = [flow EXCEPT ![flowTasks[t].flow].status = end],
           flowTasks' = Decided(t, action)
    PROVE  FlowInv'
  <1>1. PICK f \in Flows : f = flowTasks[t].flow
    <2>1. flowTasks[t] \in Task
      BY DEF FlowInv, FlowTypes
    <2> QED
      BY <2>1 DEF Task
  <1>2. \A u \in DOMAIN flowTasks : flowTasks[u] \in Task
    BY DEF FlowInv, FlowTypes
  <1>3. action \in {"approved", "cancelled", "rejected"} /\ end \in {"completed", "rejected"}
    BY DEF Onward
  <1>4. /\ flowTasks' \in Seq(Task) /\ DOMAIN flowTasks' = DOMAIN flowTasks
        /\ \A u \in DOMAIN flowTasks : u # t => flowTasks'[u] = flowTasks[u]
        /\ flowTasks'[t].flow = f /\ flowTasks'[t].node = flowTasks[t].node
        /\ flowTasks'[t].status = action
    BY <1>1, <1>3, DecidedTasks DEF FlowInv
  <1>5. /\ flow' \in [Flows -> [status : {"none", "running", "completed", "rejected"}, node : Nat]]
        /\ flow'[f].status = end
        /\ \A g \in Flows \ {f} : flow'[g] = flow[g]
    BY <1>1, <1>3 DEF FlowInv, FlowTypes
  <1>6. \A u \in DOMAIN flowTasks :
            flowTasks'[u].flow = flowTasks[u].flow /\ flowTasks'[u].node = flowTasks[u].node
    BY <1>1, <1>4
  <1>7. \A g \in Flows : \A n \in Nat : Passed(g, n) => Passed(g, n)'
    <2>1. Kept
      BY <1>4, <1>6 DEF Kept
    <2> QED
      BY <2>1, PassedStays
  <1>8. FlowTypes'
    <2>1. \A u \in DOMAIN flowTasks :
             flowTasks[u].flow \in Flows /\ flowTasks[u].node <= LastNode(flowTasks[u].flow)
             /\ flow[flowTasks[u].flow].status # "none"
      BY <1>2 DEF FlowInv, FlowTypes, Task
    <2>2. \A u \in DOMAIN flowTasks' : /\ flowTasks'[u].node <= LastNode(flowTasks'[u].flow)
                                       /\ flow'[flowTasks'[u].flow].status # "none"
      BY <1>3, <1>4, <1>5, <1>6, <2>1
    <2>3. \A g \in Flows : flow'[g].status = "none" => flow'[g] = NoInstance
      BY <1>3, <1>5 DEF FlowInv, FlowTypes
    <2> QED
      BY <1>4, <1>5, <2>2, <2>3 DEF FlowTypes, LastNode
  <1>9. PassedBefore'
    <2> SUFFICES ASSUME NEW u \in DOMAIN flowTasks', NEW g, g = flowTasks'[u].flow,
                        NEW n \in 1..(flowTasks'[u].node - 1)
                 PROVE  Passed(g, n)'
      BY DEF PassedBefore, Passed
    <2>1. /\ u \in DOMAIN flowTasks /\ g = flowTasks[u].flow /\ g \in Flows
          /\ n \in 1..(flowTasks[u].node - 1) /\ n \in Nat
      BY <1>2, <1>4, <1>6 DEF Task
    <2>2. Passed(g, n)
      BY <2>1 DEF FlowInv, PassedBefore
    <2> QED
      BY <1>7, <2>1, <2>2
  <1>10. FlowsGoOn'
    <2> SUFFICES ASSUME NEW g \in Flows
                 PROVE  /\ flow'[g].status = "running" =>
                              \E u \in DOMAIN flowTasks' : Pending(u)' /\ flowTasks'[u].flow = g
                                                           /\ flowTasks'[u].node = flow'[g].node
                        /\ flow'[g].status = "completed" => \A n \in 1..LastNode(g) : Passed(g, n)'
      BY DEF FlowsGoOn, Passed
    <2>1. CASE g = f
      <3> SUFFICES ASSUME end = "completed", NEW n \in 1..LastNode(f)
                   PROVE  Passed(f, n)'
        BY <1>3, <1>5, <2>1
      <3>1. action \in Onward /\ flowTasks[t].node = LastNode(f)
        BY <1>1
      <3>2. n \in Nat /\ (n = flowTasks[t].node \/ n \in 1..(flowTasks[t].node - 1))
        BY <1>2, <3>1 DEF Task
      <3>3. CASE n = flowTasks[t].node
        BY <1>4, <3>1, <3>3 DEF Passed
      <3>4. CASE n \in 1..(flowTasks[t].node - 1)
        <4>1. Passed(f, n)
          BY <1>1, <3>4 DEF FlowInv, PassedBefore
        <4> QED
          BY <1>7, <3>2, <4>1
      <3> QED
        BY <3>2, <3>3, <3>4
    <2>2. CASE g # f
      <3>1. flow'[g] = flow[g]
        BY <1>5, <2>2
      <3>2. flow[g].status = "running" =>
               \E u \in DOMAIN flowTasks : Pending(u) /\ flowTasks[u].flow = g
                                           /\ flowTasks[u].node = flow[g].node
        BY DEF FlowInv, FlowsGoOn
      <3>3. flow[g].status = "completed" => \A n \in 1..LastNode(g) : Passed(g, n)
        BY DEF FlowInv, FlowsGoOn, Passed
      <3>4. flow[g].status = "completed" => \A n \in 1..LastNode(g) : Passed(g, n)'
        BY <1>7, <3>3
      <3> QED
        BY <1>1, <1>4, <2>2, <3>1, <3>2, <3>4 DEF Pending
    <2> QED
      BY <2>1, <2>2
  <1>11. OneOpen'
    <2> SUFFICES ASSUME NEW u \in DOMAIN flowTasks', Pending(u)', SingleAssignees(flowTasks'[u].flow)
                 PROVE  /\ flow'[flowTasks'[u].flow].status = "running"
                        /\ \A v \in DOMAIN flowTasks' :
                              Pending(v)' /\ flowTasks'[v].flow = flowTasks'[u].flow => v = u
      BY DEF OneOpen, SingleAssignees, LastNode
    <2>1. \A v \in DOMAIN flowTasks :
             Pending(v)' => Pending(v) /\ v # t /\ flowTasks'[v] = flowTasks[v]
      BY <1>3, <1>4 DEF Pending
    <2>2. /\ u \in DOMAIN flowTasks /\ Pending(u) /\ u # t /\ flowTasks'[u] = flowTasks[u]
          /\ flowTasks[u].flow \in Flows
      BY <1>2, <1>4, <2>1 DEF Task
    <2>3. /\ flow[flowTasks[u].flow].status = "running"
          /\ \A v \in DOMAIN flowTasks : Pending(v) /\ flowTasks[v].flow = flowTasks[u].flow => v = u
      BY <2>2 DEF FlowInv, OneOpen
    <2>4. flowTasks[u].flow # f
      BY <1>1, <2>2, <2>3
    <2> QED
      BY <1>4, <1>5, <2>1, <2>2, <2>3, <2>4
  <1> QED
    BY <1>8, <1>9, <1>10, <1>11 DEF FlowInv

LEMMA FlowStep == FlowInv /\ [WorkflowNext]_workflowVars => FlowInv'
  <1> SUFFICES ASSUME FlowInv, [WorkflowNext]_workflowVars PROVE FlowInv'
    OBVIOUS
  <1>1. ASSUME NEW f \in Flows, StartInstance(f) PROVE FlowInv'
    BY <1>1, StartStep
  <1>2. ASSUME NEW t \in DOMAIN flowTasks, RejectTask(t) PROVE FlowInv'
    BY <1>2, EndStep DEF RejectTask
  <1>3. ASSUME NEW t \in DOMAIN flowTasks, NEW action \in Onward, AdvanceTask(t, action) PROVE FlowInv'
    BY <1>3, AdvanceStep
  <1>4. ASSUME NEW t \in DOMAIN flowTasks, NEW action \in Onward, FinishTask(t, action) PROVE FlowInv'
    BY <1>4, EndStep DEF FinishTask
  <1>5. CASE WorkflowRestart
    <2>1. WorkflowInit'
      BY <1>5 DEF WorkflowRestart, WorkflowInit
    <2> QED
      BY <2>1, FlowInitially, PTL
  <1>6. CASE UNCHANGED workflowVars
    BY <1>6 DEF workflowVars, FlowInv, FlowTypes, FlowsGoOn, PassedBefore, Passed, OneOpen, Pending,
                SingleAssignees, LastNode
  <1> QED
    BY <1>1, <1>2, <1>3, <1>4, <1>5, <1>6 DEF WorkflowNext

\* A running flow has an open task at its current node, and a completed one
\* had a task of every node approved or cancelled.
THEOREM FlowsHold == WorkflowInit /\ [][WorkflowNext]_workflowVars => []FlowsGoOn
  <1>1. FlowInv => FlowsGoOn
    BY DEF FlowInv
  <1> QED
    BY <1>1, FlowInitially, FlowStep, PTL

\* A flow that ended, each node having a single assignee, has no open task
\* left, so no step changes it but a restart.
LEMMA EndedStep ==
    ASSUME FlowInv, [WorkflowNext]_workflowVars, NEW f \in Flows,
           flow[f].status \in {"completed", "rejected"}, SingleAssignees(f)
    PROVE  flow'[f] \in {flow[f], NoInstance}
  <1>1. \A t \in DOMAIN flowTasks : Pending(t) => flowTasks[t].flow # f
    BY DEF FlowInv, OneOpen
  <1>2. flow \in [Flows -> [status : {"none", "running", "completed", "rejected"}, node : Nat]]
    BY DEF FlowInv, FlowTypes
  <1>3. ASSUME NEW g \in Flows, StartInstance(g) PROVE flow'[f] = flow[f]
    BY <1>2, <1>3 DEF StartInstance, NoInstance
  <1>4. ASSUME NEW t \in DOMAIN flowTasks, RejectTask(t) PROVE flow'[f] = flow[f]
    BY <1>1, <1>2, <1>4 DEF RejectTask
  <1>5. ASSUME NEW t \in DOMAIN flowTasks, NEW action \in Onward, AdvanceTask(t, action)
        PROVE  flow'[f] = flow[f]
    BY <1>1, <1>2, <1>5 DEF AdvanceTask
  <1>6. ASSUME NEW t \in DOMAIN flowTasks, NEW action \in Onward, FinishTask(t, action)
        PROVE  flow'[f] = flow[f]
    BY <1>1, <1>2, <1>6 DEF FinishTask
  <1>7. CASE WorkflowRestart
    BY <1>7 DEF WorkflowRestart
  <1>8. CASE UNCHANGED workflowVars
    BY <1>8 DEF workflowVars
  <1> QED
    BY <1>3, <1>4, <1>5, <1>6, <1>7, <1>8 DEF WorkflowNext

\* The outcome of a flow is final where every node has a single assignee.
THEOREM FlowOutcomesHold == WorkflowInit /\ [][WorkflowNext]_workflowVars => OutcomesStay
  <1>1. FlowInv /\ [WorkflowNext]_workflowVars =>
           [\A f \in Flows :
              /\ flow[f].status \in {"completed", "rejected"}
              /\ \A n \in 1..LastNode(f) : Len(NodesOf[f][n]) = 1
              => flow'[f] \in {flow[f], NoInstance}]_workflowVars
    BY EndedStep DEF SingleAssignees
  <1> QED
    BY <1>1, FlowInitially, FlowStep, PTL DEF OutcomesStay

-----------------------------------------------------------------------------
(* The event publisher *)

Handlers == STRING \cup {Wildcard}

Delivery == [type : EventTypes, by : {"publish", "replay"}, own : Seq(Handlers), at : Nat \ {0},
             called : Seq(Handlers), done : BOOLEAN]

EventTypesOK ==
    /\ handlers \in [EventTypes -> Seq(Handlers)]
    /\ delivery \in Seq(Delivery)
    /\ outbox \in Seq(EventTypes) /\ replaying \in Seq(EventTypes)

\* A list has the handlers subscribed to the type first, each at its place,
\* and nothing but wildcard handlers after them.
NamedFirst(list, t) ==
    \A i \in 1..Len(list) : list[i] = IF i <= Len(Named[t]) THEN Named[t][i] ELSE Wildcard

\* What a delivery has called is the beginning of its list, and all of the
\* subscribers' part of it once the delivery has ended.
InTurn(d) ==
    /\ Len(d.called) = d.at - 1
    /\ NamedFirst(d.called, d.type)
    /\ Registered(d.type) \/ NamedFirst(d.own, d.type)
    /\ d.done => d.at > Len(Named[d.type])

EventInv ==
    /\ EventTypesOK
    /\ \A t \in EventTypes : NamedFirst(handlers[t], t) /\ Len(handlers[t]) >= Len(Named[t])
    /\ \A n \in DOMAIN delivery : InTurn(delivery[n])

LEMMA NamedTypes ==
    ASSUME NEW t \in EventTypes
    PROVE  /\ Named[t] \in Seq(Handlers) /\ Len(Named[t]) \in Nat
           /\ \A i \in 1..Len(Named[t]) : Named[t][i] # Wildcard
           /\ Registered(t) <=> Len(Named[t]) # 0
  <1>1. Named[t] \in Seq(STRING \ {Wildcard})
    BY EventAssumption
  <1>2. Named[t] \in Seq(Handlers)
    BY <1>1 DEF Handlers
  <1>3. \A i \in 1..Len(Named[t]) : Named[t][i] # Wildcard
    <2>1. \A i \in 1..Len(Named[t]) : Named[t][i] \in STRING \ {Wildcard}
      BY <1>1
    <2> QED
      BY <2>1
  <1>4. Named[t] = <<>> <=> Len(Named[t]) = 0
    BY <1>1, EmptySeq
  <1> QED
    BY <1>2, <1>3, <1>4 DEF Registered

Started == handlers = Named /\ delivery = <<>> /\ outbox = <<>> /\ replaying = <<>>

LEMMA EventInitially == Started => EventInv
  <1> SUFFICES ASSUME Started PROVE EventInv
    OBVIOUS
  <1>1. \A t \in EventTypes : Named[t] \in Seq(Handlers) /\ Len(Named[t]) \in Nat
    BY NamedTypes
  <1>2. handlers \in [EventTypes -> Seq(Handlers)]
    BY <1>1, EventAssumption DEF Started
  <1>3. \A t \in EventTypes : NamedFirst(handlers[t], t) /\ Len(handlers[t]) >= Len(Named[t])
    BY <1>1 DEF NamedFirst, Started
  <1>4. DOMAIN delivery = {} /\ delivery \in Seq(Delivery)
    BY DEF Started
  <1> QED
    BY <1>2, <1>3, <1>4 DEF EventInv, EventTypesOK, Started

\* One more wildcard handler leaves the subscribers first.
LEMMA ExtendedList ==
    ASSUME NEW t \in EventTypes, EventInv
    PROVE  /\ Extended(t) \in Seq(Handlers) /\ NamedFirst(Extended(t), t)
           /\ Len(Extended(t)) >= Len(Named[t])
  <1>1. PICK list \in Seq(Handlers) : list = handlers[t]
    BY DEF EventInv, EventTypesOK
  <1>2. NamedFirst(list, t) /\ Len(list) >= Len(Named[t]) /\ Len(list) \in Nat /\ Len(Named[t]) \in Nat
    BY <1>1, NamedTypes DEF EventInv
  <1>3. PICK longer : longer = Append(list, Wildcard)
    OBVIOUS
  <1>4. /\ longer \in Seq(Handlers) /\ Len(longer) = Len(list) + 1
        /\ \A i \in 1..Len(list) : longer[i] = list[i]
        /\ longer[Len(list) + 1] = Wildcard
    BY <1>3, AppendProperties DEF Handlers
  <1>5. \A i \in 1..Len(longer) : i \in 1..Len(list) \/ (i = Len(list) + 1 /\ ~(i <= Len(Named[t])))
    BY <1>2, <1>4
  <1>6. NamedFirst(longer, t)
    BY <1>2, <1>4, <1>5 DEF NamedFirst
  <1> QED
    BY <1>1, <1>2, <1>3, <1>4, <1>6 DEF Extended

LEMMA DeliverStep ==
    ASSUME EventInv, NEW t \in EventTypes, NEW by \in {"publish", "replay"}, Deliver(t, by),
           outbox' \in Seq(EventTypes), replaying' \in Seq(EventTypes)
    PROVE  EventInv'
  <1> DEFINE own == IF Registered(t) THEN <<>> ELSE Extended(t)
             new == [type |-> t, by |-> by, own |-> own, at |-> 1, called |-> <<>>, done |-> FALSE]
  <1>1. Extended(t) \in Seq(Handlers) /\ NamedFirst(Extended(t), t) /\ Len(Extended(t)) >= Len(Named[t])
    BY ExtendedList
  <1>2. own \in Seq(Handlers) /\ (Registered(t) \/ NamedFirst(own, t))
    BY <1>1
  <1> HIDE DEF own
  <1>3. <<>> \in Seq(Handlers) /\ Len(<<>>) = 0 /\ NamedFirst(<<>>, t)
    BY DEF NamedFirst
  <1>4. new \in Delivery /\ InTurn(new)
    <2>1. new \in Delivery
      BY <1>2, <1>3 DEF Delivery
    <2>2. Len(new.called) = new.at - 1 /\ NamedFirst(new.called, new.type)
      BY <1>3
    <2> QED
      BY <1>2, <2>1, <2>2 DEF InTurn
  <1>5. delivery' = Append(delivery, new) /\ delivery \in Seq(Delivery)
    BY DEF Deliver, own, EventInv, EventTypesOK
  <1> HIDE DEF new
  <1>6. /\ delivery' \in Seq(Delivery) /\ DOMAIN delivery' = 1..Len(delivery) + 1
        /\ DOMAIN delivery = 1..Len(delivery) /\ Len(delivery) \in Nat
        /\ \A n \in 1..Len(delivery) : delivery'[n] = delivery[n]
        /\ delivery'[Len(delivery) + 1] = new
    BY <1>4, <1>5, AppendProperties
  <1>7. \A n \in DOMAIN delivery' : n \in DOMAIN delivery \/ n = Len(delivery) + 1
    BY <1>6
  <1>8. \A n \in DOMAIN delivery' : InTurn(delivery'[n])
    BY <1>4, <1>6, <1>7 DEF EventInv
  <1>9. /\ handlers' \in [EventTypes -> Seq(Handlers)]
        /\ \A u \in EventTypes : handlers'[u] = handlers[u] \/ (u = t /\ handlers'[u] = Extended(t))
    <2>1. handlers \in [EventTypes -> Seq(Handlers)]
      BY DEF EventInv, EventTypesOK
    <2>2. handlers' = handlers \/ handlers' = [handlers EXCEPT ![t] = Extended(t)]
      BY DEF Deliver
    <2>3. PICK longer \in Seq(Handlers) : longer = Extended(t)
      BY <1>1
    <2>4. handlers' = handlers \/ handlers' = [handlers EXCEPT ![t] = longer]
      BY <2>2, <2>3
    <2> QED
      BY <2>1, <2>3, <2>4
  <1>10. \A u \in EventTypes : NamedFirst(handlers'[u], u) /\ Len(handlers'[u]) >= Len(Named[u])
    BY <1>1, <1>9 DEF EventInv
  <1> QED
    BY <1>6, <1>8, <1>9, <1>10 DEF EventInv, EventTypesOK, InTurn, NamedFirst, Registered

\* The list of a delivery has the subscribers first, at its own length or more.
LEMMA ListFacts ==
    ASSUME EventInv, NEW n \in DOMAIN delivery
    PROVE  /\ delivery[n] \in Delivery /\ InTurn(delivery[n])
           /\ ListOf(delivery[n]) \in Seq(Handlers)
           /\ NamedFirst(ListOf(delivery[n]), delivery[n].type)
           /\ Len(ListOf(delivery[n])) >= Len(Named[delivery[n].type])
  <1>1. PICK d \in Delivery : d = delivery[n]
    BY DEF EventInv, EventTypesOK
  <1>2. InTurn(d)
    BY <1>1 DEF EventInv
  <1>3. d.type \in EventTypes /\ d.own \in Seq(Handlers)
    BY DEF Delivery
  <1>4. CASE Registered(d.type)
    <2>1. /\ handlers[d.type] \in Seq(Handlers) /\ NamedFirst(handlers[d.type], d.type)
          /\ Len(handlers[d.type]) >= Len(Named[d.type])
      BY <1>3 DEF EventInv, EventTypesOK
    <2> QED
      BY <1>1, <1>2, <1>4, <2>1 DEF ListOf
  <1>5. CASE ~Registered(d.type)
    <2>1. Len(d.own) \in Nat /\ Len(Named[d.type]) = 0 /\ NamedFirst(d.own, d.type)
      BY <1>2, <1>3, <1>5, NamedTypes DEF InTurn
    <2> QED
      BY <1>1, <1>2, <1>3, <1>5, <2>1 DEF ListOf
  <1> QED
    BY <1>4, <1>5

\* A step that changes delivery n alone, and keeps it in turn.
LEMMA OneDelivery ==
    ASSUME EventInv, NEW n \in DOMAIN delivery, NEW d \in Delivery, InTurn(d),
           delivery' = [delivery EXCEPT ![n] = d], UNCHANGED <<handlers, outbox, replaying>>
    PROVE  EventInv'
  <1>1. delivery \in Seq(Delivery) /\ n \in 1..Len(delivery) /\ DOMAIN delivery = 1..Len(delivery)
    BY DEF EventInv, EventTypesOK
  <1>2. /\ delivery' \in Seq(Delivery) /\ Len(delivery') = Len(delivery)
        /\ \A m \in 1..Len(delivery) : delivery'[m] = IF m = n THEN d ELSE delivery[m]
    BY <1>1, ExceptSeq
  <1>3. DOMAIN delivery' = DOMAIN delivery
    BY <1>1, <1>2
  <1>4. \A m \in DOMAIN delivery' : InTurn(delivery'[m])
    BY <1>1, <1>2, <1>3 DEF EventInv
  <1> QED
    BY <1>2, <1>4 DEF EventInv, EventTypesOK, InTurn, NamedFirst, Registered

LEMMA CallStep ==
    ASSUME EventInv, NEW n \in DOMAIN delivery, CallHandler(n)
    PROVE  EventInv'
  <1>1. PICK d \in Delivery : d = delivery[n]
    BY ListFacts
  <1>2. PICK list \in Seq(Handlers) : list = ListOf(d)
    BY <1>1, ListFacts
  <1>3. /\ InTurn(d) /\ NamedFirst(list, d.type) /\ Len(list) >= Len(Named[d.type])
        /\ d.type \in EventTypes /\ Len(Named[d.type]) \in Nat
        /\ d.at \in Nat \ {0} /\ d.called \in Seq(Handlers) /\ ~d.done /\ d.at <= Len(list)
    <2>1. InTurn(d) /\ NamedFirst(list, d.type) /\ Len(list) >= Len(Named[d.type])
      BY <1>1, <1>2, ListFacts
    <2>2. d.type \in EventTypes /\ d.at \in Nat \ {0} /\ d.called \in Seq(Handlers)
      BY DEF Delivery
    <2>3. ~d.done /\ d.at <= Len(list)
      BY <1>1, <1>2 DEF CallHandler
    <2> QED
      BY <2>1, <2>2, <2>3, NamedTypes
  <1>4. d.at \in 1..Len(list) /\ list[d.at] \in Handlers
    BY <1>3
  <1>5. PICK called : called = Append(d.called, list[d.at])
    OBVIOUS
  <1>6. /\ called \in Seq(Handlers) /\ Len(called) = Len(d.called) + 1
        /\ \A i \in 1..Len(d.called) : called[i] = d.called[i]
        /\ called[Len(d.called) + 1] = list[d.at]
    BY <1>3, <1>4, <1>5, AppendProperties
  <1>7. Len(d.called) = d.at - 1
    BY <1>3 DEF InTurn
  <1>8. \A i \in 1..Len(called) : i \in 1..Len(d.called) \/ i = d.at
    BY <1>3, <1>6, <1>7
  <1>9. called[d.at] = list[d.at] /\ Len(called) = d.at
    BY <1>3, <1>6, <1>7
  <1>10. NamedFirst(called, d.type)
    BY <1>3, <1>4, <1>6, <1>8, <1>9 DEF InTurn, NamedFirst
  <1>11. PICK e : e = [d EXCEPT !.at = d.at + 1, !.called = called]
    OBVIOUS
  <1>12. /\ e \in Delivery /\ e.type = d.type /\ e.at = d.at + 1 /\ e.called = called
         /\ e.own = d.own /\ e.done = d.done
    <2>1. d.at + 1 \in Nat \ {0}
      BY <1>3
    <2>2. PICK at \in Nat \ {0} : at = d.at + 1
      BY <2>1
    <2>3. e = [d EXCEPT !.at = at, !.called = called]
      BY <1>11, <2>2
    <2>4. e.at = at
      BY <2>3 DEF Delivery
    <2> QED
      BY <1>6, <2>2, <2>3, <2>4 DEF Delivery
  <1>13. InTurn(e)
    <2>1. Len(e.called) = e.at - 1
      BY <1>3, <1>9, <1>12
    <2> QED
      BY <1>3, <1>10, <1>12, <2>1 DEF InTurn
  <1>14. delivery' = [delivery EXCEPT ![n] = e] /\ UNCHANGED <<handlers, outbox, replaying>>
    BY <1>1, <1>2, <1>5, <1>11 DEF CallHandler, AfterCall, EventInv, EventTypesOK
  <1> QED
    BY <1>12, <1>13, <1>14, OneDelivery

LEMMA EndDeliveryStep ==
    ASSUME EventInv, NEW n \in DOMAIN delivery, EndDelivery(n)
    PROVE  EventInv'
  <1>1. PICK d \in Delivery : d = delivery[n]
    BY ListFacts
  <1>2. InTurn(d) /\ d.at > Len(Named[d.type])
    <2>1. d.at \in Nat /\ Len(ListOf(d)) \in Nat /\ Len(Named[d.type]) \in Nat
      BY <1>1, ListFacts, NamedTypes DEF Delivery
    <2>2. InTurn(d) /\ Len(ListOf(d)) >= Len(Named[d.type]) /\ d.at > Len(ListOf(d))
      BY <1>1, ListFacts DEF EndDelivery
    <2> QED
      BY <2>1, <2>2
  <1>3. PICK e : e = [d EXCEPT !.done = TRUE]
    OBVIOUS
  <1>4. /\ e \in Delivery /\ e.type = d.type /\ e.at = d.at /\ e.called = d.called /\ e.own = d.own
    BY <1>3 DEF Delivery
  <1>5. InTurn(e)
    BY <1>2, <1>4 DEF InTurn
  <1>6. delivery' = [delivery EXCEPT ![n] = e] /\ UNCHANGED <<handlers, outbox, replaying>>
    BY <1>1, <1>3 DEF EndDelivery
  <1> QED
    BY <1>4, <1>5, <1>6, OneDelivery

LEMMA EventStep == EventInv /\ [EventNext]_eventVars => EventInv'
  <1> SUFFICES ASSUME EventInv, [EventNext]_eventVars PROVE EventInv'
    OBVIOUS
  <1>1. outbox \in Seq(EventTypes) /\ replaying \in Seq(EventTypes)
    BY DEF EventInv, EventTypesOK
  <1>2. ASSUME NEW t \in EventTypes, Publish(t) PROVE EventInv'
    BY <1>1, <1>2, AppendProperties, DeliverStep DEF Publish
  <1>3. ASSUME NEW n \in DOMAIN delivery, CallHandler(n) PROVE EventInv'
    BY <1>3, CallStep
  <1>4. ASSUME NEW n \in DOMAIN delivery, EndDelivery(n) PROVE EventInv'
    BY <1>4, EndDeliveryStep
  <1>5. CASE ReplayEvents
    BY <1>5 DEF ReplayEvents, EventInv, EventTypesOK, InTurn, NamedFirst, Registered
  <1>6. CASE ReplayNext
    <2>1. Head(replaying) \in EventTypes /\ Tail(replaying) \in Seq(EventTypes)
      BY <1>1, <1>6, HeadTailProperties DEF ReplayNext
    <2> QED
      BY <1>1, <1>6, <2>1, DeliverStep DEF ReplayNext
  <1>7. CASE Restart
    <2>1. Started'
      BY <1>7 DEF Restart, Started
    <2> QED
      BY <2>1, EventInitially, PTL
  <1>8. CASE UNCHANGED eventVars
    BY <1>8 DEF eventVars, EventInv, EventTypesOK, InTurn, NamedFirst, Registered
  <1> QED
    BY <1>2, <1>3, <1>4, <1>5, <1>6, <1>7, <1>8 DEF EventNext

\* How often the registered list of a type has been extended; a type without
\* handlers of its own has none.
Extensions(t, last) == IF Registered(t) THEN Cardinality(DeliveriesOf(t, last)) ELSE 0

\* The list of delivery n is not overrun, and holds, when the delivery has
\* ended, a wildcard handler for every delivery of its type up to n.
Piled(n) ==
    /\ Registered(delivery[n].type) \/ Len(delivery[n].own) = 1
    /\ delivery[n].at <= Len(ListOf(delivery[n])) + 1
    /\ delivery[n].done =>
         /\ delivery[n].at > Len(Named[delivery[n].type]) + Extensions(delivery[n].type, n)
         /\ Registered(delivery[n].type) \/ delivery[n].at = 2

PileInv ==
    /\ \A t \in EventTypes : Len(handlers[t]) = Len(Named[t]) + Extensions(t, Len(delivery))
    /\ \A n \in DOMAIN delivery : Piled(n)

LEMMA ExtensionsCount ==
    ASSUME EventInv, NEW t, NEW last \in Nat
    PROVE  /\ IsFiniteSet(DeliveriesOf(t, last)) /\ Extensions(t, last) \in Nat
           /\ Cardinality(DeliveriesOf(t, last)) \in Nat
           /\ last <= Len(delivery) => Extensions(t, last) <= Extensions(t, Len(delivery))
  <1>1. DOMAIN delivery = 1..Len(delivery) /\ Len(delivery) \in Nat
    BY DEF EventInv, EventTypesOK
  <1>2. IsFiniteSet(1..Len(delivery))
    BY <1>1, FS_Interval
  <1>3. IsFiniteSet(DeliveriesOf(t, last)) /\ IsFiniteSet(DeliveriesOf(t, Len(delivery)))
    BY <1>1, <1>2, FS_Subset DEF DeliveriesOf
  <1>4. /\ Cardinality(DeliveriesOf(t, last)) \in Nat
        /\ Cardinality(DeliveriesOf(t, Len(delivery))) \in Nat
    BY <1>3, FS_CardinalityType
  <1>5. ASSUME last <= Len(delivery)
        PROVE  Cardinality(DeliveriesOf(t, last)) <= Cardinality(DeliveriesOf(t, Len(delivery)))
    <2>1. DeliveriesOf(t, last) \subseteq DeliveriesOf(t, Len(delivery))
      BY <1>1, <1>5 DEF DeliveriesOf
    <2> QED
      BY <1>3, <2>1, FS_Subset
  <1> QED
    BY <1>3, <1>4, <1>5 DEF Extensions

\* A step that starts no delivery leaves the counts as they are.
LEMMA SameExtensions ==
    ASSUME DOMAIN delivery' = DOMAIN delivery,
           \A m \in DOMAIN delivery : delivery'[m].type = delivery[m].type,
           NEW t, NEW last
    PROVE  Extensions(t, last)' = Extensions(t, last)
  <1>1. DeliveriesOf(t, last)' = DeliveriesOf(t, last)
    BY DEF DeliveriesOf
  <1> QED
    BY <1>1 DEF Extensions, Registered

LEMMA PileStarted == Started => PileInv
  <1> SUFFICES ASSUME Started PROVE PileInv
    OBVIOUS
  <1>1. DOMAIN delivery = {} /\ Len(delivery) = 0
    BY DEF Started
  <1>2. \A t \in EventTypes : Extensions(t, Len(delivery)) = 0
    <2> SUFFICES ASSUME NEW t \in EventTypes PROVE Extensions(t, 0) = 0
      BY <1>1
    <2>1. DeliveriesOf(t, 0) = {}
      BY <1>1 DEF DeliveriesOf
    <2> QED
      BY <2>1, FS_EmptySet DEF Extensions
  <1>3. \A t \in EventTypes : handlers[t] = Named[t] /\ Len(Named[t]) \in Nat
    BY NamedTypes DEF Started
  <1> QED
    BY <1>1, <1>2, <1>3 DEF PileInv

LEMMA PileDeliver ==
    ASSUME EventInv, PileInv, NEW t \in EventTypes, NEW by, Deliver(t, by)
    PROVE  PileInv'
  <1> DEFINE own == IF Registered(t) THEN <<>> ELSE Extended(t)
  <1>0. PICK last : last = Len(delivery)
    OBVIOUS
  <1>1. /\ delivery \in Seq(Delivery) /\ handlers \in [EventTypes -> Seq(Handlers)]
        /\ last \in Nat /\ DOMAIN delivery = 1..last
    BY <1>0 DEF EventInv, EventTypesOK
  <1>2. PICK new : new = [type |-> t, by |-> by, own |-> own, at |-> 1, called |-> <<>>, done |-> FALSE]
    OBVIOUS
  <1>3. /\ delivery' = Append(delivery, new)
        /\ new.type = t /\ new.own = own /\ new.at = 1 /\ new.done = FALSE
    BY <1>2 DEF Deliver
  <1>4. /\ Len(delivery') = last + 1 /\ DOMAIN delivery' = 1..last + 1
        /\ \A n \in 1..last : delivery'[n] = delivery[n]
        /\ delivery'[last + 1] = new
    BY <1>0, <1>1, <1>3
  <1>5. PICK list \in Seq(Handlers) : list = handlers[t]
    BY <1>1
  <1>6. /\ Extended(t) \in Seq(Handlers) /\ Len(Extended(t)) = Len(list) + 1 /\ Len(list) \in Nat
        /\ Len(list) = Len(Named[t]) + Extensions(t, last)
    <2>1. Wildcard \in Handlers
      BY DEF Handlers
    <2> QED
      BY <1>0, <1>5, <2>1, AppendProperties DEF Extended, PileInv
  <1>7. ASSUME ~Registered(t) PROVE Len(own) = 1
    <2>1. Len(Named[t]) = 0 /\ Extensions(t, last) = 0
      BY <1>7, NamedTypes DEF Extensions
    <2>2. Len(Extended(t)) = 1
      BY <1>6, <2>1
    <2> QED
      BY <1>7, <2>2 DEF own
  <1> HIDE DEF own
  <1>8. \A n \in 1..last : \A u : Extensions(u, n)' = Extensions(u, n)
    <2> SUFFICES ASSUME NEW n \in 1..last, NEW u PROVE Extensions(u, n)' = Extensions(u, n)
      OBVIOUS
    <2>1. DeliveriesOf(u, n)' = DeliveriesOf(u, n)
      BY <1>1, <1>4 DEF DeliveriesOf
    <2> QED
      BY <2>1 DEF Extensions, Registered
  <1>9. \A u \in EventTypes :
           Extensions(u, last + 1)' = Extensions(u, last) + (IF u = t /\ Registered(t) THEN 1 ELSE 0)
    <2> SUFFICES ASSUME NEW u \in EventTypes
                 PROVE  Extensions(u, last + 1)' =
                           Extensions(u, last) + (IF u = t /\ Registered(t) THEN 1 ELSE 0)
      OBVIOUS
    <2>1. DeliveriesOf(u, last + 1)' =
             IF u = t THEN DeliveriesOf(u, last) \cup {last + 1} ELSE DeliveriesOf(u, last)
      BY <1>1, <1>3, <1>4 DEF DeliveriesOf
    <2>2. last + 1 \notin DeliveriesOf(u, last)
      BY <1>1 DEF DeliveriesOf
    <2>3. IsFiniteSet(DeliveriesOf(u, last)) /\ Cardinality(DeliveriesOf(u, last)) \in Nat
      BY <1>1, ExtensionsCount
    <2>4. Cardinality(DeliveriesOf(u, last) \cup {last + 1}) = Cardinality(DeliveriesOf(u, last)) + 1
      BY <2>2, <2>3, FS_AddElement
    <2> QED
      BY <2>1, <2>3, <2>4 DEF Extensions, Registered
  <1>10. \A u \in EventTypes :
            Len(handlers'[u]) = Len(handlers[u]) + (IF u = t /\ Registered(t) THEN 1 ELSE 0)
    <2>1. PICK longer \in Seq(Handlers) : longer = Extended(t)
      BY <1>6
    <2>2. handlers' = IF Registered(t) THEN [handlers EXCEPT ![t] = longer] ELSE handlers
      BY <2>1 DEF Deliver
    <2>3. \A u \in EventTypes : Len(handlers[u]) \in Nat
      BY <1>1
    <2> QED
      BY <1>1, <1>5, <1>6, <2>1, <2>2, <2>3
  <1>11. \A u \in EventTypes : Len(handlers'[u]) = Len(Named[u]) + Extensions(u, Len(delivery))'
    <2> SUFFICES ASSUME NEW u \in EventTypes
                 PROVE  Len(handlers'[u]) = Len(Named[u]) + Extensions(u, Len(delivery))'
      OBVIOUS
    <2>0. Extensions(u, Len(delivery))' = Extensions(u, last + 1)'
      BY <1>4 DEF Extensions, DeliveriesOf, Registered
    <2>1. Len(Named[u]) \in Nat /\ Extensions(u, last) \in Nat
      BY <1>1, NamedTypes, ExtensionsCount
    <2>2. Len(handlers[u]) = Len(Named[u]) + Extensions(u, last)
      BY <1>0 DEF PileInv
    <2>3. Len(handlers'[u]) = Len(handlers[u]) + (IF u = t /\ Registered(t) THEN 1 ELSE 0)
      BY <1>10
    <2>4. Extensions(u, last + 1)' = Extensions(u, last) + (IF u = t /\ Registered(t) THEN 1 ELSE 0)
      BY <1>9
    <2> QED
      BY <2>0, <2>1, <2>2, <2>3, <2>4
  <1>12. ASSUME NEW n \in 1..last PROVE Piled(n)'
    <2>1. PICK d \in Delivery : d = delivery[n]
      BY <1>1
    <2>2. d.type \in EventTypes /\ d.at \in Nat
      BY DEF Delivery
    <2>3. Len(ListOf(d)) <= Len(ListOf(d)') /\ Len(ListOf(d)) \in Nat /\ Len(ListOf(d)') \in Nat
      <3>1. Len(handlers[d.type]) \in Nat
        BY <1>1, <2>2
      <3>2. Len(d.own) \in Nat
        BY DEF Delivery
      <3>3. /\ Len(handlers'[d.type]) \in Nat
            /\ Len(handlers[d.type]) <= Len(handlers'[d.type])
        <4>1. PICK more \in {0, 1} : more = IF d.type = t /\ Registered(t) THEN 1 ELSE 0
          OBVIOUS
        <4>2. Len(handlers'[d.type]) = Len(handlers[d.type]) + more
          BY <1>10, <2>2, <4>1
        <4> QED
          BY <3>1, <4>2
      <3> QED
        BY <3>1, <3>2, <3>3 DEF ListOf, Registered
    <2>4. d.at <= Len(ListOf(d)) + 1
      BY <1>1, <2>1 DEF PileInv, Piled
    <2>5. d.at <= Len(ListOf(d)') + 1
      BY <2>2, <2>3, <2>4
    <2>6. delivery'[n] = d
      BY <1>4, <2>1
    <2>7. ListOf(delivery[n])' = ListOf(d)'
      BY <2>6 DEF ListOf, Registered
    <2>8. Extensions(delivery[n].type, n)' = Extensions(d.type, n)
      BY <1>8, <2>6 DEF Extensions, Registered, DeliveriesOf
    <2> QED
      BY <1>1, <2>1, <2>5, <2>6, <2>7, <2>8 DEF PileInv, Piled, Registered
  <1>13. Piled(last + 1)'
    <2>1. Registered(new.type) \/ Len(new.own) = 1
      BY <1>3, <1>7
    <2>2. Len(ListOf(new)') \in Nat
      <3>1. Len(handlers'[t]) \in Nat
        BY <1>5, <1>6, <1>10
      <3> QED
        BY <1>3, <1>7, <3>1 DEF ListOf, Registered
    <2>3. ListOf(delivery[last + 1])' = ListOf(new)'
      BY <1>4 DEF ListOf, Registered
    <2>4. new.at <= Len(ListOf(new)') + 1
      BY <1>3, <2>2
    <2>5. delivery'[last + 1] = new
      BY <1>4
    <2> QED
      BY <1>3, <2>1, <2>3, <2>4, <2>5 DEF Piled, Registered
  <1>14. \A n \in DOMAIN delivery' : n \in 1..last \/ n = last + 1
    BY <1>1, <1>4
  <1> QED
    BY <1>11, <1>12, <1>13, <1>14 DEF PileInv

\* A step of delivery n that does not overrun its list.
LEMMA PileOneDelivery ==
    ASSUME EventInv, PileInv, NEW n \in DOMAIN delivery, NEW d \in Delivery,
           delivery' = [delivery EXCEPT ![n] = d], handlers' = handlers,
           d.type = delivery[n].type, d.own = delivery[n].own, d.at <= Len(ListOf(d)) + 1,
           d.done => /\ d.at > Len(Named[d.type]) + Extensions(d.type, n)
                     /\ Registered(d.type) \/ d.at = 2
    PROVE  PileInv'
  <1>1. /\ delivery \in Seq(Delivery) /\ n \in 1..Len(delivery) /\ DOMAIN delivery = 1..Len(delivery)
    BY DEF EventInv, EventTypesOK
  <1>2. /\ delivery' \in Seq(Delivery) /\ Len(delivery') = Len(delivery)
        /\ \A m \in 1..Len(delivery) : delivery'[m] = IF m = n THEN d ELSE delivery[m]
    BY <1>1, ExceptSeq
  <1>3. DOMAIN delivery' = DOMAIN delivery
    BY <1>1, <1>2
  <1>4. \A t, last : Extensions(t, last)' = Extensions(t, last)
    <2> SUFFICES ASSUME NEW t, NEW last PROVE Extensions(t, last)' = Extensions(t, last)
      OBVIOUS
    <2> QED
      BY <1>1, <1>2, <1>3, SameExtensions
  <1>5. \A e : ListOf(e)' = ListOf(e)
    BY DEF ListOf, Registered
  <1>6. ASSUME NEW m \in DOMAIN delivery PROVE Piled(m)'
    <2>1. Registered(d.type) \/ Len(d.own) = 1
      BY DEF PileInv, Piled
    <2>2. PICK e : e = delivery'[m]
      OBVIOUS
    <2>3. ListOf(delivery[m])' = ListOf(e) /\ Extensions(delivery[m].type, m)' = Extensions(e.type, m)
      <3>1. ListOf(delivery[m])' = ListOf(e)' /\ ListOf(e)' = ListOf(e)
        BY <2>2 DEF ListOf, Registered
      <3>2. Extensions(delivery[m].type, m)' = Extensions(e.type, m)'
        BY <2>2 DEF Extensions, DeliveriesOf, Registered
      <3>3. Extensions(e.type, m)' = Extensions(e.type, m)
        BY <1>4
      <3> QED
        BY <3>1, <3>2, <3>3
    <2>4. CASE m = n
      BY <1>1, <1>2, <2>1, <2>2, <2>3, <2>4 DEF Piled, Registered
    <2>5. CASE m # n
      BY <1>1, <1>2, <2>2, <2>3, <2>5 DEF PileInv, Piled, Registered
    <2> QED
      BY <2>4, <2>5
  <1>7. \A t \in EventTypes : Len(handlers'[t]) = Len(Named[t]) + Extensions(t, Len(delivery))'
    <2> SUFFICES ASSUME NEW t \in EventTypes
                 PROVE  Len(handlers[t]) = Len(Named[t]) + Extensions(t, Len(delivery))'
      OBVIOUS
    <2>0. PICK last : last = Len(delivery)
      OBVIOUS
    <2>1. Extensions(t, Len(delivery))' = Extensions(t, Len(delivery))
      <3>1. Extensions(t, Len(delivery))' = Extensions(t, last)'
        BY <1>2, <2>0 DEF Extensions, DeliveriesOf, Registered
      <3>2. Extensions(t, last)' = Extensions(t, last)
        BY <1>4
      <3> QED
        BY <2>0, <3>1, <3>2
    <2> QED
      BY <2>1 DEF PileInv
  <1> QED
    BY <1>3, <1>6, <1>7 DEF PileInv

LEMMA PileCall ==
    ASSUME EventInv, PileInv, NEW n \in DOMAIN delivery, CallHandler(n)
    PROVE  PileInv'
  <1>1. PICK d \in Delivery : d = delivery[n]
    BY ListFacts
  <1>2. PICK list \in Seq(Handlers) : list = ListOf(d)
    BY <1>1, ListFacts
  <1>3. PICK e : e = [d EXCEPT !.at = d.at + 1, !.called = Append(d.called, list[d.at])]
    OBVIOUS
  <1>4. ~d.done /\ d.at <= Len(list) /\ d.at \in Nat
    BY <1>1, <1>2 DEF CallHandler, Delivery
  <1>5. /\ e.type = d.type /\ e.own = d.own /\ e.at = d.at + 1 /\ e.done = d.done
    BY <1>3 DEF Delivery
  <1>6. e \in Delivery
    <2>1. d.at \in Nat \ {0} /\ d.called \in Seq(Handlers)
      BY DEF Delivery
    <2>2. list[d.at] \in Handlers
      BY <1>4, <2>1
    <2>3. PICK called : called = Append(d.called, list[d.at])
      OBVIOUS
    <2>4. called \in Seq(Handlers)
      BY <2>1, <2>2, <2>3
    <2>5. PICK at \in Nat \ {0} : at = d.at + 1
      BY <1>4
    <2>6. e = [d EXCEPT !.at = at, !.called = called]
      BY <1>3, <2>3, <2>5
    <2> QED
      BY <2>4, <2>5, <2>6 DEF Delivery
  <1>7. e.at <= Len(ListOf(e)) + 1
    <2>1. ListOf(e) = list
      BY <1>2, <1>5 DEF ListOf
    <2>2. Len(list) \in Nat
      BY <1>2
    <2> QED
      BY <1>4, <1>5, <2>1, <2>2
  <1>8. delivery' = [delivery EXCEPT ![n] = e] /\ handlers' = handlers
    BY <1>1, <1>2, <1>3 DEF CallHandler, AfterCall, EventInv, EventTypesOK
  <1> QED
    BY <1>1, <1>4, <1>5, <1>6, <1>7, <1>8, PileOneDelivery

LEMMA PileEnd ==
    ASSUME EventInv, PileInv, NEW n \in DOMAIN delivery, EndDelivery(n)
    PROVE  PileInv'
  <1>1. PICK d \in Delivery : d = delivery[n]
    BY ListFacts
  <1>2. PICK e : e = [d EXCEPT !.done = TRUE]
    OBVIOUS
  <1>3. /\ e \in Delivery /\ e.type = d.type /\ e.at = d.at /\ e.own = d.own
        /\ d.type \in EventTypes /\ d.at \in Nat
    BY <1>2 DEF Delivery
  <1>4. /\ Len(ListOf(d)) \in Nat /\ d.at > Len(ListOf(d)) /\ d.at <= Len(ListOf(d)) + 1
        /\ Registered(d.type) \/ Len(d.own) = 1
    BY <1>1, ListFacts DEF EndDelivery, PileInv, Piled
  <1>5. ListOf(e) = ListOf(d)
    BY <1>3 DEF ListOf
  <1>6. n \in 1..Len(delivery) /\ Len(delivery) \in Nat
    BY DEF EventInv, EventTypesOK
  <1>7. /\ Len(Named[d.type]) \in Nat /\ Extensions(d.type, n) \in Nat
        /\ Extensions(d.type, n) <= Extensions(d.type, Len(delivery))
        /\ Extensions(d.type, Len(delivery)) \in Nat
    BY <1>3, <1>6, NamedTypes, ExtensionsCount
  <1>8. CASE Registered(d.type)
    <2>1. Len(ListOf(d)) = Len(Named[d.type]) + Extensions(d.type, Len(delivery))
      BY <1>3, <1>8 DEF ListOf, PileInv
    <2>2. e.at > Len(Named[e.type]) + Extensions(e.type, n)
      BY <1>3, <1>4, <1>7, <2>1
    <2>3. delivery' = [delivery EXCEPT ![n] = e] /\ handlers' = handlers
      BY <1>1, <1>2 DEF EndDelivery
    <2> QED
      BY <1>1, <1>3, <1>4, <1>5, <1>8, <2>2, <2>3, PileOneDelivery
  <1>9. CASE ~Registered(d.type)
    <2>1. Len(ListOf(d)) = 1 /\ Len(Named[d.type]) = 0 /\ Extensions(d.type, n) = 0
      BY <1>3, <1>4, <1>9, NamedTypes DEF ListOf, Extensions
    <2>2. e.at > Len(Named[e.type]) + Extensions(e.type, n) /\ e.at = 2
      BY <1>3, <1>4, <1>7, <2>1
    <2>3. delivery' = [delivery EXCEPT ![n] = e] /\ handlers' = handlers
      BY <1>1, <1>2 DEF EndDelivery
    <2> QED
      BY <1>1, <1>3, <1>4, <1>5, <2>2, <2>3, PileOneDelivery
  <1> QED
    BY <1>8, <1>9

LEMMA PileStep == EventInv /\ PileInv /\ [EventNext]_eventVars => PileInv'
  <1> SUFFICES ASSUME EventInv, PileInv, [EventNext]_eventVars PROVE PileInv'
    OBVIOUS
  <1>1. outbox \in Seq(EventTypes) /\ replaying \in Seq(EventTypes)
    BY DEF EventInv, EventTypesOK
  <1>2. ASSUME NEW t \in EventTypes, Publish(t) PROVE PileInv'
    BY <1>2, PileDeliver DEF Publish
  <1>3. ASSUME NEW n \in DOMAIN delivery, CallHandler(n) PROVE PileInv'
    BY <1>3, PileCall
  <1>4. ASSUME NEW n \in DOMAIN delivery, EndDelivery(n) PROVE PileInv'
    BY <1>4, PileEnd
  <1>5. ASSUME UNCHANGED <<handlers, delivery>> PROVE PileInv'
    BY <1>5 DEF PileInv, Piled, Extensions, DeliveriesOf, ListOf, Registered
  <1>6. CASE ReplayNext
    <2>1. Head(replaying) \in EventTypes
      BY <1>1, <1>6, HeadTailProperties DEF ReplayNext
    <2> QED
      BY <1>6, <2>1, PileDeliver DEF ReplayNext
  <1>7. CASE Restart
    <2>1. Started'
      BY <1>7 DEF Restart, Started
    <2> QED
      BY <2>1, PileStarted, PTL
  <1> QED
    BY <1>2, <1>3, <1>4, <1>5, <1>6, <1>7 DEF EventNext, ReplayEvents, eventVars

\* The wildcard handler is called once for every place behind the subscribers.
LEMMA WildcardCalls ==
    ASSUME NEW d \in Delivery, InTurn(d), d.done
    PROVE  TimesCalled(d, Wildcard) = d.at - 1 - Len(Named[d.type])
  <1>1. d.type \in EventTypes /\ d.called \in Seq(Handlers) /\ d.at \in Nat \ {0}
    BY DEF Delivery
  <1>2. /\ Len(Named[d.type]) \in Nat
        /\ \A i \in 1..Len(Named[d.type]) : Named[d.type][i] # Wildcard
    BY <1>1, NamedTypes
  <1>3. /\ DOMAIN d.called = 1..Len(d.called) /\ Len(d.called) = d.at - 1
        /\ d.at > Len(Named[d.type])
    BY <1>1 DEF InTurn
  <1>4. {i \in DOMAIN d.called : d.called[i] = Wildcard} = Len(Named[d.type]) + 1..d.at - 1
    BY <1>1, <1>2, <1>3 DEF InTurn, NamedFirst
  <1>5. Cardinality(Len(Named[d.type]) + 1..d.at - 1) = d.at - 1 - Len(Named[d.type])
    <2>1. PICK a \in Int, b \in Int : a = Len(Named[d.type]) + 1 /\ b = d.at - 1 /\ a <= b + 1
      BY <1>1, <1>2, <1>3
    <2>2. Cardinality(a..b) = IF a > b THEN 0 ELSE b - a + 1
      BY FS_Interval
    <2>3. Cardinality(a..b) = b - a + 1
      BY <2>1, <2>2
    <2> QED
      BY <1>1, <1>2, <2>1, <2>3
  <1> QED
    BY <1>4, <1>5 DEF TimesCalled

LEMMA PilesUp == EventInv /\ PileInv => WildcardsPileUp
  <1> SUFFICES ASSUME EventInv, PileInv, NEW n \in DOMAIN delivery, delivery[n].done
               PROVE  IF Registered(delivery[n].type)
                      THEN TimesCalled(delivery[n], Wildcard) \in
                              Cardinality(DeliveriesOf(delivery[n].type, n))
                            ..Cardinality(DeliveriesOf(delivery[n].type, Len(delivery)))
                      ELSE TimesCalled(delivery[n], Wildcard) = 1
    BY DEF WildcardsPileUp
  <1>1. PICK d \in Delivery : d = delivery[n]
    BY ListFacts
  <1>2. TimesCalled(d, Wildcard) = d.at - 1 - Len(Named[d.type])
    BY <1>1, ListFacts, WildcardCalls
  <1>3. d.type \in EventTypes /\ d.at \in Nat /\ Len(Named[d.type]) \in Nat
    BY NamedTypes DEF Delivery
  <1>4. n \in Nat /\ Len(delivery) \in Nat
    BY DEF EventInv, EventTypesOK
  <1>5. CASE Registered(d.type)
    <2>1. /\ d.at > Len(Named[d.type]) + Extensions(d.type, n)
          /\ d.at <= Len(Named[d.type]) + Extensions(d.type, Len(delivery)) + 1
      BY <1>1, <1>3, <1>5 DEF PileInv, Piled, ListOf
    <2>2. /\ Extensions(d.type, n) = Cardinality(DeliveriesOf(d.type, n))
          /\ Extensions(d.type, Len(delivery)) = Cardinality(DeliveriesOf(d.type, Len(delivery)))
      BY <1>5 DEF Extensions
    <2>3. Extensions(d.type, n) \in Nat /\ Extensions(d.type, Len(delivery)) \in Nat
      BY <1>4, ExtensionsCount
    <2>4. d.at - 1 - Len(Named[d.type]) \in Extensions(d.type, n)..Extensions(d.type, Len(delivery))
      BY <1>3, <2>1, <2>3
    <2> QED
      BY <1>1, <1>2, <1>5, <2>2, <2>4
  <1>6. CASE ~Registered(d.type)
    <2>1. d.at = 2 /\ Len(Named[d.type]) = 0
      BY <1>1, <1>3, <1>6, NamedTypes DEF PileInv, Piled
    <2> QED
      BY <1>1, <1>2, <1>6, <2>1
  <1> QED
    BY <1>1, <1>5, <1>6

\* What is in turn has each subscriber at most once, at its own place.
LEMMA CalledAtMostOnce ==
    ASSUME NEW d \in Delivery, InTurn(d), NEW h \in ToSet(Named[d.type])
    PROVE  TimesCalled(d, h) <= 1 /\ (d.done => TimesCalled(d, h) = 1)
  <1>1. d.type \in EventTypes /\ d.called \in Seq(Handlers) /\ d.at \in Nat \ {0}
    BY DEF Delivery
  <1>2. /\ Named[d.type] \in Seq(Handlers) /\ Len(Named[d.type]) \in Nat
        /\ \A i \in 1..Len(Named[d.type]) : Named[d.type][i] # Wildcard
    BY <1>1, NamedTypes
  <1>3. PICK k \in 1..Len(Named[d.type]) : Named[d.type][k] = h
    BY <1>2 DEF ToSet
  <1>4. \A i \in 1..Len(Named[d.type]) : Named[d.type][i] = h => i = k
    BY <1>1, <1>2, <1>3, EventAssumption
  <1> DEFINE at == {i \in DOMAIN d.called : d.called[i] = h}
  <1>5. DOMAIN d.called = 1..Len(d.called) /\ Len(d.called) = d.at - 1
    BY <1>1 DEF InTurn
  <1>6. at \subseteq {k}
    BY <1>2, <1>3, <1>4, <1>5 DEF InTurn, NamedFirst
  <1>7. d.done => k \in at
    BY <1>1, <1>2, <1>3, <1>5 DEF InTurn, NamedFirst
  <1>8. at = {} \/ at = {k}
    BY <1>6
  <1>9. Cardinality({}) = 0 /\ Cardinality({k}) = 1
    BY FS_EmptySet, FS_Singleton
  <1> HIDE DEF at
  <1>10. Cardinality(at) <= 1 /\ (d.done => Cardinality(at) = 1)
    <2>1. CASE at = {}
      BY <1>7, <1>9, <2>1
    <2>2. CASE at = {k}
      BY <1>9, <2>2
    <2> QED
      BY <1>8, <2>1, <2>2
  <1> QED
    BY <1>10 DEF at, TimesCalled

\* A delivery calls each subscriber of its event's type at most once, and has
\* called all of them when it ends, though other deliveries extend its list;
\* the wildcard handler it calls once for every delivery of the type since the
\* start of the process, up to its own at least.
THEOREM EventsHold == EventSpec => [](NamedHandlersOnce /\ WildcardsPileUp)
  <1>1. EventInit => EventInv /\ PileInv
    BY EventInitially, PileStarted DEF EventInit, Started
  <1>2. EventInv => NamedHandlersOnce
    BY ListFacts, CalledAtMostOnce DEF NamedHandlersOnce
  <1> QED
    BY <1>1, <1>2, EventStep, PileStep, PilesUp, PTL DEF EventSpec

-----------------------------------------------------------------------------
(* The intake of what the PMS pushes.  KeyedOnce is not inductive: a       *)
(* session about to commit must be known to hold a key that nobody has,    *)
(* which is what the unique index guarantees from the INSERT on            *)
(* (HoldersAlone).                                                         *)

SessType == sess \in [Sessions -> [step : Steps, request : Request] \cup {Idle}]

\* A session between its INSERT of the key and its end is the only one with
\* that key, and no committed record has it.
HoldersAlone ==
    \A s \in Sessions : At(s, "commit") =>
        /\ records[sess[s].request.key] = Nil
        /\ \A t \in Sessions : (At(t, "commit") /\ sess[t].request.key = sess[s].request.key)
              => t = s

IntakeInv == TypeOK /\ KeyedOnce /\ HoldersAlone

\* What a busy session holds is well typed.
LEMMA BusyType ==
    ASSUME SessType, NEW s \in Sessions, sess[s].step \in Steps
    PROVE  /\ sess[s] \in [step : Steps, request : Request]
           /\ sess[s].request \in Request
           /\ sess[s].request.key \in Keys
           /\ sess[s].request.tenant \in Tenants
           /\ sess[s].request.n \in 1..MaxRequests
  <1>1. sess[s] # Idle
    BY DEF Idle, Steps
  <1>2. sess[s] \in [step : Steps, request : Request]
    BY <1>1 DEF SessType
  <1> QED
    BY <1>2 DEF Request

\* A step that moves session s on to `next`, or ends it, keeps the sessions
\* well typed and says what the others and s hold.
LEMMA GotoType ==
    ASSUME SessType, NEW s \in Sessions, sess[s].step \in Steps,
           NEW next \in Steps, Goto(s, next)
    PROVE  /\ SessType'
           /\ sess'[s].step = next /\ sess'[s].request = sess[s].request
           /\ \A t \in Sessions \ {s} : sess'[t] = sess[t]
  <1>1. sess[s] \in [step : Steps, request : Request]
    BY BusyType
  <1> DEFINE moved == [sess[s] EXCEPT !.step = next]
  <1>2. moved \in [step : Steps, request : Request]
    BY <1>1
  <1>3. moved.step = next /\ moved.request = sess[s].request
    BY <1>1
  <1>4. sess' = [sess EXCEPT ![s] = moved]
    BY DEF Goto
  <1> HIDE DEF moved
  <1> QED
    BY <1>2, <1>3, <1>4 DEF SessType

LEMMA EndType ==
    ASSUME SessType, NEW s \in Sessions, End(s)
    PROVE  /\ SessType'
           /\ sess'[s].step = "idle"
           /\ \A t \in Sessions \ {s} : sess'[t] = sess[t]
  <1>1. Idle.step = "idle"
    BY DEF Idle
  <1> QED
    BY <1>1 DEF End, SessType

\* A step that leaves rows and records alone and sends no new session to
\* commit keeps the invariant.
LEMMA QuietStep ==
    ASSUME IntakeInv, UNCHANGED <<rows, records>>, SessType',
           published' \subseteq 1..MaxRequests, lost' \subseteq 1..MaxRequests,
           sent' \in 0..MaxRequests,
           \A t \in Sessions : At(t, "commit")' => sess'[t] = sess[t]
    PROVE  IntakeInv'
  <1>1. TypeOK'
    BY DEF IntakeInv, TypeOK, SessType
  <1>2. KeyedOnce'
    BY DEF IntakeInv, KeyedOnce
  <1>3. HoldersAlone'
    BY DEF IntakeInv, HoldersAlone, At
  <1> QED
    BY <1>1, <1>2, <1>3 DEF IntakeInv

LEMMA SendInv ==
    ASSUME IntakeInv, NEW s \in Sessions, NEW kind \in Kinds, NEW tenant \in Tenants,
           NEW key \in Keys, NEW rec \in Recs, Send(s, kind, tenant, key, rec)
    PROVE  IntakeInv'
  <1> DEFINE q == [n |-> sent + 1, kind |-> kind, tenant |-> tenant, key |-> key,
                   rec |-> rec, seen |-> {r.n : r \in rows}]
             new == [step |-> "check_key", request |-> q]
  <1>1. sent + 1 \in 1..MaxRequests
    BY RequestsAssumption DEF IntakeInv, TypeOK, Send
  <1>2. {r.n : r \in rows} \in SUBSET (1..MaxRequests)
    BY DEF IntakeInv, TypeOK, Request
  <1>3. q \in Request
    BY <1>1, <1>2 DEF Request
  <1> HIDE DEF q
  <1>4. new \in [step : Steps, request : Request] /\ new.step = "check_key"
    BY <1>3 DEF Steps
  <1>5. sess' = [sess EXCEPT ![s] = new]
    BY DEF Send, q
  <1> HIDE DEF new
  <1>6. SessType'
    BY <1>4, <1>5 DEF IntakeInv, TypeOK, SessType
  <1>7. \A t \in Sessions : At(t, "commit")' => sess'[t] = sess[t]
    BY <1>4, <1>5 DEF IntakeInv, TypeOK, SessType, At
  <1>8. /\ UNCHANGED <<rows, records>> /\ sent' \in 0..MaxRequests
        /\ published' \subseteq 1..MaxRequests /\ lost' \subseteq 1..MaxRequests
    BY <1>1 DEF Send, IntakeInv, TypeOK
  <1> QED
    BY <1>6, <1>7, <1>8, QuietStep

\* Refuse, CheckKey, CheckRec and CommitFails.
LEMMA ChecksInv ==
    ASSUME IntakeInv, NEW s \in Sessions,
           Refuse(s) \/ CheckKey(s) \/ CheckRec(s) \/ CommitFails(s)
    PROVE  IntakeInv'
  <1>0. SessType /\ published \subseteq 1..MaxRequests /\ lost \subseteq 1..MaxRequests
        /\ sent \in 0..MaxRequests
    BY DEF IntakeInv, TypeOK, SessType
  <1>1. sess[s].step \in Steps
    BY DEF Refuse, CheckKey, CheckRec, CommitFails, At, Steps
  <1>2. sess[s].request.n \in 1..MaxRequests
    BY <1>0, <1>1, BusyType
  <1>3. /\ UNCHANGED <<rows, records>> /\ sent' \in 0..MaxRequests
        /\ published' \subseteq 1..MaxRequests /\ lost' \subseteq 1..MaxRequests
    BY <1>0, <1>2 DEF Refuse, CheckKey, CheckRec, CommitFails
  <1>4. SessType' /\ \A t \in Sessions : At(t, "commit")' => sess'[t] = sess[t]
    <2>1. CASE End(s)
      BY <1>0, <2>1, EndType DEF At
    <2>2. CASE \E next \in Steps \ {"commit"} : Goto(s, next)
      BY <1>0, <1>1, <2>2, GotoType DEF At
    <2> QED
      BY <2>1, <2>2 DEF Refuse, CheckKey, CheckRec, CommitFails, Steps
  <1> QED
    BY <1>3, <1>4, QuietStep

\* The INSERT of the key makes the session its only holder.
LEMMA RecordInv == ASSUME IntakeInv, NEW s \in Sessions, Record(s) PROVE IntakeInv'
  <1> DEFINE q == sess[s].request
  <1>0. SessType /\ sess[s].step \in Steps /\ "commit" \in Steps /\ Goto(s, "commit")
        /\ records[q.key] = Nil /\ Holders(q.key) = {}
    BY DEF IntakeInv, TypeOK, SessType, Record, At, Steps
  <1>1. /\ SessType'
        /\ sess'[s].step = "commit" /\ sess'[s].request = q
        /\ \A t \in Sessions \ {s} : sess'[t] = sess[t]
    BY <1>0, GotoType
  <1>2. q.n \in 1..MaxRequests
    BY <1>0, BusyType
  <1>3. UNCHANGED <<rows, records, lost, sent>> /\ published' \subseteq 1..MaxRequests
    BY <1>2 DEF Record, IntakeInv, TypeOK
  <1>4. TypeOK'
    BY <1>1, <1>3 DEF IntakeInv, TypeOK, SessType
  <1>5. KeyedOnce'
    BY <1>3 DEF IntakeInv, KeyedOnce
  <1>6. \A t \in Sessions \ {s} : At(t, "commit") => sess[t].request.key # q.key
    BY <1>0 DEF Holders
  <1>7. HoldersAlone'
    BY <1>0, <1>1, <1>3, <1>6 DEF IntakeInv, HoldersAlone, At
  <1> QED
    BY <1>1, <1>4, <1>5, <1>7 DEF IntakeInv

\* The commit stores a row whose key nobody has.
LEMMA CommitInv == ASSUME IntakeInv, NEW s \in Sessions, Commit(s) PROVE IntakeInv'
  <1> DEFINE q == sess[s].request
  <1>0. SessType /\ At(s, "commit") /\ sess[s].step \in Steps
    BY DEF IntakeInv, TypeOK, SessType, Commit, At, Steps
  <1>1. q \in Request /\ q.key \in Keys /\ q.tenant \in Tenants /\ q.tenant # Nil
    BY <1>0, BusyType, NilAssumption
  <1>2. /\ rows' = rows \cup {q}
        /\ records' = [records EXCEPT ![q.key] = q.tenant]
        /\ UNCHANGED <<published, lost, sent>>
        /\ records \in [Keys -> Tenants \cup {Nil}]
    BY DEF Commit, IntakeInv, TypeOK
  <1>3. /\ SessType'
        /\ sess'[s].step = "idle"
        /\ \A t \in Sessions \ {s} : sess'[t] = sess[t]
    BY <1>0, EndType DEF Commit
  <1>4. /\ records[q.key] = Nil
        /\ \A t \in Sessions \ {s} : At(t, "commit") => sess[t].request.key # q.key
    BY <1>0 DEF IntakeInv, HoldersAlone
  <1>5. TypeOK'
    BY <1>1, <1>2, <1>3 DEF IntakeInv, TypeOK, SessType
  <1>6. \A r \in rows : r.key # q.key
    BY <1>1, <1>4 DEF IntakeInv, KeyedOnce
  <1>7. KeyedOnce'
    <2> SUFFICES ASSUME NEW k \in Keys
                 PROVE  /\ \A r1, r2 \in rows' : (r1.key = k /\ r2.key = k) => r1 = r2
                        /\ records'[k] # Nil <=> \E r \in rows' : r.key = k
                        /\ \A r \in rows' : r.key = k => r.tenant = records'[k]
      BY DEF KeyedOnce
    <2>1. /\ \A r1, r2 \in rows : (r1.key = k /\ r2.key = k) => r1 = r2
          /\ records[k] # Nil <=> \E r \in rows : r.key = k
          /\ \A r \in rows : r.key = k => r.tenant = records[k]
      BY DEF IntakeInv, KeyedOnce
    <2>2. CASE k = q.key
      BY <1>1, <1>2, <1>6, <2>2
    <2>3. CASE k # q.key
      BY <1>1, <1>2, <2>1, <2>3
    <2> QED
      BY <2>2, <2>3
  <1>8. HoldersAlone'
    <2>1. \A t \in Sessions : At(t, "commit")' =>
             t # s /\ sess'[t] = sess[t] /\ At(t, "commit") /\ sess[t].request.key # q.key
      BY <1>3, <1>4 DEF At
    <2>2. \A t \in Sessions : At(t, "commit")' => records'[sess[t].request.key] = Nil
      <3> SUFFICES ASSUME NEW t \in Sessions, At(t, "commit")'
                   PROVE  records'[sess[t].request.key] = Nil
        OBVIOUS
      <3>1. At(t, "commit") /\ sess[t].step \in Steps /\ sess[t].request.key # q.key
        BY <2>1 DEF At, Steps
      <3>2. sess[t].request.key \in Keys
        BY <1>0, <3>1, BusyType
      <3> QED
        BY <1>2, <3>1, <3>2 DEF IntakeInv, HoldersAlone
    <2> QED
      BY <2>1, <2>2 DEF IntakeInv, HoldersAlone
  <1> QED
    BY <1>3, <1>5, <1>7, <1>8 DEF IntakeInv

LEMMA IntakeInitially == Init => IntakeInv
  <1> SUFFICES ASSUME Init PROVE IntakeInv
    OBVIOUS
  <1>1. \A s \in Sessions : sess[s].step = "idle"
    BY DEF Init, Idle
  <1>2. SessType
    BY DEF Init, SessType
  <1>3. TypeOK
    BY <1>2, RequestsAssumption DEF Init, TypeOK, SessType
  <1>4. KeyedOnce /\ HoldersAlone
    BY <1>1 DEF Init, KeyedOnce, HoldersAlone, At
  <1> QED
    BY <1>3, <1>4 DEF IntakeInv

LEMMA IntakeStep == IntakeInv /\ [Next]_vars => IntakeInv'
  <1> SUFFICES ASSUME IntakeInv, [Next]_vars PROVE IntakeInv'
    OBVIOUS
  <1>1. CASE Next
    <2>1. PICK s \in Sessions :
             \/ \E kind \in Kinds, tenant \in Tenants, key \in Keys, rec \in Recs :
                   Send(s, kind, tenant, key, rec)
             \/ Step(s)
      BY <1>1 DEF Next
    <2>2. CASE \E kind \in Kinds, tenant \in Tenants, key \in Keys, rec \in Recs :
                  Send(s, kind, tenant, key, rec)
      BY <2>2, SendInv
    <2>3. CASE Step(s)
      BY <2>3, ChecksInv, RecordInv, CommitInv DEF Step
    <2> QED
      BY <2>1, <2>2, <2>3
  <1>2. CASE UNCHANGED vars
    <2>1. TypeOK'
      BY <1>2 DEF vars, IntakeInv, TypeOK
    <2>2. KeyedOnce' /\ HoldersAlone'
      BY <1>2 DEF vars, IntakeInv, KeyedOnce, HoldersAlone, At
    <2> QED
      BY <2>1, <2>2 DEF IntakeInv
  <1> QED
    BY <1>1, <1>2

LEMMA InvHolds == Spec => []IntakeInv
  BY IntakeInitially, IntakeStep, PTL DEF Spec

-----------------------------------------------------------------------------
(* Theorems *)

\* Every reachable state of the intake is well typed.
THEOREM IntakeTyped == Spec => []TypeOK
  <1>1. IntakeInv => TypeOK
    BY DEF IntakeInv
  <1> QED
    BY <1>1, InvHolds, PTL

\* The unique key column makes deliveries idempotent, whatever overlaps,
\* repeats or is lost: no two committed rows have one key.
THEOREM StoredOnce == Spec => []KeyedOnce
  <1>1. IntakeInv => KeyedOnce
    BY DEF IntakeInv
  <1> QED
    BY <1>1, InvHolds, PTL

-----------------------------------------------------------------------------
(* Which requests overlapped *)

Working(s) == sess[s].step \in Steps

Stored == {r.n : r \in rows}

\* Numbers tell requests apart, and a request saw committed rows only.
Numbered ==
    /\ \A r \in rows : r.n <= sent /\ r.seen \subseteq Stored
    /\ \A s \in Sessions : Working(s) =>
          /\ sess[s].request.n <= sent
          /\ sess[s].request.seen \subseteq Stored
          /\ sess[s].request.n \notin Stored
          /\ \A t \in Sessions \ {s} : Working(t) => sess[t].request.n # sess[s].request.n

\* A recommendation whose check found nothing has seen no row of its id, and
\* what is committed since then it has not seen either.
Checked(s) ==
    At(s, "record") \/ At(s, "commit") =>
        \A r \in rows : Duplicates(r, sess[s].request) => r.n \notin sess[s].request.seen

OverlapInv == IntakeInv /\ Numbered /\ DuplicatesOverlapped /\ \A s \in Sessions : Checked(s)

\* A request that goes on or ends.
LEMMA MovesOn ==
    ASSUME SessType, NEW s \in Sessions, Step(s)
    PROVE  /\ SessType' /\ Working(s) /\ UNCHANGED sent
           /\ \A t \in Sessions \ {s} : sess'[t] = sess[t]
           /\ Working(s)' => sess'[s].request = sess[s].request
           /\ At(s, "record")' =>
                 \/ At(s, "check_key") /\ sess[s].request.kind # "recommendation"
                 \/ CheckRec(s)
           /\ At(s, "commit")' => Record(s)
  <1>1. Working(s) /\ UNCHANGED sent
    BY DEF Step, Refuse, CheckKey, CheckRec, Record, Commit, CommitFails, Working, At, Steps
  <1>2. CASE End(s)
    <2>1. "idle" \notin Steps
      BY DEF Steps
    <2> QED
      BY <1>1, <1>2, <2>1, EndType DEF Working, At
  <1>3. ASSUME NEW next \in Steps, Goto(s, next)
        PROVE  /\ SessType'
               /\ \A t \in Sessions \ {s} : sess'[t] = sess[t]
               /\ sess'[s].request = sess[s].request /\ sess'[s].step = next
    BY <1>1, <1>3, GotoType DEF Working
  <1>4. CASE Refuse(s) \/ Commit(s) \/ CommitFails(s)
    BY <1>2, <1>4 DEF Refuse, Commit, CommitFails
  <1>5. CASE CheckKey(s)
    <2>1. /\ At(s, "check_key")
          /\ Goto(s, IF sess[s].request.kind = "recommendation" THEN "check_rec" ELSE "record")
          /\ "check_rec" \in Steps /\ "record" \in Steps
      BY <1>5 DEF CheckKey, Steps
    <2> QED
      BY <1>1, <1>3, <2>1 DEF At
  <1>6. CASE CheckRec(s)
    BY <1>1, <1>3, <1>6 DEF CheckRec, At, Steps
  <1>7. CASE Record(s)
    BY <1>1, <1>3, <1>7 DEF Record, At, Steps
  <1> QED
    BY <1>4, <1>5, <1>6, <1>7 DEF Step

LEMMA SendOverlap ==
    ASSUME OverlapInv, NEW s \in Sessions, NEW kind \in Kinds, NEW tenant \in Tenants,
           NEW key \in Keys, NEW rec \in Recs, Send(s, kind, tenant, key, rec)
    PROVE  Numbered' /\ DuplicatesOverlapped' /\ \A t \in Sessions : Checked(t)'
  <1> DEFINE q == [n |-> sent + 1, kind |-> kind, tenant |-> tenant, key |-> key,
                   rec |-> rec, seen |-> {r.n : r \in rows}]
  <1>1. /\ sess' = [sess EXCEPT ![s] = [step |-> "check_key", request |-> q]]
        /\ rows' = rows /\ sent' = sent + 1 /\ sent \in Nat /\ DOMAIN sess = Sessions
    BY DEF Send, OverlapInv, IntakeInv, TypeOK
  <1>2. q.n = sent + 1 /\ q.seen = Stored
    BY DEF Stored
  <1> HIDE DEF q
  <1>3. /\ sess'[s].step = "check_key" /\ sess'[s].request = q
        /\ \A t \in Sessions \ {s} : sess'[t] = sess[t]
    BY <1>1
  <1>4. \A n \in Stored : n \in 1..MaxRequests /\ n <= sent
    BY DEF OverlapInv, IntakeInv, TypeOK, Numbered, Stored, Request
  <1>5. \A t \in Sessions : Working(t) => /\ sess[t].request.n \in 1..MaxRequests
                                          /\ sess[t].request.n <= sent
    BY BusyType DEF OverlapInv, IntakeInv, TypeOK, SessType, Numbered, Working
  <1>6. Stored' = Stored
    BY <1>1 DEF Stored
  <1>7. \A r \in rows : r.n \in 1..MaxRequests
    BY DEF OverlapInv, IntakeInv, TypeOK, Request
  <1>8. \A r \in rows' : r.n <= sent' /\ r.seen \subseteq Stored'
    BY <1>1, <1>6, <1>7 DEF OverlapInv, Numbered
  <1>9. ASSUME NEW t \in Sessions, Working(t)'
        PROVE  /\ sess'[t].request.n <= sent'
               /\ sess'[t].request.seen \subseteq Stored'
               /\ sess'[t].request.n \notin Stored'
               /\ \A u \in Sessions \ {t} : Working(u)' =>
                     sess'[u].request.n # sess'[t].request.n
    <2>1. \A u \in Sessions \ {s} : Working(u)' => Working(u)
      BY <1>3 DEF Working
    <2>2. CASE t = s
      BY <1>1, <1>2, <1>3, <1>4, <1>5, <1>6, <2>1, <2>2
    <2>3. CASE t # s
      <3>1. Working(t)
        BY <1>9, <2>1, <2>3
      <3>2. /\ sess[t].request.n <= sent /\ sess[t].request.seen \subseteq Stored
            /\ sess[t].request.n \notin Stored
            /\ \A u \in Sessions \ {t} : Working(u) => sess[u].request.n # sess[t].request.n
        BY <3>1 DEF OverlapInv, Numbered
      <3> QED
        BY <1>1, <1>2, <1>3, <1>5, <1>6, <2>1, <2>3, <3>1, <3>2
    <2> QED
      BY <2>2, <2>3
  <1>10. \A t \in Sessions : Checked(t)'
    BY <1>1, <1>3 DEF OverlapInv, Checked, At
  <1> QED
    BY <1>1, <1>8, <1>9, <1>10 DEF Numbered, OverlapInv, DuplicatesOverlapped

\* A request's own check and the commits of others keep what it has seen apart
\* from what is stored under its recommendation id.
LEMMA StepOverlap ==
    ASSUME OverlapInv, NEW s \in Sessions, Step(s)
    PROVE  Numbered' /\ DuplicatesOverlapped' /\ \A t \in Sessions : Checked(t)'
  <1> DEFINE q == sess[s].request
  <1>1. SessType /\ Numbered /\ Working(s)
    BY MovesOn DEF OverlapInv, IntakeInv, TypeOK, SessType
  <1>2. /\ UNCHANGED sent
        /\ \A t \in Sessions \ {s} : sess'[t] = sess[t]
        /\ Working(s)' => sess'[s].request = sess[s].request
    BY <1>1, MovesOn
  <1>3. \A t \in Sessions : Working(t)' => Working(t) /\ sess'[t].request = sess[t].request
    BY <1>1, <1>2 DEF Working
  <1>4. \A t \in Sessions : t # s => (At(t, "record") \/ At(t, "commit") <=>
                                      At(t, "record")' \/ At(t, "commit")')
    BY <1>2 DEF At
  <1>5. CASE rows' = rows
    <2>1. Stored' = Stored
      BY <1>5 DEF Stored
    <2>2. Numbered'
      BY <1>1, <1>2, <1>3, <1>5, <2>1 DEF Numbered
    <2>3. ASSUME NEW t \in Sessions PROVE Checked(t)'
      <3>1. CASE t # s
        BY <1>2, <1>4, <1>5, <3>1 DEF OverlapInv, Checked
      <3>2. CASE t = s /\ At(s, "record")'
        <4>1. \/ At(s, "check_key") /\ q.kind # "recommendation"
              \/ CheckRec(s)
          BY <1>1, <3>2, MovesOn
        <4>2. sess'[s].request = q
          BY <1>2, <3>2 DEF Working, At, Steps
        <4>3. CASE q.kind # "recommendation"
          BY <3>2, <4>2, <4>3 DEF Checked, Duplicates
        <4>4. CASE CheckRec(s)
          BY <1>5, <3>2, <4>2, <4>4 DEF CheckRec, Known, Checked, Duplicates
        <4> QED
          BY <4>1, <4>3, <4>4
      <3>3. CASE t = s /\ At(s, "commit")'
        <4>1. At(s, "record")
          BY <1>1, <3>3, MovesOn DEF Record
        <4>2. sess'[s].request = q
          BY <1>2, <3>3 DEF Working, At, Steps
        <4> QED
          BY <1>5, <3>3, <4>1, <4>2 DEF OverlapInv, Checked
      <3> QED
        BY <3>1, <3>2, <3>3 DEF Checked
    <2> QED
      BY <1>5, <2>2, <2>3 DEF OverlapInv, DuplicatesOverlapped
  <1>6. CASE Commit(s)
    <2>1. rows' = rows \cup {q} /\ At(s, "commit") /\ End(s)
      BY <1>6 DEF Commit
    <2>2. Stored' = Stored \cup {q.n}
      BY <2>1 DEF Stored
    <2>3. /\ q.n <= sent /\ q.seen \subseteq Stored /\ q.n \notin Stored
          /\ \A t \in Sessions \ {s} : Working(t) => sess[t].request.n # q.n
      BY <1>1 DEF Numbered
    <2>4. ~Working(s)'
      BY <1>1, <2>1, EndType DEF Working, Steps
    <2>5. \A r \in rows' : r.n <= sent' /\ r.seen \subseteq Stored'
      BY <1>1, <1>2, <2>1, <2>2, <2>3 DEF Numbered
    <2>6. ASSUME NEW t \in Sessions, Working(t)'
          PROVE  /\ sess'[t].request.n <= sent'
                 /\ sess'[t].request.seen \subseteq Stored'
                 /\ sess'[t].request.n \notin Stored'
                 /\ \A u \in Sessions \ {t} : Working(u)' =>
                       sess'[u].request.n # sess'[t].request.n
      <3>1. t # s /\ Working(t) /\ sess'[t] = sess[t]
        BY <1>2, <1>3, <2>4, <2>6
      <3>2. /\ sess[t].request.n <= sent /\ sess[t].request.seen \subseteq Stored
            /\ sess[t].request.n \notin Stored /\ sess[t].request.n # q.n
            /\ \A u \in Sessions \ {t} : Working(u) => sess[u].request.n # sess[t].request.n
        BY <1>1, <2>3, <3>1 DEF Numbered
      <3> QED
        BY <1>2, <1>3, <2>2, <3>1, <3>2
    <2>7. ASSUME NEW t \in Sessions PROVE Checked(t)'
      <3> SUFFICES ASSUME At(t, "record")' \/ At(t, "commit")', NEW r \in rows',
                          Duplicates(r, sess'[t].request)
                   PROVE  r.n \notin sess'[t].request.seen
        BY DEF Checked
      <3>1. Working(t)'
        BY DEF Working, At, Steps
      <3>2. t # s /\ Working(t) /\ sess'[t] = sess[t]
        BY <1>2, <1>3, <2>4, <3>1
      <3>3. CASE r \in rows
        BY <1>4, <3>2, <3>3 DEF OverlapInv, Checked
      <3>4. CASE r = q
        BY <1>1, <2>3, <3>2, <3>4 DEF Numbered
      <3> QED
        BY <2>1, <3>3, <3>4
    <2>8. DuplicatesOverlapped'
      <3> SUFFICES ASSUME NEW r1 \in rows', NEW r2 \in rows', Duplicates(r1, r2)
                   PROVE  r1.n \notin r2.seen
        BY DEF DuplicatesOverlapped
      <3>1. CASE r1 \in rows /\ r2 \in rows
        BY <3>1 DEF OverlapInv, DuplicatesOverlapped
      <3>2. CASE r1 \in rows /\ r2 = q
        BY <2>1, <3>2 DEF OverlapInv, Checked
      <3>3. CASE r1 = q /\ r2 \in rows
        BY <1>1, <2>3, <3>3 DEF Numbered
      <3>4. CASE r1 = q /\ r2 = q
        BY <3>4 DEF Duplicates
      <3> QED
        BY <2>1, <3>1, <3>2, <3>3, <3>4
    <2> QED
      BY <2>5, <2>6, <2>7, <2>8 DEF Numbered
  <1> QED
    BY <1>5, <1>6 DEF Step, Refuse, CheckKey, CheckRec, Record, CommitFails

LEMMA OverlapInvHolds == Spec => []OverlapInv
  <1>1. Init => OverlapInv
    <2> SUFFICES ASSUME Init PROVE OverlapInv
      OBVIOUS
    <2>1. \A s \in Sessions : sess[s].step = "idle"
      BY DEF Init, Idle
    <2>2. rows = {}
      BY DEF Init
    <2> QED
      BY <2>1, <2>2, IntakeInitially
         DEF OverlapInv, Numbered, DuplicatesOverlapped, Checked, Working, At, Steps
  <1>2. OverlapInv /\ [Next]_vars => OverlapInv'
    <2> SUFFICES ASSUME OverlapInv, [Next]_vars PROVE OverlapInv'
      OBVIOUS
    <2>1. IntakeInv'
      BY IntakeStep DEF OverlapInv
    <2>2. CASE UNCHANGED vars
      BY <2>1, <2>2
         DEF vars, OverlapInv, Numbered, DuplicatesOverlapped, Checked, Working, At, Stored
    <2>3. CASE Next
      BY <2>1, <2>3, SendOverlap, StepOverlap DEF Next, OverlapInv
    <2> QED
      BY <2>2, <2>3
  <1> QED
    BY <1>1, <1>2, PTL DEF Spec

\* A recommendation id is stored twice only by requests that overlapped, for any
\* number of senders and whatever keys they choose.
THEOREM DuplicatesHold == Spec => []DuplicatesOverlapped
  <1>1. OverlapInv => DuplicatesOverlapped
    BY DEF OverlapInv
  <1> QED
    BY <1>1, OverlapInvHolds, PTL

-----------------------------------------------------------------------------
(* What became of an announced recommendation *)

LEMMA GhostsNext == IntakeInv /\ GhostsWereLost /\ [Next]_vars => GhostsWereLost'
  <1> SUFFICES ASSUME IntakeInv, GhostsWereLost, [Next]_vars, NEW n \in published'
               PROVE  \/ n \in lost'
                      \/ \E r \in rows' : r.n = n
                      \/ \E s \in Sessions : At(s, "commit")' /\ sess'[s].request.n = n
    BY DEF GhostsWereLost
  <1>1. SessType
    BY DEF IntakeInv, TypeOK, SessType
  <1>2. rows \subseteq rows' /\ lost \subseteq lost'
    BY DEF Next, Step, Send, Refuse, CheckKey, CheckRec, Record, Commit, CommitFails, vars
  <1>3. ASSUME NEW s \in Sessions, Record(s), n = sess[s].request.n
        PROVE  At(s, "commit")' /\ sess'[s].request.n = n
    <2>1. Goto(s, "commit") /\ sess[s].step \in Steps /\ "commit" \in Steps
      BY <1>3 DEF Record, At, Steps
    <2> QED
      BY <1>1, <1>3, <2>1, GotoType DEF At
  <1>4. CASE n \notin published
    BY <1>3, <1>4 DEF Next, Step, Send, Refuse, CheckKey, CheckRec, Record, Commit,
                      CommitFails, vars
  <1>5. CASE n \in lost \/ \E r \in rows : r.n = n
    BY <1>2, <1>5
  <1>6. ASSUME NEW s \in Sessions, At(s, "commit"), sess[s].request.n = n
        PROVE  \/ n \in lost'
               \/ \E r \in rows' : r.n = n
               \/ At(s, "commit")' /\ sess'[s].request.n = n
    <2>1. CASE sess'[s] = sess[s]
      BY <1>6, <2>1 DEF At
    <2>2. ASSUME NEW t \in Sessions, Step(t)
          PROVE  sess'[s] = sess[s] \/ Commit(s) \/ CommitFails(s)
      <3>1. CASE t # s
        BY <1>1, <2>2, <3>1, MovesOn
      <3>2. CASE t = s
        BY <1>6, <2>2, <3>2 DEF Step, Refuse, CheckKey, CheckRec, Record, At
      <3> QED
        BY <3>1, <3>2
    <2>3. ASSUME NEW t \in Sessions, NEW kind \in Kinds, NEW tenant \in Tenants,
                 NEW key \in Keys, NEW rec \in Recs, Send(t, kind, tenant, key, rec)
          PROVE  sess'[s] = sess[s]
      BY <1>1, <1>6, <2>3 DEF Send, Busy, At, SessType
    <2>4. CASE Commit(s) \/ CommitFails(s)
      BY <1>6, <2>4 DEF Commit, CommitFails
    <2> QED
      BY <2>1, <2>2, <2>3, <2>4 DEF Next, vars
  <1>7. CASE n \in published
    BY <1>5, <1>6, <1>7 DEF GhostsWereLost
  <1> QED
    BY <1>4, <1>7

\* Recommendations are announced before the commit; what was announced and is
\* neither stored nor in flight was lost by a failing commit, never by a
\* refusal or a lost race.
THEOREM GhostsHold == Spec => []GhostsWereLost
  <1>1. Init => GhostsWereLost
    BY DEF Init, GhostsWereLost
  <1>2. (IntakeInv /\ GhostsWereLost) /\ [Next]_vars => (IntakeInv /\ GhostsWereLost)'
    BY IntakeStep, GhostsNext
  <1> QED
    BY <1>1, <1>2, IntakeInitially, PTL DEF Spec

-----------------------------------------------------------------------------
(* Accounts and their links *)

\* A request that found a rule loaded it as active, and writes a rule's status.
RulesLoadedActive ==
    \A c \in Clerks :
        clerk[c] # NoRequest /\ clerk[c].op = "status" /\ Kind(clerk[c].of) = "rule"
            => clerk[c].read = "active" /\ clerk[c].write \in {"active", "disabled"}

AccountInv == LinksAreSound /\ RulesLoadedActive

LEMMA AccountsInitially == AccountInit => AccountInv
<1> SUFFICES ASSUME AccountInit PROVE AccountInv
  OBVIOUS
<1>1. AccountTypeOK
  BY DEF AccountInit, AccountTypeOK, Statuses
<1>2. OneLinkPerPair /\ PositionsLive /\ DeletedIsDisabled /\ RulesLoadedActive
  BY DEF AccountInit, OneLinkPerPair, PositionsLive, DeletedIsDisabled, RulesLoadedActive, Rows
<1> QED
  BY <1>1, <1>2 DEF AccountInv, LinksAreSound

-----------------------------------------------------------------------------
(* Accounts: facts about the operators *)

LEMMA KindsInv == AccountTypeOK => \A x \in Rows :
                    /\ EndStatus(x) \in Statuses
                    /\ StatusPattern[Kind(x)] \subseteq Statuses
                    /\ Kind(x) = "rule" => /\ EndStatus(x) = "disabled"
                                           /\ StatusPattern[Kind(x)] = {"active", "disabled"}
                    /\ HolderKind[table] = "user" /\ x \in Grantees => Kind(x) = "user"
                    /\ table = "user_position" /\ x \in Grantees => Kind(x) = "user"
                    /\ table = "user_position" /\ x \in Held => Kind(x) = "position"
<1> SUFFICES ASSUME AccountTypeOK, NEW x \in Rows
             PROVE  /\ EndStatus(x) \in Statuses
                    /\ StatusPattern[Kind(x)] \subseteq Statuses
                    /\ Kind(x) = "rule" => /\ EndStatus(x) = "disabled"
                                           /\ StatusPattern[Kind(x)] = {"active", "disabled"}
                    /\ HolderKind[table] = "user" /\ x \in Grantees => Kind(x) = "user"
                    /\ table = "user_position" /\ x \in Grantees => Kind(x) = "user"
                    /\ table = "user_position" /\ x \in Held => Kind(x) = "position"
  OBVIOUS
<1>1. Kind(x) \in {"user", "role", "subject", "tenant", "position", "permission", "object", "rule"}
  BY DEF AccountTypeOK, LinkTables, Kind, HolderKind, HeldKind
<1>2. EndStatus(x) \in Statuses /\ (Kind(x) = "rule" => EndStatus(x) = "disabled")
  BY DEF EndStatus, Statuses
<1>3. /\ StatusPattern[Kind(x)] \subseteq Statuses
      /\ Kind(x) = "rule" => StatusPattern[Kind(x)] = {"active", "disabled"}
  BY <1>1 DEF StatusPattern, Statuses
<1>4. /\ HolderKind[table] = "user" /\ x \in Grantees => Kind(x) = "user"
      /\ table = "user_position" /\ x \in Grantees => Kind(x) = "user"
      /\ table = "user_position" /\ x \in Held => Kind(x) = "position"
  BY AccountsAssumption DEF Kind, HolderKind, HeldKind
<1> QED
  BY <1>2, <1>3, <1>4

\* What a request holds, by its kind.
LEMMA RequestsHold ==
    ASSUME AccountTypeOK, NEW c \in Clerks, clerk[c] # NoRequest
    PROVE  /\ clerk[c].op = "status" => /\ clerk[c].of \in Rows
                                        /\ clerk[c].read \in Statuses
                                        /\ clerk[c].write \in Statuses
           /\ clerk[c].op = "delete" => clerk[c].of \in Rows
           /\ clerk[c].op = "assign" => /\ clerk[c].holder \in Grantees
                                        /\ clerk[c].held \in Held
                                        /\ clerk[c].primary \in BOOLEAN
<1>1. clerk[c] \in Requests
  BY DEF AccountTypeOK
<1>2. CASE clerk[c] \in [op : {"status"}, of : Rows, read : Statuses, write : Statuses]
  BY <1>2
<1>3. CASE clerk[c] \in [op : {"delete"}, of : Rows]
  BY <1>3
<1>4. CASE clerk[c] \in [op : {"assign"}, holder : Grantees, held : Held, primary : BOOLEAN]
  BY <1>4
<1> QED
  BY <1>1, <1>2, <1>3, <1>4 DEF Requests

-----------------------------------------------------------------------------
(* The steps, in groups that disturb the same parts *)

\* A request that only loads, or gives up, changes what its clerk holds.
LEMMA LoadsKeep ==
    ASSUME AccountInv, NEW c \in Clerks, NEW request,
           clerk' = [clerk EXCEPT ![c] = request],
           request \in Requests \cup {NoRequest},
           request # NoRequest /\ request.op = "status" /\ Kind(request.of) = "rule"
               => request.read = "active" /\ request.write \in {"active", "disabled"},
           UNCHANGED <<table, member, links, overtaken>>
    PROVE  AccountInv'
<1> USE DEF AccountInv, LinksAreSound
<1>1. AccountTypeOK'
  BY DEF AccountTypeOK
<1>2. OneLinkPerPair'
  BY DEF OneLinkPerPair
<1>3. PositionsLive'
  BY DEF PositionsLive
<1>4. DeletedIsDisabled'
  BY DEF DeletedIsDisabled, EndStatus, Kind
<1>5. RulesLoadedActive'
  BY DEF RulesLoadedActive, AccountTypeOK, Kind
<1> QED
  BY <1>1, <1>2, <1>3, <1>4, <1>5

\* A clerk whose request has ended.
LEMMA EndsKeepLoads ==
    ASSUME AccountInv, NEW c \in Clerks, UNCHANGED table,
           clerk' = [clerk EXCEPT ![c] = NoRequest]
    PROVE  RulesLoadedActive' /\ clerk' \in [Clerks -> Requests \cup {NoRequest}]
BY DEF AccountInv, LinksAreSound, AccountTypeOK, RulesLoadedActive, Kind

LEMMA LoadsInv ==
    ASSUME AccountInv, NEW c \in Clerks
    PROVE  /\ \A x \in Rows : \A s : LoadForStatus(c, x, s) => AccountInv'
           /\ \A x \in Rows : LoadForDelete(c, x) => AccountInv'
           /\ \A a \in Grantees, b \in Held, p \in BOOLEAN : LoadForAssign(c, a, b, p) => AccountInv'
           /\ Withdraw(c) => AccountInv'
<1>1. ASSUME NEW x \in Rows, NEW s, LoadForStatus(c, x, s) PROVE AccountInv'
  <2> DEFINE request == [op |-> "status", of |-> x, read |-> member[x].status, write |-> s]
  <2>1. member[x].status \in Statuses /\ s \in Statuses
    BY <1>1, KindsInv DEF LoadForStatus, AccountInv, LinksAreSound, AccountTypeOK
  <2>2. request \in Requests
    BY <2>1 DEF Requests
  <2>3. Kind(x) = "rule" => member[x].status = "active" /\ s \in {"active", "disabled"}
    BY <1>1, KindsInv DEF LoadForStatus, Found, AccountInv, LinksAreSound
  <2>4. clerk' = [clerk EXCEPT ![c] = request] /\ UNCHANGED <<table, member, links, overtaken>>
    BY <1>1 DEF LoadForStatus, Asks
  <2>5. request.of = x /\ request.read = member[x].status /\ request.write = s
    OBVIOUS
  <2> HIDE DEF request
  <2> QED
    BY <2>2, <2>3, <2>4, <2>5, LoadsKeep
<1>2. ASSUME NEW x \in Rows, LoadForDelete(c, x) PROVE AccountInv'
  <2> DEFINE request == [op |-> "delete", of |-> x]
  <2>1. request \in Requests /\ request.op # "status"
    BY DEF Requests
  <2>2. clerk' = [clerk EXCEPT ![c] = request] /\ UNCHANGED <<table, member, links, overtaken>>
    BY <1>2 DEF LoadForDelete, Asks
  <2> HIDE DEF request
  <2> QED
    BY <2>1, <2>2, LoadsKeep
<1>3. ASSUME NEW a \in Grantees, NEW b \in Held, NEW p \in BOOLEAN, LoadForAssign(c, a, b, p)
      PROVE  AccountInv'
  <2> DEFINE request == [op |-> "assign", holder |-> a, held |-> b, primary |-> p]
  <2>1. request \in Requests /\ request.op # "status"
    BY DEF Requests
  <2>2. clerk' = [clerk EXCEPT ![c] = request] /\ UNCHANGED <<table, member, links, overtaken>>
    BY <1>3 DEF LoadForAssign, Asks
  <2> HIDE DEF request
  <2> QED
    BY <2>1, <2>2, LoadsKeep
<1>4. ASSUME Withdraw(c) PROVE AccountInv'
  BY <1>4, LoadsKeep DEF Withdraw
<1> QED
  BY <1>1, <1>2, <1>3, <1>4

\* Writing the status of row x: a deleted row is then among those overtaken.
LEMMA CommitStatusInv ==
    ASSUME AccountInv, NEW c \in Clerks, CommitStatus(c)
    PROVE  AccountInv'
<1> USE DEF AccountInv, LinksAreSound
<1> DEFINE x == clerk[c].of
<1>1. x \in Rows /\ clerk[c].write \in Statuses
  BY RequestsHold DEF CommitStatus
<1>2. UNCHANGED <<table, links>> /\ clerk' = [clerk EXCEPT ![c] = NoRequest]
  BY DEF CommitStatus
<1>3. \/ UNCHANGED <<member, overtaken>>
      \/ /\ member' = [member EXCEPT ![x].status = clerk[c].write]
         /\ overtaken' = IF member[x].deleted THEN overtaken \cup {x} ELSE overtaken
  BY DEF CommitStatus
<1> HIDE DEF x
<1>4. AccountTypeOK'
  BY <1>1, <1>2, <1>3, EndsKeepLoads DEF AccountTypeOK
<1>5. /\ \A y \in Rows : member'[y].deleted = member[y].deleted
      /\ \A y \in Rows : y # x => member'[y] = member[y]
      /\ overtaken \subseteq overtaken'
  BY <1>1, <1>3 DEF AccountTypeOK
<1>6. OneLinkPerPair' /\ PositionsLive'
  BY <1>2, <1>5 DEF OneLinkPerPair, PositionsLive, AccountTypeOK, Rows
<1>7. DeletedIsDisabled'
  BY <1>1, <1>2, <1>3, <1>5 DEF DeletedIsDisabled, EndStatus, Kind, AccountTypeOK
<1> QED
  BY <1>2, <1>4, <1>6, <1>7, EndsKeepLoads

\* The statement over users touches no held row and nothing that is deleted.
LEMMA BatchStatusInv ==
    ASSUME AccountInv, NEW users \in SUBSET Grantees, NEW s \in {"active", "disabled"},
           BatchStatus(users, s)
    PROVE  AccountInv'
<1> USE DEF AccountInv, LinksAreSound
<1>1. UNCHANGED <<table, links, clerk, overtaken>>
  BY DEF BatchStatus
<1>2. \A y \in Rows : /\ member'[y].deleted = member[y].deleted
                      /\ member[y].deleted => member'[y] = member[y]
  BY DEF BatchStatus, AccountTypeOK
<1>3. AccountTypeOK'
  BY <1>1 DEF AccountTypeOK, BatchStatus, Statuses
<1>4. OneLinkPerPair' /\ PositionsLive'
  BY <1>1, <1>2 DEF OneLinkPerPair, PositionsLive, AccountTypeOK, Rows
<1>5. DeletedIsDisabled'
  BY <1>1, <1>2 DEF DeletedIsDisabled, EndStatus, Kind
<1>6. RulesLoadedActive'
  BY <1>1 DEF RulesLoadedActive, Kind
<1> QED
  BY <1>3, <1>4, <1>5, <1>6

\* Row x gets the status of a deleted row; the links of a position that is
\* deleted under them are overtaken.
LEMMA DeletesInv ==
    ASSUME AccountInv, NEW x \in Rows, Deletes(x), UNCHANGED <<table, links>>,
           NEW pairs \in SUBSET (Grantees \X Held),
           overtaken' = (overtaken \ {x}) \cup pairs,
           Kind(x) = "position" => \A l \in links : l.held = x => <<l.holder, l.held>> \in pairs,
           table = "user_position" => Kind(x) \in {"user", "position"}
    PROVE  /\ (clerk' \in [Clerks -> Requests \cup {NoRequest}]) => AccountTypeOK'
           /\ OneLinkPerPair' /\ PositionsLive' /\ DeletedIsDisabled'
<1> USE DEF AccountInv, LinksAreSound
<1>1. EndStatus(x) \in Statuses
  BY KindsInv
<1>2. /\ member'[x] = [status |-> EndStatus(x), deleted |-> Kind(x) # "permission"]
      /\ \A y \in Rows : y # x => member'[y] = member[y]
      /\ member' \in [Rows -> [status : Statuses, deleted : BOOLEAN]]
  BY <1>1 DEF Deletes, AccountTypeOK
<1>3. \A a \in Grantees, b \in Held : <<a, b>> \in overtaken => <<a, b>> \in overtaken'
  BY AccountsAssumption DEF Rows
<1>4. \A l \in links : l.holder \in Grantees /\ l.held \in Held
  BY DEF AccountTypeOK
<1>5. (clerk' \in [Clerks -> Requests \cup {NoRequest}]) => AccountTypeOK'
  BY <1>2 DEF AccountTypeOK
<1>6. OneLinkPerPair'
  BY <1>3, <1>4 DEF OneLinkPerPair
<1>7. PositionsLive'
  <2> SUFFICES ASSUME table = "user_position", NEW l \in links, member'[l.held].deleted
               PROVE  <<l.holder, l.held>> \in overtaken'
    BY DEF PositionsLive
  <2>1. l.held \in Rows
    BY <1>4 DEF Rows
  <2>2. CASE l.held = x
    BY <1>4, <2>2, KindsInv
  <2>3. CASE l.held # x
    BY <1>2, <1>3, <1>4, <2>1, <2>3 DEF PositionsLive
  <2> QED
    BY <2>2, <2>3
<1>8. DeletedIsDisabled'
  <2> SUFFICES ASSUME NEW y \in Rows, member'[y].deleted
               PROVE  y \in overtaken' \/ member'[y].status = EndStatus(y)
    BY DEF DeletedIsDisabled, EndStatus, Kind
  <2> QED
    BY <1>2 DEF DeletedIsDisabled
<1> QED
  BY <1>5, <1>6, <1>7, <1>8

LEMMA DeletionsInv ==
    ASSUME AccountInv
    PROVE  /\ \A x \in Rows : DeleteDirectly(x) => AccountInv'
           /\ \A c \in Clerks : CommitDelete(c) => AccountInv'
<1> USE DEF AccountInv, LinksAreSound
<1>1. ASSUME NEW x \in Rows, DeleteDirectly(x) PROVE AccountInv'
  <2>1. UNCHANGED <<table, links, clerk>> /\ Deletes(x)
    BY <1>1 DEF DeleteDirectly
  <2>2. Kind(x) # "position" /\ overtaken' = (overtaken \ {x}) \cup {}
    BY <1>1 DEF DeleteDirectly
  <2>3. table = "user_position" => Kind(x) \in {"user", "position"}
    BY KindsInv DEF Rows
  <2> DEFINE none == {}
  <2>4. none \in SUBSET (Grantees \X Held) /\ overtaken' = (overtaken \ {x}) \cup none
    BY <2>2
  <2> HIDE DEF none
  <2>5. clerk' \in [Clerks -> Requests \cup {NoRequest}]
    BY <2>1 DEF AccountTypeOK
  <2>6. AccountTypeOK' /\ OneLinkPerPair' /\ PositionsLive' /\ DeletedIsDisabled'
    BY <2>1, <2>2, <2>3, <2>4, <2>5, DeletesInv
  <2>7. RulesLoadedActive'
    BY <2>1 DEF RulesLoadedActive, Kind
  <2> QED
    BY <2>6, <2>7
<1>2. ASSUME NEW c \in Clerks, CommitDelete(c) PROVE AccountInv'
  <2> DEFINE x == clerk[c].of
  <2>1. x \in Rows
    BY <1>2, RequestsHold DEF CommitDelete
  <2>2. /\ UNCHANGED <<table, links>> /\ Deletes(x)
        /\ clerk' = [clerk EXCEPT ![c] = NoRequest]
        /\ overtaken' = (overtaken \ {x}) \cup PairsOf(x)
    BY <1>2 DEF CommitDelete
  <2> HIDE DEF x
  <2>3. /\ PairsOf(x) \in SUBSET (Grantees \X Held)
        /\ Kind(x) = "position" => \A l \in links : l.held = x => <<l.holder, l.held>> \in PairsOf(x)
    BY DEF PairsOf, AccountTypeOK
  <2>4. table = "user_position" => Kind(x) \in {"user", "position"}
    BY <2>1, KindsInv DEF Rows
  <2>5. AccountTypeOK' /\ OneLinkPerPair' /\ PositionsLive' /\ DeletedIsDisabled'
    BY <2>1, <2>2, <2>3, <2>4, DeletesInv, EndsKeepLoads
  <2> QED
    BY <2>2, <2>5, EndsKeepLoads
<1> QED
  BY <1>1, <1>2

\* A new link is the only one of its pair, or the pair is overtaken.
LEMMA CommitAssignInv ==
    ASSUME AccountInv, NEW c \in Clerks, CommitAssign(c)
    PROVE  AccountInv'
<1> USE DEF AccountInv, LinksAreSound
<1> DEFINE a == clerk[c].holder
           b == clerk[c].held
           new == [id |-> FreshLink, holder |-> a, held |-> b, primary |-> clerk[c].primary]
<1>1. a \in Grantees /\ b \in Held /\ clerk[c].primary \in BOOLEAN
  BY RequestsHold DEF CommitAssign
<1>2. FreshLink \in 1..MaxLinks
  BY DEF CommitAssign, FreshLink
<1>3. /\ links' = links \cup {new}
      /\ overtaken' = IF LinksOf(a, b) # {} \/ (Kind(b) = "position" /\ member[b].deleted)
                      THEN overtaken \cup {<<a, b>>} ELSE overtaken
      /\ clerk' = [clerk EXCEPT ![c] = NoRequest]
      /\ UNCHANGED <<table, member>>
  BY DEF CommitAssign
<1>4. /\ new \in [id : 1..MaxLinks, holder : Grantees, held : Held, primary : BOOLEAN]
      /\ new.holder = a /\ new.held = b
  BY <1>1, <1>2
<1> HIDE DEF a, b, new
<1>5. AccountTypeOK'
  BY <1>1, <1>3, <1>4, EndsKeepLoads DEF AccountTypeOK
<1>6. overtaken \subseteq overtaken'
  BY <1>3
<1>7. OneLinkPerPair'
  <2> SUFFICES ASSUME NEW k \in links', NEW l \in links', k # l, k.holder = l.holder, k.held = l.held
               PROVE  <<l.holder, l.held>> \in overtaken'
    BY DEF OneLinkPerPair
  <2>1. CASE k \in links /\ l \in links
    BY <2>1, <1>6 DEF OneLinkPerPair
  <2>2. CASE k = new \/ l = new
    <3>1. l.holder = a /\ l.held = b /\ LinksOf(a, b) # {}
      BY <1>3, <1>4, <2>2 DEF LinksOf
    <3> QED
      BY <1>3, <3>1
  <2> QED
    BY <1>3, <2>1, <2>2
<1>8. PositionsLive'
  <2> SUFFICES ASSUME table = "user_position", NEW l \in links', member[l.held].deleted
               PROVE  <<l.holder, l.held>> \in overtaken'
    BY <1>3 DEF PositionsLive
  <2>1. CASE l \in links
    BY <2>1, <1>6 DEF PositionsLive
  <2>2. CASE l = new
    BY <1>1, <1>3, <1>4, <2>2, KindsInv DEF Rows
  <2> QED
    BY <1>3, <2>1, <2>2
<1>9. DeletedIsDisabled'
  BY <1>3, <1>6 DEF DeletedIsDisabled, EndStatus, Kind
<1> QED
  BY <1>3, <1>5, <1>7, <1>8, <1>9, EndsKeepLoads

\* Taking links away: a pair is no longer overtaken when at most one link of it
\* is left.
LEMMA LessLinksInv ==
    ASSUME AccountInv, NEW a \in Grantees, NEW b \in Held,
           links' \subseteq links, overtaken' \in {overtaken, overtaken \ {<<a, b>>}},
           overtaken' = overtaken \/ \A j, k \in links' \cap LinksOf(a, b) : j = k,
           table = "user_position" => overtaken' = overtaken \/ links' \cap LinksOf(a, b) = {},
           UNCHANGED <<table, member, clerk>>
    PROVE  AccountInv'
<1> USE DEF AccountInv, LinksAreSound
<1>1. AccountTypeOK'
  BY DEF AccountTypeOK
<1>2. \A l \in links' : l \in LinksOf(l.holder, l.held)
  BY DEF LinksOf
<1>3. \A l \in links' : <<l.holder, l.held>> = <<a, b>> => l.holder = a /\ l.held = b
  OBVIOUS
<1>4. OneLinkPerPair'
  <2> SUFFICES ASSUME NEW k \in links', NEW l \in links', k # l, k.holder = l.holder, k.held = l.held
               PROVE  <<l.holder, l.held>> \in overtaken'
    BY DEF OneLinkPerPair
  <2>1. <<l.holder, l.held>> \in overtaken
    BY DEF OneLinkPerPair
  <2>2. CASE overtaken' = overtaken
    BY <2>1, <2>2
  <2>3. CASE \A i, j \in links' \cap LinksOf(a, b) : i = j
    <3>1. ~(l.holder = a /\ l.held = b)
      BY <1>2, <2>3
    <3> QED
      BY <1>3, <2>1, <3>1
  <2> QED
    BY <2>2, <2>3
<1>5. PositionsLive'
  <2> SUFFICES ASSUME table = "user_position", NEW l \in links', member[l.held].deleted
               PROVE  <<l.holder, l.held>> \in overtaken'
    BY DEF PositionsLive
  <2>1. <<l.holder, l.held>> \in overtaken
    BY DEF PositionsLive
  <2>2. CASE overtaken' = overtaken
    BY <2>1, <2>2
  <2>3. CASE links' \cap LinksOf(a, b) = {}
    <3>1. ~(l.holder = a /\ l.held = b)
      BY <1>2, <2>3
    <3> QED
      BY <1>3, <2>1, <3>1
  <2> QED
    BY <2>2, <2>3
<1>6. DeletedIsDisabled'
  BY AccountsAssumption DEF DeletedIsDisabled, EndStatus, Kind, Rows
<1>7. RulesLoadedActive'
  BY DEF RulesLoadedActive, Kind
<1> QED
  BY <1>1, <1>4, <1>5, <1>6, <1>7

LEMMA LinkStepsInv ==
    ASSUME AccountInv
    PROVE  /\ \A a \in Grantees, b \in Held : Revoke(a, b) \/ SetPrimary(a, b) => AccountInv'
           /\ \A l \in links : RevokeOne(l) => AccountInv'
<1> USE DEF AccountInv, LinksAreSound
<1>1. ASSUME NEW a \in Grantees, NEW b \in Held, Revoke(a, b) PROVE AccountInv'
  <2>1. links' = links \ LinksOf(a, b) /\ overtaken' = overtaken \ {<<a, b>>} /\ UNCHANGED <<table, member, clerk>>
    BY <1>1 DEF Revoke
  <2>2. links' \subseteq links /\ links' \cap LinksOf(a, b) = {}
    BY <2>1
  <2> QED
    BY <2>1, <2>2, LessLinksInv
<1>2. ASSUME NEW l \in links, RevokeOne(l) PROVE AccountInv'
  <2>1. l.holder \in Grantees /\ l.held \in Held
    BY DEF AccountTypeOK
  <2>2. /\ table # "user_position" /\ links' = links \ {l} /\ UNCHANGED <<table, member, clerk>>
        /\ overtaken' = IF \A j, k \in LinksOf(l.holder, l.held) \ {l} : j = k
                        THEN overtaken \ {<<l.holder, l.held>>} ELSE overtaken
    BY <1>2 DEF RevokeOne
  <2>3. links' \subseteq links /\ links' \cap LinksOf(l.holder, l.held) = LinksOf(l.holder, l.held) \ {l}
    BY <2>2 DEF LinksOf
  <2>4. /\ overtaken' \in {overtaken, overtaken \ {<<l.holder, l.held>>}}
        /\ overtaken' = overtaken \/ \A j, k \in links' \cap LinksOf(l.holder, l.held) : j = k
    BY <2>2, <2>3
  <2> QED
    BY <2>1, <2>2, <2>3, <2>4, LessLinksInv
<1>3. ASSUME NEW a \in Grantees, NEW b \in Held, SetPrimary(a, b) PROVE AccountInv'
  <2> DEFINE Marked(l) == IF l.holder = a THEN [l EXCEPT !.primary = (l.held = b)] ELSE l
  <2>1. links' = {Marked(l) : l \in links} /\ UNCHANGED <<table, member, clerk, overtaken>>
    BY <1>3 DEF SetPrimary
  <2>2. \A l \in links : /\ Marked(l) \in [id : 1..MaxLinks, holder : Grantees, held : Held, primary : BOOLEAN]
                         /\ Marked(l).holder = l.holder /\ Marked(l).held = l.held
    BY DEF AccountTypeOK
  <2> HIDE DEF Marked
  <2>3. AccountTypeOK'
    BY <2>1, <2>2 DEF AccountTypeOK
  <2>4. OneLinkPerPair'
    BY <2>1, <2>2 DEF OneLinkPerPair
  <2>5. PositionsLive'
    BY <2>1, <2>2 DEF PositionsLive
  <2>6. DeletedIsDisabled' /\ RulesLoadedActive'
    BY <2>1 DEF DeletedIsDisabled, RulesLoadedActive, EndStatus, Kind
  <2> QED
    BY <2>3, <2>4, <2>5, <2>6
<1> QED
  BY <1>1, <1>2, <1>3

LEMMA AccountsStep == AccountInv /\ [AccountNext]_accountVars => AccountInv'
<1> SUFFICES ASSUME AccountInv, [AccountNext]_accountVars PROVE AccountInv'
  OBVIOUS
<1>1. CASE StatusNext
  <2>1. ASSUME NEW c \in Clerks, NEW x \in Rows, LoadForDelete(c, x) PROVE AccountInv'
    BY <2>1, LoadsInv
  <2>2. ASSUME NEW c \in Clerks, NEW x \in Rows, NEW s, LoadForStatus(c, x, s) PROVE AccountInv'
    BY <2>2, LoadsInv
  <2>3. ASSUME NEW c \in Clerks, Withdraw(c) PROVE AccountInv'
    BY <2>3, LoadsInv
  <2>4. ASSUME NEW c \in Clerks, CommitStatus(c) PROVE AccountInv'
    BY <2>4, CommitStatusInv
  <2>5. ASSUME NEW c \in Clerks, CommitDelete(c) PROVE AccountInv'
    BY <2>5, DeletionsInv
  <2>6. ASSUME NEW x \in Rows, DeleteDirectly(x) PROVE AccountInv'
    BY <2>6, DeletionsInv
  <2>7. ASSUME NEW users \in SUBSET Grantees, NEW s \in {"active", "disabled"}, BatchStatus(users, s)
        PROVE  AccountInv'
    BY <2>7, BatchStatusInv
  <2> QED
    BY <1>1, <2>1, <2>2, <2>3, <2>4, <2>5, <2>6, <2>7 DEF StatusNext
<1>2. CASE LinkNext
  <2>1. ASSUME NEW c \in Clerks, CommitAssign(c) PROVE AccountInv'
    BY <2>1, CommitAssignInv
  <2>2. ASSUME NEW c \in Clerks, NEW a \in Grantees, NEW b \in Held, NEW p \in BOOLEAN,
               LoadForAssign(c, a, b, p)
        PROVE  AccountInv'
    BY <2>2, LoadsInv
  <2> QED
    BY <1>2, <2>1, <2>2, LinkStepsInv DEF LinkNext
<1>3. CASE UNCHANGED accountVars
  BY <1>3 DEF accountVars, AccountInv, LinksAreSound, AccountTypeOK, OneLinkPerPair, PositionsLive,
              DeletedIsDisabled, RulesLoadedActive, EndStatus, Kind
<1> QED
  BY <1>1, <1>2, <1>3 DEF AccountNext

-----------------------------------------------------------------------------
(* Disabled rules *)

LEMMA RulesStayDisabled ==
    ASSUME AccountInv, AccountNext, NEW x \in Rows, Kind(x) = "rule", member[x].status = "disabled"
    PROVE  member'[x].status = "disabled"
<1> USE DEF AccountInv, LinksAreSound
<1>1. ASSUME NEW c \in Clerks, CommitStatus(c) PROVE member'[x].status = "disabled"
  <2>1. clerk[c].of \in Rows
    BY <1>1, RequestsHold DEF CommitStatus
  <2>2. CASE clerk[c].of = x
    BY <1>1, <2>1, <2>2 DEF CommitStatus, RulesLoadedActive, AccountTypeOK
  <2>3. CASE clerk[c].of # x
    BY <1>1, <2>1, <2>3 DEF CommitStatus, AccountTypeOK
  <2> QED
    BY <2>2, <2>3
<1>2. ASSUME NEW y \in Rows, Deletes(y) PROVE member'[x].status = "disabled"
  BY <1>2, KindsInv DEF Deletes, AccountTypeOK
<1>3. ASSUME NEW c \in Clerks, CommitDelete(c) PROVE member'[x].status = "disabled"
  <2>1. clerk[c].of \in Rows /\ Deletes(clerk[c].of)
    BY <1>3, RequestsHold DEF CommitDelete
  <2> QED
    BY <1>2, <2>1
<1>4. ASSUME NEW users \in SUBSET Grantees, NEW s \in {"active", "disabled"}, BatchStatus(users, s)
      PROVE  member'[x].status = "disabled"
  <2>1. x \notin users
    BY <1>4, KindsInv DEF BatchStatus
  <2> QED
    BY <1>4, <2>1 DEF BatchStatus
<1>5. CASE UNCHANGED member
  BY <1>5
<1>6. \/ \E c \in Clerks : CommitStatus(c) \/ CommitDelete(c)
      \/ \E y \in Rows : DeleteDirectly(y)
      \/ \E users \in SUBSET Grantees, s \in {"active", "disabled"} : BatchStatus(users, s)
      \/ UNCHANGED member
  BY DEF AccountNext, StatusNext, LinkNext, LoadForStatus, LoadForDelete, LoadForAssign, Asks, Withdraw,
         CommitAssign, Revoke, RevokeOne, SetPrimary
<1> QED
  BY <1>1, <1>2, <1>3, <1>4, <1>5, <1>6 DEF DeleteDirectly

-----------------------------------------------------------------------------

\* The services of IAM, whatever their requests overlap with: a pair is linked
\* once and a deleted row keeps the status of deleted ones except where a
\* request committed an out-of-date load, and a disabled data permission rule
\* never applies again.
THEOREM AccountsHold == AccountSpec => AccountsAreSound
<1>1. AccountInv => LinksAreSound
  BY DEF AccountInv
<1>2. AccountInv /\ [AccountNext]_accountVars
          => [\A x \in Rows : Kind(x) = "rule" /\ member[x].status = "disabled"
                                => member'[x].status = "disabled"]_accountVars
  BY RulesStayDisabled
<1>3. AccountSpec => []AccountInv
  BY AccountsInitially, AccountsStep, PTL DEF AccountSpec
<1>4. AccountSpec => []LinksAreSound
  BY <1>1, <1>3, PTL
<1>5. AccountSpec => DisabledRulesStay
  BY <1>2, <1>3, PTL DEF AccountSpec, DisabledRulesStay
<1> QED
  BY <1>4, <1>5 DEF AccountsAreSound

-----------------------------------------------------------------------------
(* The tree of organisations *)

\* A parent column and a path column that were written together.
EndsIn(path, parent) ==
    IF parent = NoOrg THEN path = <<>> ELSE path # <<>> /\ path[Len(path)] = parent

OrgRow == [state : {"none", "live", "deleted"}, parent : Orgs \cup {NoOrg},
           path : Seq(Orgs), level : Nat]

OrgChange == [kind : {"create", "move", "delete"}, org : Orgs, parent : Orgs \cup {NoOrg},
              path : Seq(Orgs), level : Nat, relevel : BOOLEAN, fresh : BOOLEAN]

OrgTypeOK ==
    /\ org \in [Orgs -> OrgRow]
    /\ change \in [Admins -> OrgChange \cup {NoChange}]
    /\ orgRaced \subseteq Orgs /\ displaced \subseteq Orgs

\* Whose row exists, so that it can be somebody's parent.
KnownOrg(p) == p = NoOrg \/ org[p].state # "none"

\* A row that was never created has the columns of none; the parent of a row
\* exists, and its path ends in it.
RowSound(o) ==
    /\ org[o].state = "none" => org[o] = Absent
    /\ KnownOrg(org[o].parent)
    /\ EndsIn(org[o].path, org[o].parent)

\* What holds of a request however late it commits: c is what it carries.
ChangeSound(c) ==
    /\ KnownOrg(c.parent) /\ c.parent # c.org
    /\ EndsIn(c.path, c.parent)
    /\ (c.kind = "create") = (org[c.org].state = "none")

\* Two requests never create one row.
CreatorsAlone ==
    \A a, b \in Admins :
        /\ a # b /\ change[a] # NoChange /\ change[b] # NoChange
        /\ change[a].kind = "create"
        => change[b].org # change[a].org

\* What a request has seen and nobody has changed since.
ChangeFresh(c) ==
    /\ c.kind = "delete" => Children(c.org) = {}
    /\ c.kind # "delete" =>
          /\ c.parent = NoOrg \/ Live(c.parent)
          /\ c.path = PathUnder(c.parent)
          /\ c.level = LevelUnder(c.parent)
          /\ c.relevel = (c.level # org[c.org].level)

\* What the rows owe to those above them.
Follows(o) ==
    /\ o \notin orgRaced \cup displaced /\ Live(o) =>
          /\ org[o].path = PathUnder(org[o].parent)
          /\ org[o].level = LevelUnder(org[o].parent)
    /\ o \notin orgRaced /\ Live(o) /\ org[o].parent # NoOrg =>
          Live(org[o].parent) \/ org[o].parent \in orgRaced

OrgInv ==
    /\ OrgTypeOK
    /\ \A o \in Orgs : RowSound(o)
    /\ \A a \in Admins : change[a] # NoChange =>
          /\ ChangeSound(change[a])
          /\ change[a].fresh => ChangeFresh(change[a])
    /\ CreatorsAlone
    /\ \A o \in Orgs : Follows(o)

LEMMA OrgsInitially == OrgInit => OrgInv
<1> SUFFICES ASSUME OrgInit PROVE OrgInv
  OBVIOUS
<1>1. Absent \in OrgRow
  BY DEF Absent, OrgRow
<1>2. OrgTypeOK
  BY <1>1 DEF OrgInit, OrgTypeOK
<1>3. \A o \in Orgs : org[o] = Absent
  BY DEF OrgInit
<1>4. Absent.state = "none" /\ Absent.parent = NoOrg /\ Absent.path = <<>>
  BY DEF Absent
<1>5. \A o \in Orgs : RowSound(o)
  BY <1>3, <1>4 DEF RowSound, KnownOrg, EndsIn
<1>6. \A o \in Orgs : Follows(o)
  BY <1>3, <1>4 DEF Follows, Live
<1>7. \A a \in Admins : change[a] = NoChange
  BY DEF OrgInit
<1> QED
  BY <1>2, <1>5, <1>6, <1>7 DEF OrgInv, CreatorsAlone

\* The columns a request takes from the row it puts another one under.
LEMMA Under ==
    ASSUME OrgInv, NEW p \in Orgs \cup {NoOrg}
    PROVE  /\ PathUnder(p) \in Seq(Orgs)
           /\ LevelUnder(p) \in Nat
           /\ EndsIn(PathUnder(p), p)
<1>1. CASE p = NoOrg
  BY <1>1 DEF PathUnder, LevelUnder, EndsIn
<1>2. CASE p # NoOrg
  <2>1. org[p].path \in Seq(Orgs) /\ org[p].level \in Nat /\ p \in Orgs
    BY <1>2 DEF OrgInv, OrgTypeOK, OrgRow
  <2>2. PathUnder(p) = Append(org[p].path, p) /\ LevelUnder(p) = org[p].level + 1
    BY <1>2 DEF PathUnder, LevelUnder
  <2>3. PICK s \in Seq(Orgs) : s = org[p].path
    BY <2>1
  <2>4. /\ Append(s, p) \in Seq(Orgs) /\ Append(s, p) # <<>>
        /\ Append(s, p)[Len(Append(s, p))] = p
    BY <2>1
  <2> QED
    BY <1>2, <2>1, <2>2, <2>3, <2>4 DEF EndsIn
<1> QED
  BY <1>1, <1>2

\* A request that is sent has seen what it goes by.
LEMMA WaitingKeeps ==
    ASSUME OrgInv, NEW a \in Admins, NEW o \in Orgs, NEW p \in Orgs \cup {NoOrg},
           NEW kind \in {"create", "move", "delete"},
           Waiting(a, kind, o, p),
           p # o, p = NoOrg \/ Live(p),
           kind = "create" => o \in FreshIds,
           kind # "create" => Live(o),
           kind = "delete" => Children(o) = {}
    PROVE  OrgInv'
<1> DEFINE c == [kind |-> kind, org |-> o, parent |-> p, path |-> PathUnder(p),
                 level |-> LevelUnder(p), relevel |-> LevelUnder(p) # org[o].level,
                 fresh |-> TRUE]
<1>1. change' = [change EXCEPT ![a] = c] /\ UNCHANGED <<org, orgRaced, displaced>>
  BY DEF Waiting
<1>2. c \in OrgChange
  <2>1. PICK l \in BOOLEAN : l = (LevelUnder(p) # org[o].level)
    OBVIOUS
  <2>2. c = [kind |-> kind, org |-> o, parent |-> p, path |-> PathUnder(p),
             level |-> LevelUnder(p), relevel |-> l, fresh |-> TRUE]
    BY <2>1
  <2> HIDE DEF c
  <2> QED
    BY <2>2, Under DEF OrgChange
<1>3. /\ c.kind = kind /\ c.org = o /\ c.parent = p /\ c.path = PathUnder(p)
      /\ c.level = LevelUnder(p) /\ c.fresh
      /\ c.relevel = (LevelUnder(p) # org[o].level)
  OBVIOUS
<1> HIDE DEF c
<1>4. change' \in [Admins -> OrgChange \cup {NoChange}]
  BY <1>1, <1>2 DEF OrgInv, OrgTypeOK
<1>5. \A b \in Admins : change'[b] = IF b = a THEN c ELSE change[b]
  BY <1>1 DEF OrgInv, OrgTypeOK
<1>6. (kind = "create") = (org[o].state = "none")
  <2>1. o \in FreshIds => org[o].state = "none"
    BY DEF FreshIds, Absent
  <2> QED
    BY <2>1 DEF Live
<1>7. ChangeSound(c)
  BY <1>3, <1>6, Under DEF ChangeSound, KnownOrg, Live
<1>8. ChangeFresh(c)
  BY <1>3 DEF ChangeFresh
<1>9. \A b \in Admins : change'[b] # NoChange =>
          /\ ChangeSound(change'[b])
          /\ change'[b].fresh => ChangeFresh(change'[b])
  BY <1>5, <1>7, <1>8 DEF OrgInv
<1>10. \A b \in Admins : change'[b] # NoChange =>
          /\ ChangeSound(change[b])'
          /\ change'[b].fresh => ChangeFresh(change[b])'
  BY <1>1, <1>9 DEF ChangeSound, ChangeFresh, KnownOrg, Children, Live, PathUnder, LevelUnder
<1>11. CreatorsAlone'
  <2> SUFFICES ASSUME NEW x \in Admins, NEW y \in Admins, x # y,
                      change'[x] # NoChange, change'[y] # NoChange, change'[x].kind = "create"
               PROVE  change'[y].org # change'[x].org
    BY DEF CreatorsAlone
  <2>1. CASE x # a /\ y # a
    BY <1>5, <2>1 DEF OrgInv, CreatorsAlone
  <2>2. CASE x = a
    <3>1. kind = "create" /\ o \in FreshIds
      BY <1>3, <1>5, <2>2
    <3> QED
      BY <1>3, <1>5, <2>2, <3>1 DEF FreshIds
  <2>3. CASE y = a
    <3>1. x # a /\ change'[x] = change[x] /\ change[x] # NoChange
      BY <1>5, <2>3
    <3>2. ChangeSound(change[x]) /\ change[x].kind = "create"
      BY <3>1 DEF OrgInv
    <3>3. org[change[x].org].state = "none"
      BY <3>2 DEF ChangeSound
    <3>4. kind = "create" => change[x].org # o
      BY <3>1 DEF FreshIds
    <3>5. kind # "create" => change[x].org # o
      BY <3>3 DEF Live
    <3> QED
      BY <1>3, <1>5, <2>3, <3>1, <3>4, <3>5
  <2> QED
    BY <2>1, <2>2, <2>3
<1>12. \A x \in Orgs : RowSound(x)' /\ Follows(x)'
  BY <1>1 DEF OrgInv, RowSound, KnownOrg, Follows, Live, PathUnder, LevelUnder
<1> QED
  BY <1>1, <1>4, <1>10, <1>11, <1>12 DEF OrgInv, OrgTypeOK

\* What a request that commits is, and what it leaves of the rows.
CommitFacts(a) ==
    LET c == change[a] IN
    /\ c.org \in Orgs /\ c.parent \in Orgs \cup {NoOrg}
    /\ ChangeSound(c)
    /\ c.fresh => ChangeFresh(c)
    /\ org' = [org EXCEPT ![c.org] = Placed(c)]
    /\ orgRaced' = IF c.fresh THEN orgRaced ELSE orgRaced \cup {c.org}
    /\ displaced' = IF c.kind = "move" THEN (displaced \ {c.org}) \cup Children(c.org)
                                       ELSE displaced

\* The row that a request places, column by column.
PlacedAs(c) ==
    LET r == org'[c.org]  q == org[c.org] IN
    /\ r \in OrgRow
    /\ \A o \in Orgs : o # c.org => org'[o] = org[o]
    /\ c.kind = "create" => /\ r.state = "live" /\ r.parent = c.parent
                            /\ r.path = c.path /\ r.level = c.level
    /\ c.kind = "move" => /\ r.state = q.state /\ r.parent = c.parent
                          /\ r.path = c.path
                          /\ r.level = IF c.relevel THEN c.level ELSE q.level
    /\ c.kind = "delete" => /\ r.state = "deleted" /\ r.parent = q.parent
                            /\ r.path = q.path /\ r.level = q.level

LEMMA CommitPlaces ==
    ASSUME OrgInv, NEW a \in Admins, CommitChange(a)
    PROVE  /\ change[a] \in OrgChange
           /\ CommitFacts(a)
           /\ PlacedAs(change[a])
<1> DEFINE c == change[a]
<1>1. c \in OrgChange /\ c # NoChange
  BY DEF OrgInv, OrgTypeOK, CommitChange
<1>2. CommitFacts(a)
  BY <1>1 DEF CommitChange, CommitFacts, OrgInv, OrgChange
<1>3. /\ c.org \in Orgs /\ c.parent \in Orgs \cup {NoOrg} /\ c.path \in Seq(Orgs)
      /\ c.level \in Nat /\ c.relevel \in BOOLEAN
      /\ c.kind \in {"create", "move", "delete"}
  BY <1>1 DEF OrgChange
<1>4. /\ org \in [Orgs -> OrgRow] /\ org[c.org] \in OrgRow
      /\ org' = [org EXCEPT ![c.org] = Placed(c)]
  BY <1>2, <1>3 DEF OrgInv, OrgTypeOK, CommitFacts
<1>5. org'[c.org] = Placed(c) /\ \A o \in Orgs : o # c.org => org'[o] = org[o]
  BY <1>3, <1>4
<1> HIDE DEF c
<1>6. CASE c.kind = "create"
  <2>1. Placed(c) = [state |-> "live", parent |-> c.parent, path |-> c.path, level |-> c.level]
    BY <1>6 DEF Placed
  <2> QED
    BY <1>1, <1>2, <1>3, <1>5, <1>6, <2>1 DEF PlacedAs, OrgRow, c
<1>7. CASE c.kind = "move"
  <2>1. Placed(c) = [state |-> org[c.org].state, parent |-> c.parent, path |-> c.path,
                     level |-> IF c.relevel THEN c.level ELSE org[c.org].level]
    BY <1>7 DEF Placed
  <2>2. Placed(c) \in OrgRow
    BY <1>3, <1>4, <2>1 DEF OrgRow
  <2> QED
    BY <1>1, <1>2, <1>5, <1>7, <2>1, <2>2 DEF PlacedAs, c
<1>8. CASE c.kind = "delete"
  <2>1. Placed(c) = [org[c.org] EXCEPT !.state = "deleted"]
    BY <1>8 DEF Placed
  <2>2. /\ Placed(c) \in OrgRow
        /\ Placed(c).state = "deleted" /\ Placed(c).parent = org[c.org].parent
        /\ Placed(c).path = org[c.org].path /\ Placed(c).level = org[c.org].level
    BY <1>4, <2>1 DEF OrgRow
  <2> QED
    BY <1>1, <1>2, <1>5, <1>8, <2>2 DEF PlacedAs, c
<1> QED
  BY <1>3, <1>6, <1>7, <1>8

\* The columns below a row are those of before, unless the row is the one that
\* is placed as a new or a moved one.
LEMMA UnderStays ==
    ASSUME OrgInv, NEW a \in Admins, CommitChange(a), NEW p \in Orgs \cup {NoOrg},
           p # change[a].org \/ change[a].kind = "delete"
    PROVE  PathUnder(p)' = PathUnder(p) /\ LevelUnder(p)' = LevelUnder(p)
<1>1. PlacedAs(change[a])
  BY CommitPlaces
<1>2. p # NoOrg => org'[p].path = org[p].path /\ org'[p].level = org[p].level
  BY <1>1 DEF PlacedAs
<1> QED
  BY <1>2 DEF PathUnder, LevelUnder

LEMMA CommitRowsSound ==
    ASSUME OrgInv, NEW a \in Admins, CommitChange(a), NEW o \in Orgs
    PROVE  RowSound(o)' /\ (KnownOrg(o) => KnownOrg(o)')
<1> DEFINE c == change[a]
<1>1. c \in OrgChange /\ CommitFacts(a) /\ PlacedAs(c) /\ ChangeSound(c)
  BY CommitPlaces DEF CommitFacts
<1>2. RowSound(o) /\ c.kind \in {"create", "move", "delete"} /\ c.org \in Orgs
      /\ c.parent \in Orgs \cup {NoOrg} /\ RowSound(c.org)
  BY <1>1 DEF OrgInv, OrgChange
<1> HIDE DEF c
<1>3. org'[c.org].state # "none" /\ \A q \in Orgs : q # c.org => org'[q] = org[q]
  BY <1>1, <1>2 DEF PlacedAs, ChangeSound
<1>4. \A q \in Orgs \cup {NoOrg} : KnownOrg(q) => KnownOrg(q)'
  BY <1>3 DEF KnownOrg
<1>5. RowSound(o)'
  <2>1. CASE o # c.org
    <3>1. org'[o] = org[o] /\ org[o].parent \in Orgs \cup {NoOrg}
      BY <1>3, <2>1 DEF OrgInv, OrgTypeOK, OrgRow
    <3>2. KnownOrg(org[o].parent)'
      <4>1. PICK p \in Orgs \cup {NoOrg} : p = org[o].parent
        BY <3>1
      <4>2. KnownOrg(p) => (p = NoOrg \/ org'[p].state # "none")
        BY <1>4 DEF KnownOrg
      <4> QED
        BY <1>2, <3>1, <4>1, <4>2 DEF KnownOrg, RowSound
    <3> QED
      BY <1>2, <3>1, <3>2 DEF RowSound
  <2>2. CASE o = c.org
    <3>1. PICK p \in Orgs \cup {NoOrg} : p = org'[o].parent
      BY <1>1, <2>2 DEF PlacedAs, OrgRow
    <3>2. KnownOrg(p)
      BY <1>1, <1>2, <2>2, <3>1 DEF PlacedAs, ChangeSound, RowSound
    <3>3. p = NoOrg \/ org'[p].state # "none"
      BY <1>4, <3>2 DEF KnownOrg
    <3>4. EndsIn(org'[o].path, org'[o].parent)
      BY <1>1, <1>2, <2>2 DEF PlacedAs, ChangeSound, RowSound
    <3> QED
      BY <1>3, <2>2, <3>1, <3>3, <3>4 DEF RowSound, KnownOrg
  <2> QED
    BY <2>1, <2>2
<1> QED
  BY <1>4, <1>5

\* A row that follows its parent does so after the commit of a request, or its
\* parent moved, or the request was overtaken.
LEMMA CommitFollows ==
    ASSUME OrgInv, NEW a \in Admins, CommitChange(a), NEW o \in Orgs
    PROVE  Follows(o)'
<1> DEFINE c == change[a]
<1>1. /\ c \in OrgChange /\ CommitFacts(a) /\ PlacedAs(c) /\ ChangeSound(c)
      /\ c.fresh => ChangeFresh(c)
  BY CommitPlaces DEF CommitFacts
<1>2. /\ Follows(o) /\ RowSound(o) /\ org[o].parent \in Orgs \cup {NoOrg}
      /\ c.kind \in {"create", "move", "delete"} /\ c.org \in Orgs
      /\ c.parent \in Orgs \cup {NoOrg} /\ c.parent # c.org
  BY <1>1 DEF OrgInv, OrgChange, OrgTypeOK, OrgRow, ChangeSound
<1>3. /\ \A q \in Orgs : q # c.org => org'[q] = org[q]
      /\ orgRaced' = IF c.fresh THEN orgRaced ELSE orgRaced \cup {c.org}
      /\ displaced' = IF c.kind = "move" THEN (displaced \ {c.org}) \cup Children(c.org)
                                         ELSE displaced
  BY <1>1 DEF PlacedAs, CommitFacts
<1>4. \A p \in Orgs \cup {NoOrg} : (p # c.org \/ c.kind = "delete") =>
          PathUnder(p)' = PathUnder(p) /\ LevelUnder(p)' = LevelUnder(p)
  BY UnderStays
<1> HIDE DEF c
<1>5. orgRaced \subseteq orgRaced'
  BY <1>3
<1>6. CASE o # c.org
  <2>1. org'[o] = org[o]
    BY <1>3, <1>6
  <2>2. PICK p \in Orgs \cup {NoOrg} : p = org[o].parent
    BY <1>2
  <2>3. o \notin orgRaced' \cup displaced' /\ Live(o) =>
            (o \notin orgRaced \cup displaced) /\ (p # c.org \/ c.kind = "delete")
    <3>1. c.kind = "move" /\ p = c.org /\ Live(o) => o \in displaced'
      BY <1>3, <2>2 DEF Children
    <3>2. c.kind = "create" => p # c.org
      BY <1>1, <1>2, <2>2, OrgAssumption DEF ChangeSound, RowSound, KnownOrg, Live
    <3>3. o \in displaced => o \in displaced'
      BY <1>3, <1>6
    <3> QED
      BY <1>2, <1>5, <3>1, <3>2, <3>3
  <2>4. o \notin orgRaced' \cup displaced' /\ Live(o) =>
            org'[o].path = PathUnder(p)' /\ org'[o].level = LevelUnder(p)'
    BY <1>2, <1>4, <2>1, <2>2, <2>3 DEF Follows
  <2>5. o \notin orgRaced' /\ Live(o) /\ p # NoOrg => Live(p)' \/ p \in orgRaced'
    <3> SUFFICES ASSUME o \notin orgRaced', Live(o), p # NoOrg, p \notin orgRaced'
                 PROVE  Live(p)'
      OBVIOUS
    <3>1. Live(p) /\ p \in Orgs
      BY <1>2, <1>5, <2>2 DEF Follows
    <3>2. CASE p # c.org
      BY <1>3, <3>1, <3>2 DEF Live
    <3>3. CASE p = c.org
      <4>1. c.fresh
        BY <1>3, <3>3
      <4>2. c.kind # "delete"
        BY <1>1, <1>6, <2>2, <3>3, <4>1 DEF ChangeFresh, Children, Live
      <4> QED
        BY <1>1, <1>2, <3>1, <3>3, <4>2 DEF PlacedAs, Live
    <3> QED
      BY <3>2, <3>3
  <2> QED
    BY <2>1, <2>2, <2>4, <2>5 DEF Follows, Live
<1>7. CASE o = c.org
  <2>1. CASE ~c.fresh
    BY <1>3, <1>7, <2>1 DEF Follows
  <2>2. CASE c.kind = "delete"
    <3>1. org'[o].state = "deleted"
      BY <1>1, <1>7, <2>2 DEF PlacedAs
    <3> QED
      BY <3>1 DEF Follows, Live
  <2>3. CASE c.fresh /\ c.kind # "delete"
    <3>1. /\ c.parent = NoOrg \/ Live(c.parent)
          /\ c.path = PathUnder(c.parent) /\ c.level = LevelUnder(c.parent)
          /\ c.relevel = (c.level # org[c.org].level)
      BY <1>1, <2>3 DEF ChangeFresh
    <3>2. org'[o].parent = c.parent /\ org'[o].path = c.path /\ org'[o].level = c.level
      BY <1>1, <1>2, <1>7, <2>3, <3>1 DEF PlacedAs
    <3>3. PICK p \in Orgs \cup {NoOrg} : p = c.parent
      BY <1>2
    <3>4. p # NoOrg => Live(p)'
      BY <1>2, <1>3, <3>1, <3>3, OrgAssumption DEF Live
    <3>5. org'[o].path = PathUnder(p)' /\ org'[o].level = LevelUnder(p)'
      BY <1>2, <1>4, <3>1, <3>2, <3>3
    <3>6. org'[o].parent = p
      BY <3>2, <3>3
    <3> QED
      BY <3>4, <3>5, <3>6 DEF Follows
  <2> QED
    BY <2>1, <2>2, <2>3
<1> QED
  BY <1>6, <1>7

\* What another request has looked at, unless it is told that it was overtaken.
LEMMA CommitChangesSound ==
    ASSUME OrgInv, NEW a \in Admins, CommitChange(a),
           NEW b \in Admins, change'[b] # NoChange
    PROVE  ChangeSound(change[b])' /\ (change'[b].fresh => ChangeFresh(change[b])')
<1> DEFINE e == change[a]
<1>1. /\ e \in OrgChange /\ CommitFacts(a) /\ PlacedAs(e) /\ ChangeSound(e)
      /\ e # NoChange
  BY CommitPlaces DEF CommitFacts, CommitChange
<1>2. /\ b # a /\ change[b] # NoChange
      /\ change'[b] = [change[b] EXCEPT !.fresh = @ /\ ~Concerns(change[a], change[b])]
  BY DEF CommitChange
<1>3. PICK c \in OrgChange : c = change[b]
  BY <1>2 DEF OrgInv, OrgTypeOK
<1>4. PICK f \in BOOLEAN : f = (c.fresh /\ ~Concerns(e, c))
  OBVIOUS
<1>5. PICK d \in OrgChange : d = [c EXCEPT !.fresh = f]
  BY DEF OrgChange
<1>6. /\ d.kind = c.kind /\ d.org = c.org /\ d.parent = c.parent /\ d.path = c.path
      /\ d.level = c.level /\ d.relevel = c.relevel /\ d.fresh = f
  BY <1>5 DEF OrgChange
<1>7. change'[b] = d
  BY <1>2, <1>3, <1>4, <1>5
<1>8. ChangeSound(c) /\ (c.fresh => ChangeFresh(c))
  BY <1>2, <1>3 DEF OrgInv
<1>9. /\ e.org \in Orgs /\ \A q \in Orgs : q # e.org => org'[q] = org[q]
      /\ org'[e.org].state # "none"
      /\ org'[e.org].parent \in {e.parent, org[e.org].parent}
      /\ e.kind \in {"create", "move", "delete"}
  BY <1>1 DEF PlacedAs, OrgChange, ChangeSound
<1>10. /\ c.org \in Orgs /\ c.parent \in Orgs \cup {NoOrg}
       /\ c.kind \in {"create", "move", "delete"}
  BY DEF OrgChange
<1>11. c.org = e.org => c.kind # "create" /\ e.kind # "create"
  BY <1>2, <1>3, <1>1 DEF OrgInv, CreatorsAlone
<1> HIDE DEF e
<1>12. KnownOrg(c.parent)' /\ ((d.kind = "create") = (org'[c.org].state = "none"))
  <2>1. KnownOrg(c.parent)'
    BY <1>8, <1>9, <1>10 DEF ChangeSound, KnownOrg
  <2>2. CASE c.org = e.org
    BY <1>6, <1>9, <1>11, <2>1, <2>2
  <2>3. CASE c.org # e.org
    BY <1>6, <1>8, <1>9, <1>10, <2>1, <2>3 DEF ChangeSound
  <2> QED
    BY <2>2, <2>3
<1>13. ChangeSound(change[b])'
  BY <1>6, <1>7, <1>8, <1>12 DEF ChangeSound, KnownOrg
<1>14. ASSUME f PROVE ChangeFresh(d)'
  <2>1. ChangeFresh(c) /\ ~Concerns(e, c)
    BY <1>4, <1>8, <1>14
  <2>2. /\ e.org # c.org /\ e.org # c.parent
        /\ c.kind = "delete" => c.org # e.parent /\ c.org # org[e.org].parent
    BY <2>1 DEF Concerns
  <2>3. org'[c.org] = org[c.org] /\ (c.parent # NoOrg => org'[c.parent] = org[c.parent])
    BY <1>9, <1>10, <2>2
  <2>4. CASE c.kind = "delete"
    <3>1. Children(c.org) = {}
      BY <2>1, <2>4 DEF ChangeFresh
    <3>2. \A q \in Orgs : ~(org'[q].state = "live" /\ org'[q].parent = c.org)
      <4> SUFFICES ASSUME NEW q \in Orgs, org'[q].state = "live", org'[q].parent = c.org
                   PROVE  FALSE
        OBVIOUS
      <4>1. q # e.org
        BY <1>9, <2>2, <2>4
      <4>2. q \in Children(c.org)
        BY <1>9, <4>1 DEF Children, Live
      <4> QED
        BY <3>1, <4>2
    <3> QED
      BY <1>6, <2>4, <3>2 DEF ChangeFresh, Children, Live
  <2>5. CASE c.kind # "delete"
    BY <1>6, <1>10, <2>1, <2>3, <2>5 DEF ChangeFresh, Live, PathUnder, LevelUnder
  <2> QED
    BY <2>4, <2>5
<1>15. change'[b].fresh => ChangeFresh(change[b])'
  BY <1>6, <1>7, <1>14 DEF ChangeFresh, Children, Live, PathUnder, LevelUnder
<1> QED
  BY <1>13, <1>15

LEMMA CommitTypes ==
    ASSUME OrgInv, NEW a \in Admins, CommitChange(a)
    PROVE  OrgTypeOK' /\ CreatorsAlone'
<1> DEFINE e == change[a]
<1>1. e \in OrgChange /\ CommitFacts(a) /\ PlacedAs(e)
  BY CommitPlaces
<1>2. \A b \in Admins : /\ change'[b] \in OrgChange \cup {NoChange}
                        /\ change'[b] # NoChange =>
                              /\ change[b] # NoChange
                              /\ change'[b].org = change[b].org
                              /\ change'[b].kind = change[b].kind
  <2> SUFFICES ASSUME NEW b \in Admins, change'[b] # NoChange
               PROVE  /\ change'[b] \in OrgChange
                      /\ change[b] # NoChange
                      /\ change'[b].org = change[b].org
                      /\ change'[b].kind = change[b].kind
    BY DEF CommitChange
  <2>1. /\ b # a /\ change[b] # NoChange
        /\ change'[b] = [change[b] EXCEPT !.fresh = @ /\ ~Concerns(change[a], change[b])]
    BY DEF CommitChange
  <2>2. PICK c \in OrgChange : c = change[b]
    BY <2>1 DEF OrgInv, OrgTypeOK
  <2>3. PICK f \in BOOLEAN : f = (c.fresh /\ ~Concerns(e, c))
    OBVIOUS
  <2>4. PICK d \in OrgChange : d = [c EXCEPT !.fresh = f]
    BY DEF OrgChange
  <2>5. d.kind = c.kind /\ d.org = c.org
    BY <2>4 DEF OrgChange
  <2>6. change'[b] = d
    BY <2>1, <2>2, <2>3, <2>4
  <2> QED
    BY <2>1, <2>2, <2>5, <2>6
<1>3. change' \in [Admins -> OrgChange \cup {NoChange}]
  <2>1. DOMAIN change' = Admins /\ change' = [b \in Admins |-> change'[b]]
    BY DEF CommitChange
  <2> QED
    BY <1>2, <2>1
<1>4. CreatorsAlone'
  BY <1>2 DEF OrgInv, CreatorsAlone
<1>5. org' \in [Orgs -> OrgRow]
  <2>1. org' = [org EXCEPT ![e.org] = Placed(e)] /\ org'[e.org] \in OrgRow /\ e.org \in Orgs
    BY <1>1 DEF CommitFacts, PlacedAs
  <2> QED
    BY <2>1 DEF OrgInv, OrgTypeOK
<1>6. orgRaced' \subseteq Orgs /\ displaced' \subseteq Orgs
  <2>1. Children(e.org) \subseteq Orgs
    BY DEF Children
  <2> QED
    BY <1>1, <2>1 DEF CommitFacts, OrgInv, OrgTypeOK
<1> QED
  BY <1>3, <1>4, <1>5, <1>6 DEF OrgTypeOK

LEMMA OrgsStep == OrgInv /\ [OrgNext]_orgVars => OrgInv'
<1> SUFFICES ASSUME OrgInv, [OrgNext]_orgVars PROVE OrgInv'
  OBVIOUS
<1>1. ASSUME NEW a \in Admins, NEW p \in Orgs \cup {NoOrg}, CreateOrg(a, p) PROVE OrgInv'
  <2>1. PICK o \in FreshIds : o = CHOOSE q \in FreshIds : TRUE
    BY <1>1 DEF CreateOrg
  <2>2. /\ o \in Orgs /\ org[o].state = "none"
        /\ Waiting(a, "create", o, p) /\ (p = NoOrg \/ Live(p))
    BY <1>1, <2>1 DEF CreateOrg, FreshIds, Absent
  <2>3. p # o
    BY <2>2, OrgAssumption DEF Live
  <2> QED
    BY <2>1, <2>2, <2>3, WaitingKeeps
<1>2. ASSUME NEW a \in Admins, NEW o \in Orgs, NEW p \in Orgs \cup {NoOrg}, MoveOrg(a, o, p)
      PROVE  OrgInv'
  <2>1. Live(o) /\ Waiting(a, "move", o, p) /\ (p = NoOrg \/ Live(p)) /\ p # o
    BY <1>2, OrgAssumption DEF MoveOrg, MayMoveUnder
  <2> QED
    BY <2>1, WaitingKeeps
<1>3. ASSUME NEW a \in Admins, NEW o \in Orgs, DeleteOrg(a, o) PROVE OrgInv'
  <2>1. Live(o) /\ Waiting(a, "delete", o, NoOrg) /\ Children(o) = {} /\ NoOrg # o
    BY <1>3, OrgAssumption DEF DeleteOrg
  <2> QED
    BY <2>1, WaitingKeeps
<1>4. ASSUME NEW a \in Admins, CommitChange(a) PROVE OrgInv'
  <2>1. \A o \in Orgs : RowSound(o)' /\ Follows(o)'
    BY <1>4, CommitRowsSound, CommitFollows
  <2>2. \A b \in Admins : change'[b] # NoChange =>
            ChangeSound(change[b])' /\ (change'[b].fresh => ChangeFresh(change[b])')
    BY <1>4, CommitChangesSound
  <2>3. OrgTypeOK' /\ CreatorsAlone'
    BY <1>4, CommitTypes
  <2> QED
    BY <2>1, <2>2, <2>3 DEF OrgInv
<1>5. ASSUME NEW a \in Admins, AbandonChange(a) PROVE OrgInv'
  <2>1. /\ change' = [change EXCEPT ![a] = NoChange]
        /\ UNCHANGED <<org, orgRaced, displaced>>
    BY <1>5 DEF AbandonChange
  <2>2. \A b \in Admins : change'[b] # NoChange => b # a /\ change'[b] = change[b]
    BY <2>1 DEF OrgInv, OrgTypeOK
  <2>3. OrgTypeOK'
    BY <2>1 DEF OrgInv, OrgTypeOK
  <2>4. CreatorsAlone'
    BY <2>2 DEF OrgInv, CreatorsAlone
  <2>5. \A b \in Admins : change'[b] # NoChange =>
            ChangeSound(change[b])' /\ (change'[b].fresh => ChangeFresh(change[b])')
    BY <2>1, <2>2 DEF OrgInv, ChangeSound, ChangeFresh, KnownOrg, Children, Live, PathUnder, LevelUnder
  <2>6. \A x \in Orgs : RowSound(x)' /\ Follows(x)'
    BY <2>1 DEF OrgInv, RowSound, KnownOrg, Follows, Live, PathUnder, LevelUnder
  <2> QED
    BY <2>3, <2>4, <2>5, <2>6 DEF OrgInv
<1>6. CASE UNCHANGED orgVars
  BY <1>6 DEF orgVars, OrgInv, OrgTypeOK, RowSound, ChangeSound, ChangeFresh, CreatorsAlone,
              Follows, KnownOrg, Children, Live, PathUnder, LevelUnder
<1> QED
  BY <1>1, <1>2, <1>3, <1>4, <1>5, <1>6 DEF OrgNext

\* Rows that follow their parents get longer paths on the way down, so that
\* no row is its own ancestor: those with shorter paths than its own hold the
\* parents of their members, and not the row.
LEMMA FollowersAreNoCycle == OrgInv => CyclesNeedStalePaths
<1> SUFFICES ASSUME OrgInv, NEW o \in Orgs, Live(o), o \in Ancestors(o),
                    Ancestors(o) \cap (displaced \cup orgRaced) = {}
             PROVE  FALSE
  BY DEF CyclesNeedStalePaths
<1> DEFINE A == Ancestors(o)
           shorter == {q \in A : Live(q) /\ Len(org[q].path) < Len(org[o].path)}
<1>1. A \subseteq Orgs
  BY DEF Ancestors
<1>2. ASSUME NEW q \in A, Live(q), org[q].parent # NoOrg, org[q].parent \in A
      PROVE  /\ Live(org[q].parent)
             /\ Len(org[org[q].parent].path) \in Nat /\ Len(org[q].path) \in Nat
             /\ Len(org[org[q].parent].path) < Len(org[q].path)
  <2>1. PICK p \in Orgs : p = org[q].parent
    BY <1>1, <1>2
  <2>2. q \notin orgRaced \cup displaced /\ p \notin orgRaced /\ Follows(q)
    BY <1>1, <1>2, <2>1 DEF OrgInv
  <2>3. Live(p) /\ org[q].path = PathUnder(p)
    BY <1>2, <2>1, <2>2 DEF Follows
  <2>4. PICK s \in Seq(Orgs) : s = org[p].path
    BY DEF OrgInv, OrgTypeOK, OrgRow
  <2>5. org[q].path = Append(s, p)
    BY <1>2, <2>1, <2>3, <2>4 DEF PathUnder
  <2>6. Len(Append(s, p)) = Len(s) + 1 /\ Len(s) \in Nat
    OBVIOUS
  <2>7. PICK n \in Nat : n = Len(s)
    BY <2>6
  <2>8. Len(org[q].path) = n + 1 /\ Len(org[p].path) = n /\ n < n + 1
    BY <2>4, <2>5, <2>6, <2>7
  <2> QED
    BY <2>1, <2>3, <2>8
<1>3. org[o].parent # NoOrg => org[o].parent \in A
  <2> SUFFICES ASSUME org[o].parent # NoOrg PROVE org[o].parent \in A
    OBVIOUS
  <2>1. org[o].parent \in Orgs
    BY DEF OrgInv, OrgTypeOK, OrgRow
  <2> QED
    BY <2>1 DEF Ancestors
<1>4. \A q \in A : org[q].parent # NoOrg => org[q].parent \in A
  <2> SUFFICES ASSUME NEW q \in A, org[q].parent # NoOrg PROVE org[q].parent \in A
    OBVIOUS
  <2>1. org[q].parent \in Orgs
    BY <1>1 DEF OrgInv, OrgTypeOK, OrgRow
  <2> QED
    BY <2>1 DEF Ancestors, HoldsParents
<1>5. org[o].parent \in shorter \cup {NoOrg}
  BY <1>2, <1>3
<1>6. Len(org[o].path) \in Nat /\ \A q \in A : Len(org[q].path) \in Nat
  <2>1. \A q \in Orgs : org[q].path \in Seq(Orgs)
    BY DEF OrgInv, OrgTypeOK, OrgRow
  <2> QED
    BY <1>1, <2>1
<1>7. HoldsParents(shorter)
  <2> SUFFICES ASSUME NEW q \in shorter, org[q].parent # NoOrg
               PROVE  org[q].parent \in shorter
    BY DEF HoldsParents
  <2>1. org[q].parent \in A /\ Live(org[q].parent)
        /\ Len(org[org[q].parent].path) < Len(org[q].path)
    BY <1>2, <1>4
  <2> QED
    BY <1>6, <2>1
<1>8. shorter \in SUBSET Orgs
  BY <1>1
<1>9. o \in shorter
  <2> HIDE DEF shorter
  <2> QED
    BY <1>5, <1>7, <1>8 DEF Ancestors
<1> QED
  BY <1>6, <1>9

\* The paths and levels of organisations follow their parents, and none comes
\* under its own subtree, but over rows that an earlier move left behind or a
\* request wrote that had been overtaken: OrganizationService, for any number
\* of organisations and administrators.
THEOREM TreeHolds == OrgSpec => []TreeIsSound
<1>1. OrgInv => TreeIsSound
  <2> SUFFICES ASSUME OrgInv PROVE TreeIsSound
    OBVIOUS
  <2>1. PathsEndInParent
    BY DEF OrgInv, RowSound, EndsIn, PathsEndInParent, Last
  <2>2. PathsFollowParents /\ ParentsAreLive
    BY DEF OrgInv, Follows, PathsFollowParents, ParentsAreLive
  <2> QED
    BY <2>1, <2>2, FollowersAreNoCycle DEF TreeIsSound
<1> QED
  BY <1>1, OrgsInitially, OrgsStep, PTL DEF OrgSpec

=============================================================================
