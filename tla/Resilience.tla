------------------------------ MODULE Resilience ------------------------------
(***************************************************************************)
(* The three guards of shared/resilience, each in the memory of one        *)
(* process: the rate limiter (a sliding window of time stamps per key),    *)
(* the circuit breaker (callers ask whether a call is allowed and report   *)
(* its outcome later, when the circuit may be in another state) and the    *)
(* idempotency guard (the first request with a key locks it, later ones    *)
(* get the stored answer; entries are removed by age only); and the cache  *)
(* of computed results.                                                    *)
(***************************************************************************)
EXTENDS Integers, FiniteSets, Sequences

-----------------------------------------------------------------------------
(* The rate limiter *)

CONSTANTS
    MaxAdmitted,    \* requests per window
    Window,         \* its length
    LastTick        \* bound: the clock

ASSUME LimiterAssumption == MaxAdmitted \in Nat /\ Window \in Nat \ {0} /\ LastTick \in Nat

VARIABLES
    clock,       \* time.time()
    admitted,    \* the time stamps of the requests admitted since the last reset
    stamps       \* the store of one key: those of them that it holds, by number

limiterVars == <<clock, admitted, stamps>>

\* Mutant of InWindow: time stamps are dropped one tick too early.
InWindowShort(t) == t > clock - (Window - 1)

InWindow(t) == t > clock - Window

StillHeld == {n \in stamps : InWindow(admitted[n])}

\* Whether the request is admitted or refused, the store is pruned.
IsAllowed ==
    /\ IF Cardinality(StillHeld) < MaxAdmitted
          THEN /\ admitted' = Append(admitted, clock)
               /\ stamps' = StillHeld \cup {Len(admitted) + 1}
          ELSE stamps' = StillHeld /\ UNCHANGED admitted
    /\ UNCHANGED clock

\* The key is forgotten, and the limit with it.
Reset == stamps' = {} /\ admitted' = <<>> /\ UNCHANGED clock

LimiterTick == clock < LastTick /\ clock' = clock + 1 /\ UNCHANGED <<admitted, stamps>>

LimiterInit == clock = 0 /\ admitted = <<>> /\ stamps = {}

LimiterNext == IsAllowed \/ Reset \/ LimiterTick

LimiterSpec == LimiterInit /\ [][LimiterNext]_limiterVars

\* No window of the limiter's length, wherever it starts, holds more admitted
\* requests than the limit, although the store forgets what it has pruned.
EveryWindowIsLimited ==
    \A t \in 0..LastTick :
        Cardinality({n \in DOMAIN admitted : admitted[n] \in t..t + (Window - 1)}) <= MaxAdmitted

-----------------------------------------------------------------------------
(* The circuit breaker *)

CONSTANTS
    Callers,            \* those that call through the circuit
    FailureThreshold,
    RecoveryTimeout,
    LastSecond          \* bound: the clock

ASSUME BreakerAssumption ==
    /\ FailureThreshold \in Nat \ {0}
    /\ RecoveryTimeout \in Nat /\ LastSecond \in Nat

VARIABLES
    second,          \* the clock
    circuit,         \* "closed", "open" or "half_open"
    failureCount,
    lastFailure,     \* time of the last failure reported
    calling          \* Callers -> whether its call is under way

breakerVars == <<second, circuit, failureCount, lastFailure, calling>>

\* half_open_count is never raised: its limit admits every call.
Allowed ==
    \/ circuit \in {"closed", "half_open"}
    \/ circuit = "open" /\ second - lastFailure > RecoveryTimeout

\* A refused call changes nothing.
BeginCall(c) ==
    /\ ~calling[c]
    /\ Allowed
    /\ circuit' = IF circuit = "open" THEN "half_open" ELSE circuit
    /\ calling' = [calling EXCEPT ![c] = TRUE]
    /\ UNCHANGED <<second, failureCount, lastFailure>>

\* Mutant of RecordSuccess: the count of failures is kept.
RecordSuccessKeepsCount(c) ==
    /\ calling[c]
    /\ circuit' = IF circuit = "half_open" THEN "closed" ELSE circuit
    /\ calling' = [calling EXCEPT ![c] = FALSE]
    /\ UNCHANGED <<second, failureCount, lastFailure>>

\* Mutant of RecordSuccess: whatever the state of the circuit.
RecordSuccessCloses(c) ==
    /\ calling[c]
    /\ circuit' = "closed"
    /\ failureCount' = 0
    /\ calling' = [calling EXCEPT ![c] = FALSE]
    /\ UNCHANGED <<second, lastFailure>>

\* Only a half-open circuit notices: in a closed one failures add up however
\* many successes lie between them.
RecordSuccess(c) ==
    /\ calling[c]
    /\ IF circuit = "half_open"
       THEN circuit' = "closed" /\ failureCount' = 0
       ELSE UNCHANGED <<circuit, failureCount>>
    /\ calling' = [calling EXCEPT ![c] = FALSE]
    /\ UNCHANGED <<second, lastFailure>>

RecordFailure(c) ==
    /\ calling[c]
    /\ failureCount < LastSecond + FailureThreshold     \* bound
    /\ failureCount' = failureCount + 1
    /\ lastFailure' = second
    /\ circuit' = IF circuit = "half_open" \/ failureCount' >= FailureThreshold
                  THEN "open" ELSE circuit
    /\ calling' = [calling EXCEPT ![c] = FALSE]
    /\ UNCHANGED second

SecondPasses ==
    /\ second < LastSecond
    /\ second' = second + 1
    /\ UNCHANGED <<circuit, failureCount, lastFailure, calling>>

BreakerInit ==
    /\ second = 0 /\ circuit = "closed" /\ failureCount = 0 /\ lastFailure = 0
    /\ calling = [c \in Callers |-> FALSE]

BreakerNext ==
    \/ \E c \in Callers : BeginCall(c) \/ RecordSuccess(c) \/ RecordFailure(c)
    \/ SecondPasses

BreakerSpec == BreakerInit /\ [][BreakerNext]_breakerVars

BreakerTypeOK ==
    /\ second \in 0..LastSecond /\ lastFailure \in 0..second
    /\ circuit \in {"closed", "open", "half_open"}
    /\ failureCount \in Nat
    /\ calling \in [Callers -> BOOLEAN]

\* The circuit is closed exactly while it has counted fewer failures than the
\* threshold, whichever late answers to earlier calls come in.
ClosedBelowThreshold == (circuit = "closed") = (failureCount < FailureThreshold)

\* An open circuit is left only when the recovery time has passed since the
\* last failure that was reported, also by calls from before it opened, and
\* then into the half-open state; from there a single answer decides.
OpenUntilRecovery ==
    [][circuit = "open" /\ circuit' # "open" =>
          circuit' = "half_open" /\ second - lastFailure > RecoveryTimeout]_breakerVars

\* What the circuit protects the called service from.
BreakerProtects == [](BreakerTypeOK /\ ClosedBelowThreshold) /\ OpenUntilRecovery

-----------------------------------------------------------------------------
(* The idempotency guard *)

CONSTANTS
    Calls,        \* requests that share one key
    HashOf,       \* Calls -> hash of the request's data
    MaxAge,       \* age beyond which cleanup removes an entry
    LastMoment    \* bound: the clock

ASSUME GuardAssumption ==
    /\ DOMAIN HashOf = Calls /\ MaxAge \in Nat /\ LastMoment \in Nat
    /\ \A c \in Calls : HashOf[c] \notin {"no", "proceed", "done", "failed", "mismatch", "null"}

VARIABLES
    moment,       \* the clock
    entry,        \* what is stored under the key
    asked,        \* Calls -> how the guard has answered each request
    swept         \* history: a cleanup removed the entry of a request at work

guardVars == <<moment, entry, asked, swept>>

NoEntry == [status |-> "none"]

\* Mutant of Answer: an entry that is still processed locks nobody out.
AnswerUnlocked(c) ==
    IF entry.status # "completed" THEN "proceed"
    ELSE IF entry.hash # HashOf[c] THEN "mismatch"
    ELSE entry.response

\* Mutant of Answer: the hash of the data is not compared.
AnswerAnyData(c) == IF entry = NoEntry THEN "proceed" ELSE entry.response

\* The first request proceeds; a repetition gets the response, which is "null"
\* while the first is at work.
Answer(c) ==
    IF entry = NoEntry THEN "proceed"
    ELSE IF entry.hash # HashOf[c] THEN "mismatch"
    ELSE entry.response

CheckAndLock(c) ==
    /\ asked[c] = "no"
    /\ asked' = [asked EXCEPT ![c] = Answer(c)]
    /\ entry' = IF Answer(c) = "proceed"
                THEN [status |-> "processing", hash |-> HashOf[c], response |-> "null", created |-> moment]
                ELSE entry
    /\ UNCHANGED <<moment, swept>>

\* Stores the response under the key, if there still is an entry.
StoreResult(c) ==
    /\ asked[c] = "proceed"
    /\ asked' = [asked EXCEPT ![c] = "done"]
    /\ entry' = IF entry = NoEntry THEN entry
                ELSE [status |-> "completed", hash |-> entry.hash, response |-> HashOf[c],
                      created |-> entry.created]
    /\ UNCHANGED <<moment, swept>>

\* A request that fails stores nothing: the key stays locked.
FailCall(c) ==
    /\ asked[c] = "proceed"
    /\ asked' = [asked EXCEPT ![c] = "failed"]
    /\ UNCHANGED <<moment, entry, swept>>

Expired == entry # NoEntry /\ moment - entry.created > MaxAge

AtWork == {c \in Calls : asked[c] = "proceed"}

Cleanup ==
    /\ Expired
    /\ entry' = NoEntry
    /\ swept' = (swept \/ AtWork # {})
    /\ UNCHANGED <<moment, asked>>

MomentPasses ==
    /\ moment < LastMoment
    /\ moment' = moment + 1
    /\ UNCHANGED <<entry, asked, swept>>

GuardInit ==
    /\ moment = 0 /\ entry = NoEntry /\ swept = FALSE
    /\ asked = [c \in Calls |-> "no"]

GuardNext ==
    \/ \E c \in Calls : CheckAndLock(c) \/ StoreResult(c) \/ FailCall(c)
    \/ Cleanup \/ MomentPasses

GuardSpec == GuardInit /\ [][GuardNext]_guardVars

\* Two requests with one key are at work together only after a cleanup has
\* removed the entry of one that took longer than the maximal age.
OneAtWork == swept \/ Cardinality(AtWork) <= 1

\* A repeated request is answered with the response to its own data, with
\* nothing, or with an error, never with the response to other data; unless a
\* late response was stored under the entry of a later request.
AnswersMatchData ==
    swept \/ \A c \in Calls :
        asked[c] \in {"no", "proceed", "done", "failed", "mismatch", "null", HashOf[c]}

-----------------------------------------------------------------------------
(* The cache: CacheManager behind @cached: one key, a local copy in every  *)
(* process and a shared one in redis.  A value stands for the time it was  *)
(* stored.  Nothing invalidates it when the data change.                   *)

CONSTANTS
    Processes,     \* each with its local cache
    LocalTtl,
    Ttl,           \* of the key in redis
    LastTime,      \* bound: the clock
    NoValue        \* nothing cached, no computation

ASSUME CacheAssumption == LocalTtl \in Nat /\ Ttl \in Nat /\ LastTime \in Nat

VARIABLES
    time,          \* the clock
    local,         \* Processes -> the value and when it expires
    redis,         \* the value and when it expires
    computing,     \* Processes -> the result that waits to be stored
    served         \* Processes -> how old the value answered last was

cacheVars == <<time, local, redis, computing, served>>

Fresh(c) == c # NoValue /\ time < c.until

\* Keeps value v in the local cache of process p.
KeepLocal(p, v) == local' = [local EXCEPT ![p] = [value |-> v, until |-> time + LocalTtl]]

Serve(p, v) == served' = [served EXCEPT ![p] = time - v]

LocalHit(p) ==
    /\ computing[p] = NoValue
    /\ Fresh(local[p])
    /\ Serve(p, local[p].value)
    /\ UNCHANGED <<time, local, redis, computing>>

\* Mutant of RedisHit: the copy that is kept locally prolongs the shared one.
RedisHitProlongs(p) ==
    /\ computing[p] = NoValue
    /\ ~Fresh(local[p]) /\ Fresh(redis)
    /\ KeepLocal(p, redis.value)
    /\ Serve(p, redis.value)
    /\ redis' = [redis EXCEPT !.until = time + Ttl]
    /\ UNCHANGED <<time, computing>>

RedisHit(p) ==
    /\ computing[p] = NoValue
    /\ ~Fresh(local[p]) /\ Fresh(redis)
    /\ KeepLocal(p, redis.value)
    /\ Serve(p, redis.value)
    /\ UNCHANGED <<time, redis, computing>>

\* A miss, or redis does not answer.
Compute(p) ==
    /\ computing[p] = NoValue
    /\ ~Fresh(local[p])
    /\ computing' = [computing EXCEPT ![p] = [kept |-> FALSE]]
    /\ UNCHANGED <<time, local, redis, served>>

\* The result is kept locally at once and in redis after another wait, which
\* may fail.
StoreLocal(p) ==
    /\ computing[p] # NoValue /\ ~computing[p].kept
    /\ KeepLocal(p, time)
    /\ computing' = [computing EXCEPT ![p].kept = TRUE]
    /\ UNCHANGED <<time, redis, served>>

StoreRedis(p) ==
    /\ computing[p] # NoValue /\ computing[p].kept
    /\ redis' \in {redis, [value |-> time, until |-> time + Ttl]}
    /\ Serve(p, time)
    /\ computing' = [computing EXCEPT ![p] = NoValue]
    /\ UNCHANGED <<time, local>>

\* The local cache is memory of the process.
ProcessRestarts(p) ==
    /\ local' = [local EXCEPT ![p] = NoValue]
    /\ computing' = [computing EXCEPT ![p] = NoValue]
    /\ served' = [served EXCEPT ![p] = NoValue]
    /\ UNCHANGED <<time, redis>>

TimePasses ==
    /\ time < LastTime
    /\ time' = time + 1
    /\ UNCHANGED <<local, redis, computing, served>>

CacheInit ==
    /\ time = 0 /\ redis = NoValue
    /\ local = [p \in Processes |-> NoValue]
    /\ computing = [p \in Processes |-> NoValue]
    /\ served = [p \in Processes |-> NoValue]

CacheNext ==
    \/ \E p \in Processes :
        \/ LocalHit(p) \/ RedisHit(p) \/ Compute(p) \/ StoreLocal(p) \/ StoreRedis(p)
        \/ ProcessRestarts(p)
    \/ TimePasses

CacheSpec == CacheInit /\ [][CacheNext]_cacheVars

\* A figure that is served was stored no longer ago than the two lifetimes
\* together: a local copy made just before the shared one expires lives on.
\* (How long before that it was computed is not bounded.)
ServedIsRecent ==
    \A p \in Processes : served[p] # NoValue => served[p] <= Ttl + LocalTtl

\* The small helpers of shared/: limits are kept, repetitions are answered as
\* the first request was, and what is cached is not older than it may be.
HelpersAreSound == EveryWindowIsLimited /\ OneAtWork /\ AnswersMatchData /\ ServedIsRecent
=============================================================================
