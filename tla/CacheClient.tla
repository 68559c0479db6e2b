----------------------------- MODULE CacheClient -----------------------------
(***************************************************************************)
(* CacheClient and its two implementations side by side: InMemoryCache, a  *)
(* dictionary whose entries expire when they are read, and RedisCache, a   *)
(* server whose keys are gone once their time is over.  Every call is made *)
(* to both.  A lock makes each call of InMemoryCache one step.             *)
(***************************************************************************)
EXTENDS Integers

CONSTANTS CacheKeys, MaxCount, MaxTtl, MaxTime

ASSUME CacheAssumption == MaxCount \in Nat /\ MaxTtl \in Nat /\ MaxTime \in Nat

VARIABLES
    memory,     \* InMemoryCache._store
    redis,      \* the server RedisCache talks to
    now,        \* time.time()
    answers,    \* what the last call returned about its key, by each implementation
    revived     \* keys counted up after they had expired, and not set since

cacheVars == <<memory, redis, now, answers, revived>>
------------------------------------------------------------------------------
Missing == [value |-> -1, expires |-> -1]
Forever == MaxTime + MaxTtl + 1
NoAnswer == [k \in {} |-> <<-1, -1>>]

Expired(entry) == entry # Missing /\ entry.expires # Forever /\ now > entry.expires

Live(entry) == IF Expired(entry) THEN Missing ELSE entry

(* get: an expired entry is popped by the reader who meets it. *)
Get(k) ==
    /\ memory' = [memory EXCEPT ![k] = Live(@)]
    /\ answers' = [j \in {k} |-> <<Live(memory[k]).value, Live(redis[k]).value>>]
    /\ UNCHANGED <<redis, now, revived>>

(* A ttl of None or 0 means for ever, in both. *)
Deadline(ttl) == IF ttl = 0 THEN Forever ELSE now + ttl

Set(k, v, ttl) ==
    /\ memory' = [memory EXCEPT ![k] = [value |-> v, expires |-> Deadline(ttl)]]
    /\ redis' = [redis EXCEPT ![k] = [value |-> v, expires |-> Deadline(ttl)]]
    /\ revived' = revived \ {k}
    /\ answers' = NoAnswer
    /\ UNCHANGED now

Delete(k) ==
    /\ memory' = [memory EXCEPT ![k] = Missing]
    /\ redis' = [redis EXCEPT ![k] = Missing]
    /\ revived' = revived \ {k}
    /\ answers' = NoAnswer
    /\ UNCHANGED now

(* Counting up keeps the deadline of the entry it finds, here and there.    *)
IncrBy(entry, by) ==
    IF entry = Missing THEN [value |-> by, expires |-> Forever]
                       ELSE [value |-> entry.value + by, expires |-> entry.expires]

MutantCounted(entry, by) ==
    IF entry = Missing THEN [value |-> by, expires |-> Forever]
                       ELSE [value |-> entry.value + by, expires |-> Forever]

Counted(entry, by) == IncrBy(entry, by)

(* InMemoryCache.incr does not ask whether the entry has expired, so it     *)
(* goes on from the old count and the result stays expired; the server has  *)
(* dropped the key and starts from nothing, without a deadline.             *)
Incr(k, by) ==
    /\ Counted(memory[k], by).value <= MaxCount
    /\ IncrBy(Live(redis[k]), by).value <= MaxCount
    /\ memory' = [memory EXCEPT ![k] = Counted(@, by)]
    /\ redis' = [redis EXCEPT ![k] = IncrBy(Live(@), by)]
    /\ answers' = [j \in {k} |-> <<memory'[k].value, redis'[k].value>>]
    /\ revived' = IF Expired(memory[k]) THEN revived \cup {k} ELSE revived
    /\ UNCHANGED now

Pass == now < MaxTime /\ now' = now + 1 /\ answers' = NoAnswer /\ UNCHANGED <<memory, redis, revived>>

CacheInit ==
    /\ memory = [k \in CacheKeys |-> Missing]
    /\ redis = [k \in CacheKeys |-> Missing]
    /\ now = 0 /\ answers = NoAnswer /\ revived = {}

CacheNext ==
    \/ \E k \in CacheKeys :
          \/ Get(k)
          \/ Delete(k)
          \/ \E v \in 0..1, ttl \in 0..MaxTtl : Set(k, v, ttl)
          \/ Incr(k, 1)
    \/ Pass

CacheSpec == CacheInit /\ [][CacheNext]_cacheVars
------------------------------------------------------------------------------
(* The fallback is a stand-in for Redis: through any sequence of calls and  *)
(* of time going by, both give the same answers and would give the same to  *)
(* the next reader.  Not so of a key that was counted up after it had       *)
(* expired, until it is set or deleted again: its readers are shown fewer   *)
(* counts than Redis would show them, or nothing, and never an old count.   *)
MemoryAgreesWithRedis ==
    /\ \A k \in CacheKeys \ revived : Live(memory[k]) = Live(redis[k])
    /\ \A k \in DOMAIN answers \ revived : answers[k][1] = answers[k][2]
    /\ \A k \in revived : Live(memory[k]).value < Live(redis[k]).value

==============================================================================
