---------------------------- MODULE TokenBucket ----------------------------
(***************************************************************************)
(* The token-bucket budgets: TenantRateLimiter (core/rate_limit.py, cost 1)*)
(* and TokenBudgetLimiter (core/request_limit.py, weighted).  Both ask the *)
(* bucket in Redis (TOKEN_BUCKET_SCRIPT, storage/redis.py) and fall back   *)
(* to a bucket of the process when Redis gives no answer.                  *)
(*                                                                         *)
(* A caller reads the clock first and reaches the bucket later: callers    *)
(* reach it in another order than they read the clock.                     *)
(*                                                                         *)
(* Time is in units in which one token is refilled; the clock is the same  *)
(* for the callers of one host.                                            *)
(***************************************************************************)
EXTENDS Integers

CONSTANTS
    Callers,    \* threads that ask for the budget
    Capacity,   \* burst, or tokens_per_minute
    Costs,      \* what a call may cost, in tokens
    Ttl,        \* PEXPIRE of the Redis key
    Delay,      \* longest time between reading the clock and reaching the
                \* bucket (socket_timeout_seconds)
    Cooldown,   \* retry_cooldown_seconds of RedisJsonCache
    MaxClock    \* bound on the time that is explored

ASSUME CapacityAssumption == Capacity \in Nat \ {0}
ASSUME CostsAssumption == Costs \subseteq Nat \ {0}
\* allow_rate_limit: twice the time that fills the bucket; allow_token_budget:
\* 120 s where 60 s fill it.  The socket timeout is far below the rest of it.
ASSUME TtlAssumption == Ttl \in Nat /\ Delay \in Nat /\ Ttl >= Capacity + Delay
ASSUME CooldownAssumption == Cooldown \in Nat
ASSUME MaxClockAssumption == MaxClock \in Nat

VARIABLES
    clock,      \* time.monotonic() and time.time()
    link,       \* RedisJsonCache.connected and _retry_after
    key,        \* the Redis hash: tokens, updated_ms, and when it expires
    bucket,     \* the bucket of the process: tokens and updated_at
    caller,     \* the calls
    charged,    \* tokens taken from the bucket in Redis so far
    granted     \* tokens taken from the bucket of the process so far

vars == <<clock, link, key, bucket, caller, charged, granted>>

TypeOK ==
    /\ clock \in Nat
    /\ link \in [connected : BOOLEAN, retryAfter : Nat]
    /\ key \in [exists : BOOLEAN, tokens : Int, updated : Nat, expires : Nat]
    /\ key.tokens <= Capacity
    /\ bucket \in [tokens : 0 .. Capacity, updated : Nat]
    /\ caller \in [Callers -> [pc : {"idle", "redis", "memory"}, now : Nat, cost : Nat]]
    /\ charged \in Nat
    /\ granted \in Nat

Idle == [pc |-> "idle", now |-> 0, cost |-> 0]
NoKey == [exists |-> FALSE, tokens |-> 0, updated |-> 0, expires |-> 0]

Init ==
    /\ clock = 0
    /\ link = [connected |-> TRUE, retryAfter |-> 0]
    /\ key = NoKey
    /\ bucket = [tokens |-> Capacity, updated |-> 0]
    /\ caller = [c \in Callers |-> Idle]
    /\ charged = 0
    /\ granted = 0

AtMost(n, limit) == IF n < limit THEN n ELSE limit

-----------------------------------------------------------------------------
\* _can_attempt.
CanAttempt == link.connected \/ clock >= link.retryAfter

\* allow: a call that costs more than the bucket holds is refused at once.
\* Otherwise the caller reads the clock for the bucket it will ask.
Ask(c) ==
    /\ caller[c].pc = "idle"
    /\ \E cost \in {n \in Costs : n <= Capacity} :
         caller' = [caller EXCEPT ![c] = [pc   |-> IF CanAttempt THEN "redis" ELSE "memory",
                                          now  |-> clock,
                                          cost |-> cost]]
    /\ UNCHANGED <<clock, link, key, bucket, charged, granted>>

\* Fault: the script takes a clock that runs backwards for no time at all.
Refilled_NoDebit(now) ==
    IF key.exists
    THEN AtMost(key.tokens + (IF now > key.updated THEN now - key.updated ELSE 0), Capacity)
    ELSE Capacity

\* TOKEN_BUCKET_SCRIPT, up to the decision.  The time that has passed may be
\* negative, and takes back then what is credited again later.
Refilled(now) ==
    IF key.exists THEN AtMost(key.tokens + (now - key.updated), Capacity) ELSE Capacity

RunScript(c) ==
    LET now     == caller[c].now
        tokens  == Refilled(now)
        allowed == tokens >= caller[c].cost
    IN /\ key' = [exists  |-> TRUE,
                  tokens  |-> IF allowed THEN tokens - caller[c].cost ELSE tokens,
                  updated |-> now,
                  expires |-> clock + Ttl]
       /\ charged' = IF allowed THEN charged + caller[c].cost ELSE charged

\* The script's answer arrives.
RedisAnswers(c) ==
    /\ caller[c].pc = "redis"
    /\ RunScript(c)
    /\ link' = [connected |-> TRUE, retryAfter |-> 0]
    /\ caller' = [caller EXCEPT ![c] = Idle]
    /\ UNCHANGED <<clock, bucket, granted>>

\* _mark_failure, and the process's own bucket decides, with its own reading
\* of the clock.
FallBack(c) ==
    /\ link' = [connected |-> FALSE, retryAfter |-> clock + Cooldown]
    /\ caller' = [caller EXCEPT ![c] = [pc |-> "memory", now |-> clock, cost |-> @.cost]]

\* Redis is not reached, or runs the script and the answer is lost.
RedisFails(c) ==
    /\ caller[c].pc = "redis"
    /\ FallBack(c)
    /\ UNCHANGED <<clock, key, bucket, charged, granted>>

RedisAnswerLost(c) ==
    /\ caller[c].pc = "redis"
    /\ RunScript(c)
    /\ FallBack(c)
    /\ UNCHANGED <<clock, bucket, granted>>

\* _allow_memory under the lock: the time that has passed counts as 0 when it
\* is negative, and updated_at is set back all the same.
MemoryDecides(c) ==
    LET now     == caller[c].now
        elapsed == IF now > bucket.updated THEN now - bucket.updated ELSE 0
        tokens  == AtMost(bucket.tokens + elapsed, Capacity)
        allowed == tokens >= caller[c].cost
    IN /\ caller[c].pc = "memory"
       /\ bucket' = [tokens  |-> IF allowed THEN tokens - caller[c].cost ELSE tokens,
                     updated |-> now]
       /\ granted' = IF allowed THEN granted + caller[c].cost ELSE granted
       /\ caller' = [caller EXCEPT ![c] = Idle]
       /\ UNCHANGED <<clock, link, key, charged>>

\* The key expires when nobody has asked for Ttl.
Expire ==
    /\ key.exists
    /\ clock >= key.expires
    /\ key' = NoKey
    /\ UNCHANGED <<clock, link, bucket, caller, charged, granted>>

Tick ==
    /\ clock < MaxClock
    /\ \A c \in Callers : caller[c].pc # "idle" => clock < caller[c].now + Delay
    /\ clock' = clock + 1
    /\ UNCHANGED <<link, key, bucket, caller, charged, granted>>

Next ==
    \/ \E c \in Callers : \/ Ask(c) \/ RedisAnswers(c) \/ RedisFails(c)
                          \/ RedisAnswerLost(c) \/ MemoryDecides(c)
    \/ Expire \/ Tick

Spec == Init /\ [][Next]_vars

-----------------------------------------------------------------------------
\* What the bucket in Redis has handed out never exceeds one full bucket plus
\* what time has refilled, although callers reach it with clock readings out
\* of order, lose its answers, and let the key expire.
RedisKeepsBudget == charged <= Capacity + clock

\* The inductive invariant behind it: while the key exists, what was charged
\* and what is left make up at most what had accrued by the reading that was
\* last applied; an expired key leaves enough unused time behind for a full
\* bucket to start from any reading that is still under way.
ReadingsAreRecent ==
    \A c \in Callers : caller[c].pc # "idle" =>
        caller[c].now <= clock /\ clock <= caller[c].now + Delay

KeyIsCovered ==
    key.exists => /\ charged + key.tokens <= Capacity + key.updated
                  /\ charged <= Capacity + key.expires - Ttl
                  /\ key.expires <= clock + Ttl

ExpiryIsCovered == ~key.exists => charged = 0 \/ charged + Delay <= clock

BudgetInv ==
    /\ TypeOK
    /\ ReadingsAreRecent
    /\ KeyIsCovered
    /\ ExpiryIsCovered
    /\ RedisKeepsBudget

\* "Thread-safe weighted token bucket" (TokenBudgetLimiter): the same for the
\* bucket of the process.
MemoryKeepsBudget == granted <= Capacity + clock
=============================================================================
