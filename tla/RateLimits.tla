------------------------------- MODULE RateLimits -------------------------------
(***************************************************************************)
(* The three rate limiters, for one client key: the sliding window kept in *)
(* memory without a lock (packages/auth/rate_limit.py), the counter kept   *)
(* in Redis (packages/auth/redis_rate_limit.py) and the token bucket of    *)
(* the AI builder (packages/ai_builder/rate_limiter.py).  Every Caller is  *)
(* a request thread; the steps of different calls interleave.              *)
(***************************************************************************)
EXTENDS Naturals, Sequences, FiniteSets
CONSTANTS Callers, MaxRequests, W, MaxTime, MaxCalls
ASSUME RateLimitsAssumption ==
  /\ W \in Nat \ {0} /\ MaxRequests \in Nat \ {0}
  /\ MaxTime \in Nat /\ MaxCalls \in Nat /\ IsFiniteSet(Callers)

VARIABLES limiter,    \* which limiter is configured
          clock,
          window,     \* _windows[key]: the times of the granted requests
          counter,    \* Redis: window number -> [n, exp]; exp 0: no expiry
          bucket,     \* _buckets[key], tokens in units of 1/W
          caller,     \* what each call has read so far
          grants,     \* history of the decisions that allowed a request
          calls, raced, faults, popErrors
limitVars == <<limiter, clock, window, counter, bucket, caller, grants, calls,
               raced, faults, popErrors>>

Limiters == {"memory", "closed", "open", "unconnected", "bucket"}
IsRedis == limiter \in {"closed", "open"}
Window(t) == t \div W
WindowKeys == 0..Window(MaxTime)
IdleCaller == [pc |-> "idle", now |-> 0, n |-> 0]

FullBucket == [tokens |-> MaxRequests * W, at |-> 0]

LimitInit ==
  /\ limiter \in Limiters /\ clock = 0
  /\ window = <<>>
  /\ counter = [k \in WindowKeys |-> [n |-> 0, exp |-> 0]]
  /\ bucket = FullBucket
  /\ caller = [c \in Callers |-> IdleCaller]
  /\ grants = <<>> /\ calls = 0 /\ raced = FALSE /\ faults = 0 /\ popErrors = 0

Goto(c, label) == caller' = [caller EXCEPT ![c].pc = label]
Return(c) == caller' = [caller EXCEPT ![c] = IdleCaller]
Granted(c) == grants' = Append(grants, caller[c].now)

\* The clock; Redis drops the counters whose expiry has come.
Tick ==
  /\ clock < MaxTime /\ clock' = clock + 1
  /\ counter' = [k \in WindowKeys |->
                   IF counter[k].exp # 0 /\ counter[k].exp <= clock'
                   THEN [n |-> 0, exp |-> 0] ELSE counter[k]]
  /\ UNCHANGED <<limiter, window, bucket, caller, grants, calls, raced, faults, popErrors>>

\* is_allowed reads the time.  Without a client the Redis limiter of a
\* production build denies at once.
Enter(c) ==
  /\ limiter # "bucket" /\ caller[c].pc = "idle" /\ calls < MaxCalls
  /\ calls' = calls + 1
  /\ raced' = (raced \/ \E d \in Callers \ {c} : caller[d].pc # "idle")
  /\ caller' = IF limiter = "unconnected" THEN caller
               ELSE [caller EXCEPT ![c] = [pc |-> IF limiter = "memory" THEN "trim" ELSE "incr",
                                           now |-> clock, n |-> 0]]
  /\ UNCHANGED <<limiter, clock, window, counter, bucket, grants, faults, popErrors>>

\* Faulty: the cutoff is the time of the call.
TrimHalf(c) ==
  /\ caller[c].pc = "trim"
  /\ Goto(c, IF window # <<>> /\ window[1] < caller[c].now THEN "pop" ELSE "check")
  /\ UNCHANGED <<limiter, clock, window, counter, bucket, grants, calls, raced, faults, popErrors>>

\* while window and window[0] < cutoff
Trim(c) ==
  /\ caller[c].pc = "trim"
  /\ Goto(c, IF window # <<>> /\ window[1] + W < caller[c].now THEN "pop" ELSE "check")
  /\ UNCHANGED <<limiter, clock, window, counter, bucket, grants, calls, raced, faults, popErrors>>

\* window.pop(0): raises IndexError when another call emptied the list, and
\* takes whatever is in front by now.
PopHead(c) ==
  /\ caller[c].pc = "pop"
  /\ IF window = <<>> THEN popErrors' = popErrors + 1 /\ Return(c) /\ UNCHANGED window
     ELSE window' = Tail(window) /\ Goto(c, "trim") /\ UNCHANGED popErrors
  /\ UNCHANGED <<limiter, clock, counter, bucket, grants, calls, raced, faults>>

CheckLength(c) ==
  /\ caller[c].pc = "check"
  /\ IF Len(window) >= MaxRequests THEN Return(c) ELSE Goto(c, "append")
  /\ UNCHANGED <<limiter, clock, window, counter, bucket, grants, calls, raced, faults, popErrors>>

AppendNow(c) ==
  /\ caller[c].pc = "append"
  /\ window' = Append(window, caller[c].now) /\ Granted(c) /\ Return(c)
  /\ UNCHANGED <<limiter, clock, counter, bucket, calls, raced, faults, popErrors>>

\* A Redis command fails: the call is decided by fail_closed.
Unreachable(c) ==
  /\ caller[c].pc \in {"incr", "expire"}
  /\ faults' = faults + 1 /\ Return(c)
  /\ IF limiter = "open" THEN Granted(c) ELSE UNCHANGED grants
  /\ UNCHANGED <<limiter, clock, window, counter, bucket, calls, raced, popErrors>>

\* Faulty: the count is read before and written after, as GET and SET would.
StaleIncr(c) ==
  /\ caller[c].pc = "incr"
  /\ LET k == Window(caller[c].now)
     IN /\ counter' = [counter EXCEPT ![k].n = @ + 1]
        /\ caller' = [caller EXCEPT ![c].pc = IF counter[k].n = 0 THEN "expire" ELSE "decide",
                                    ![c].n = counter[k].n]
  /\ UNCHANGED <<limiter, clock, window, bucket, grants, calls, raced, faults, popErrors>>

\* count = incr(window_key), of the window the call entered in.
Incr(c) ==
  /\ caller[c].pc = "incr"
  /\ LET k == Window(caller[c].now)
     IN /\ counter' = [counter EXCEPT ![k].n = @ + 1]
        /\ caller' = [caller EXCEPT ![c].pc = IF counter[k].n = 0 THEN "expire" ELSE "decide",
                                    ![c].n = counter[k].n + 1]
  /\ UNCHANGED <<limiter, clock, window, bucket, grants, calls, raced, faults, popErrors>>

\* expire(window_key, window_seconds)
Expire(c) ==
  /\ caller[c].pc = "expire" /\ Goto(c, "decide")
  /\ LET k == Window(caller[c].now)
     IN counter' = [counter EXCEPT ![k].exp = IF counter[k].n = 0 THEN 0 ELSE clock + W]
  /\ UNCHANGED <<limiter, clock, window, bucket, grants, calls, raced, faults, popErrors>>

Decide(c) ==
  /\ caller[c].pc = "decide" /\ Return(c)
  /\ IF caller[c].n <= MaxRequests THEN Granted(c) ELSE UNCHANGED grants
  /\ UNCHANGED <<limiter, clock, window, counter, bucket, calls, raced, faults, popErrors>>

\* Faulty: the bucket is not capped.
RefillUncapped == bucket.tokens + (clock - bucket.at) * MaxRequests
\* min(max_tokens, tokens + elapsed * refill_rate)
Refill == LET full == bucket.tokens + (clock - bucket.at) * MaxRequests
          IN IF full < MaxRequests * W THEN full ELSE MaxRequests * W

\* allow holds the lock: refill, then take one token if there is one.
Allow(c) ==
  /\ limiter = "bucket" /\ calls < MaxCalls /\ calls' = calls + 1
  /\ bucket' = IF Refill < W THEN [tokens |-> Refill, at |-> clock]
               ELSE [tokens |-> Refill - W, at |-> clock]
  /\ grants' = IF Refill < W THEN grants ELSE Append(grants, clock)
  /\ UNCHANGED <<limiter, clock, window, counter, caller, raced, faults, popErrors>>

LimitNext ==
  \/ Tick
  \/ \E c \in Callers :
        \/ Enter(c) \/ Trim(c) \/ PopHead(c) \/ CheckLength(c) \/ AppendNow(c)
        \/ Unreachable(c) \/ Incr(c) \/ Expire(c) \/ Decide(c) \/ Allow(c)
LimitSpec == LimitInit /\ [][LimitNext]_limitVars

-------------------------------------------------------------------------------
LimitTypeOK ==
  /\ limiter \in Limiters /\ clock \in 0..MaxTime /\ calls \in 0..MaxCalls
  /\ window \in Seq(0..MaxTime) /\ grants \in Seq(0..MaxTime)
  /\ bucket.tokens \in 0..(MaxRequests * W) /\ bucket.at \in 0..MaxTime
  /\ \A k \in WindowKeys : counter[k].n \in 0..MaxCalls
  /\ raced \in BOOLEAN /\ faults \in 0..MaxCalls /\ popErrors \in 0..MaxCalls

GrantsIn(lo, hi) == Cardinality({i \in DOMAIN grants : lo <= grants[i] /\ grants[i] <= hi})

\* The sliding window of rate_limit.py: as long as no two calls for the key
\* overlap, no span of W seconds ends with more than MaxRequests grants and pop(0)
\* never meets an empty list.  (Overlapping threads break both.)
SlidingWindowHolds ==
  limiter = "memory" /\ ~raced =>
     /\ popErrors = 0
     /\ \A i \in DOMAIN grants : GrantsIn(IF grants[i] > W THEN grants[i] - W ELSE 0, grants[i]) <= MaxRequests

\* The token bucket of rate_limiter.py: over any span the grants are covered
\* by one full bucket and what the span refilled.
BucketRateHolds ==
  limiter = "bucket" =>
    \A i, j \in DOMAIN grants :
       i <= j => (j - i + 1) * W <= MaxRequests * W + MaxRequests * (grants[j] - grants[i])

\* A Redis counter is left without an expiry only by a failed command: one
\* whose EXPIRE is not on its way is always going to be dropped.
CountersExpire ==
  \A k \in WindowKeys :
     counter[k].n > 0 /\ counter[k].exp = 0 /\ faults = 0
       => \E c \in Callers : caller[c].pc = "expire" /\ Window(caller[c].now) = k

\* The Redis limiter of a production build keeps the promise of Quota for the
\* current window, whatever fails and however calls overlap: an outage denies.
\* (A call that lingers beyond its own window may be granted on a counter
\* that has expired; it is not a grant of the current window.)
GrantedIn(k) == {i \in DOMAIN grants : Window(grants[i]) = k}
FailsClosed == limiter \in {"closed", "unconnected"}
QuotaWindow == IF FailsClosed THEN Window(clock) ELSE 0
QuotaGranted == IF FailsClosed THEN Cardinality(GrantedIn(Window(clock))) ELSE 0
Promise == INSTANCE Quota WITH win <- QuotaWindow, granted <- QuotaGranted
ImplementsQuota == Promise!QuotaSpec

\* The three limiters keep their limits (InMemoryRateLimiter.is_allowed,
\* TokenBucketRateLimiter.allow, RedisRateLimiter.is_allowed).
LimitsHold == SlidingWindowHolds /\ BucketRateHolds /\ CountersExpire
===============================================================================
