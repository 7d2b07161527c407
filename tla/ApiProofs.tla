------------------------------- MODULE ApiProofs -------------------------------
(***************************************************************************)
(* Proofs about the HTTP API: the limiters of RateLimits keep their limits *)
(* and the one of a production build implements Quota; the requests of     *)
(* HttpApi are audited and stay within the project of a valid token.       *)
(***************************************************************************)
EXTENDS MCApi, FiniteSetTheorems, SequenceTheorems, TLAPS

(***************************************************************************)
(* Windows: how the number of a window follows the clock.                  *)
(***************************************************************************)

\* A window lasts W ticks.
LEMMA WindowSpan ==
  ASSUME NEW t \in Nat
  PROVE  Window(t) \in Nat /\ Window(t) * W <= t /\ t < Window(t) * W + W
BY RateLimitsAssumption DEF Window

\* Whoever is between two multiples of W is in the window between them.
LEMMA WindowIs ==
  ASSUME NEW t \in Nat, NEW q \in Nat, q * W <= t, t < q * W + W
  PROVE  Window(t) = q
<1>1. PICK p : p = Window(t)
  OBVIOUS
<1>2. p \in Nat /\ p * W <= t /\ t < p * W + W
  BY <1>1, WindowSpan
<1>3. ASSUME p < q PROVE FALSE
  <2>1. (p + 1) * W <= q * W
    BY RateLimitsAssumption, <1>2, <1>3
  <2> QED
    BY <2>1, <1>2, RateLimitsAssumption
<1>4. ASSUME q < p PROVE FALSE
  <2>1. (q + 1) * W <= p * W
    BY RateLimitsAssumption, <1>2, <1>4
  <2> QED
    BY <2>1, <1>2, RateLimitsAssumption
<1> QED
  BY <1>1, <1>2, <1>3, <1>4

\* Later is never in an earlier window.
LEMMA WindowMono ==
  ASSUME NEW s \in Nat, NEW t \in Nat, s <= t
  PROVE  Window(s) <= Window(t)
<1>1. PICK p : p = Window(s)
  OBVIOUS
<1>2. PICK q : q = Window(t)
  OBVIOUS
<1>3. /\ p \in Nat /\ p * W <= s /\ s < p * W + W
      /\ q \in Nat /\ q * W <= t /\ t < q * W + W
  BY <1>1, <1>2, WindowSpan
<1>4. ASSUME q < p PROVE FALSE
  <2>1. (q + 1) * W <= p * W
    BY RateLimitsAssumption, <1>3, <1>4
  <2> QED
    BY <2>1, <1>3, RateLimitsAssumption
<1> QED
  BY <1>1, <1>2, <1>3, <1>4

\* A tick stays in the window or enters the next one.
LEMMA WindowTick ==
  ASSUME NEW t \in Nat
  PROVE  Window(t + 1) \in {Window(t), Window(t) + 1}
<1>1. PICK p : p = Window(t)
  OBVIOUS
<1>2. p \in Nat /\ p * W <= t /\ t < p * W + W
  BY <1>1, WindowSpan
<1>3. CASE t + 1 < p * W + W
  <2>1. t + 1 \in Nat /\ p * W <= t + 1
    BY <1>2, RateLimitsAssumption
  <2> QED
    BY <1>1, <1>2, <1>3, <2>1, WindowIs
<1>4. CASE t + 1 = (p + 1) * W
  <2>1. p + 1 \in Nat /\ t + 1 \in Nat /\ (p + 1) * W <= t + 1 /\ t + 1 < (p + 1) * W + W
    BY <1>2, <1>4, RateLimitsAssumption
  <2> QED
    BY <1>1, <2>1, WindowIs
<1> QED
  BY <1>2, <1>3, <1>4, RateLimitsAssumption

\* W ticks later it is the next window.
LEMMA WindowNext ==
  ASSUME NEW t \in Nat
  PROVE  Window(t + W) = Window(t) + 1
<1>1. PICK p : p = Window(t)
  OBVIOUS
<1>2. p \in Nat /\ p * W <= t /\ t < p * W + W
  BY <1>1, WindowSpan
<1>3. (p + 1) * W = p * W + W
  BY <1>2, RateLimitsAssumption
<1> QED
  BY <1>1, <1>2, <1>3, WindowIs, RateLimitsAssumption

(***************************************************************************)
(* RateLimits: the inductive invariant.                                    *)
(***************************************************************************)
MemoryLabels == {"trim", "pop", "check", "append"}
RedisLabels == {"incr", "expire", "decide"}
Labels == {"idle"} \cup MemoryLabels \cup RedisLabels
CallerRecord == [pc : Labels, now : Nat, n : Nat]
LimitTyped ==
  /\ limiter \in Limiters /\ clock \in 0..MaxTime
  /\ window \in Seq(Nat) /\ grants \in Seq(Nat)
  /\ bucket \in [tokens : 0..(MaxRequests * W), at : Nat]
  /\ counter \in [WindowKeys -> [n : Nat, exp : Nat]]
  /\ caller \in [Callers -> CallerRecord]
  /\ calls \in 0..MaxCalls /\ faults \in Nat /\ popErrors \in Nat /\ raced \in BOOLEAN
\* A call is in a step of the limiter that is configured, and nothing was read
\* or granted in the future.
OwnSteps ==
  /\ \A c \in Callers : caller[c].pc \in MemoryLabels => limiter = "memory"
  /\ \A c \in Callers : caller[c].pc \in RedisLabels => IsRedis
  /\ \A c \in Callers : caller[c].now <= clock
  /\ \A i \in DOMAIN grants : grants[i] <= clock
  /\ bucket.at <= clock
\* The steps of the calls that interleave.
CallStep(c) ==
  \/ Enter(c) \/ Trim(c) \/ PopHead(c) \/ CheckLength(c) \/ AppendNow(c)
  \/ Unreachable(c) \/ Incr(c) \/ Expire(c) \/ Decide(c)

\* c goes on to label p with the time t and the count m.
Moves(c, p, t, m) == caller' = [caller EXCEPT ![c] = [pc |-> p, now |-> t, n |-> m]]

\* What a move leaves.
LEMMA MovesTo ==
  ASSUME caller \in [Callers -> CallerRecord], NEW c \in Callers, NEW p \in Labels,
         NEW t \in Nat, NEW m \in Nat, Moves(c, p, t, m)
  PROVE  /\ caller' \in [Callers -> CallerRecord]
         /\ caller'[c].pc = p /\ caller'[c].now = t /\ caller'[c].n = m
         /\ \A d \in Callers : d # c => caller'[d] = caller[d]
<1>1. [pc |-> p, now |-> t, n |-> m] \in CallerRecord
  BY DEF CallerRecord
<1> QED
  BY <1>1 DEF Moves

\* A call that goes on keeps what it has read.
LEMMA GotoMoves ==
  ASSUME caller \in [Callers -> CallerRecord], NEW c \in Callers, NEW p \in Labels, Goto(c, p)
  PROVE  Moves(c, p, caller[c].now, caller[c].n)
<1>1. PICK u \in CallerRecord : u = caller[c]
  OBVIOUS
<1>2. [u EXCEPT !.pc = p] = [pc |-> p, now |-> u.now, n |-> u.n]
  BY <1>1 DEF CallerRecord
<1>3. caller' = [caller EXCEPT ![c] = [u EXCEPT !.pc = p]]
  BY <1>1 DEF Goto
<1> QED
  BY <1>1, <1>2, <1>3 DEF Moves

\* A call that ends forgets it.
LEMMA ReturnMoves ==
  ASSUME NEW c, Return(c)
  PROVE  Moves(c, "idle", 0, 0)
BY DEF Return, Moves, IdleCaller

\* The counter of a call's window exists.
LEMMA CallWindow ==
  ASSUME LimitTyped, OwnSteps, NEW c \in Callers
  PROVE  /\ Window(caller[c].now) \in WindowKeys /\ Window(caller[c].now) <= Window(clock)
         /\ Window(clock) \in WindowKeys
<1>1. caller[c].now \in Nat /\ clock \in Nat /\ MaxTime \in Nat /\ caller[c].now <= clock /\ clock <= MaxTime
  BY RateLimitsAssumption DEF LimitTyped, OwnSteps, CallerRecord
<1>2. /\ Window(caller[c].now) \in Nat /\ Window(clock) \in Nat /\ Window(MaxTime) \in Nat
      /\ Window(caller[c].now) <= Window(clock) /\ Window(clock) <= Window(MaxTime)
  BY <1>1, WindowSpan, WindowMono
<1> QED
  BY <1>2 DEF WindowKeys

\* Every step of a call is a move of that call, from a label of its limiter to
\* another one or to the end.
LEMMA CallerMoves ==
  ASSUME LimitTyped, OwnSteps, NEW c \in Callers, CallStep(c)
  PROVE  \/ UNCHANGED caller
         \/ \E p \in Labels, m \in Nat : \E t \in {0, caller[c].now, clock} :
              /\ Moves(c, p, t, m)
              /\ p \in MemoryLabels => limiter = "memory"
              /\ p \in RedisLabels => IsRedis
<1>1. /\ caller \in [Callers -> CallerRecord] /\ caller[c].n \in Nat /\ caller[c].now \in Nat
      /\ counter \in [WindowKeys -> [n : Nat, exp : Nat]] /\ limiter \in Limiters
  BY DEF LimitTyped, CallerRecord
<1>2. /\ caller[c].pc \in MemoryLabels => limiter = "memory"
      /\ caller[c].pc \in RedisLabels => IsRedis
  BY DEF OwnSteps
<1> USE DEF Labels, MemoryLabels, RedisLabels
<1>3. CASE Enter(c)
  <2>1. CASE limiter = "unconnected"
    BY <1>3, <2>1 DEF Enter
  <2>2. CASE limiter = "memory"
    <3>1. Moves(c, "trim", clock, 0)
      BY <1>3, <2>2 DEF Enter, Moves
    <3> QED
      BY <2>2, <3>1
  <2>3. CASE IsRedis
    <3>1. Moves(c, "incr", clock, 0)
      BY <1>3, <2>3 DEF Enter, Moves, IsRedis
    <3> QED
      BY <2>3, <3>1
  <2> QED
    BY <1>1, <1>3, <2>1, <2>2, <2>3 DEF Enter, Limiters, IsRedis
<1>4. CASE Trim(c) \/ PopHead(c) \/ CheckLength(c) \/ AppendNow(c) \/ Unreachable(c) \/ Expire(c) \/ Decide(c)
  <2>1. Return(c) \/ \E p \in Labels : Goto(c, p) /\ (p \in MemoryLabels => limiter = "memory")
                                              /\ (p \in RedisLabels => IsRedis)
    BY <1>4, <1>2 DEF Trim, PopHead, CheckLength, AppendNow, Unreachable, Expire, Decide
  <2> QED
    BY <2>1, <1>1, GotoMoves, ReturnMoves
<1>5. CASE Incr(c)
  <2>1. PICK k \in WindowKeys : k = Window(caller[c].now)
    BY CallWindow
  <2>2. PICK u \in CallerRecord : u = caller[c]
    BY <1>1
  <2>3. PICK p \in {"expire", "decide"} : p = IF counter[k].n = 0 THEN "expire" ELSE "decide"
    OBVIOUS
  <2>4. PICK m \in Nat : m = counter[k].n + 1
    BY <1>1
  <2>5. caller' = [caller EXCEPT ![c] = [u EXCEPT !.pc = p, !.n = m]]
    BY <1>5, <2>1, <2>2, <2>3, <2>4 DEF Incr
  <2>6. [u EXCEPT !.pc = p, !.n = m] = [pc |-> p, now |-> u.now, n |-> m]
    <3>1. [u EXCEPT !.pc = p] = [pc |-> p, now |-> u.now, n |-> u.n]
      BY DEF CallerRecord
    <3>2. [[pc |-> p, now |-> u.now, n |-> u.n] EXCEPT !.n = m] = [pc |-> p, now |-> u.now, n |-> m]
      OBVIOUS
    <3> QED
      BY <3>1, <3>2
  <2>7. Moves(c, p, caller[c].now, m)
    BY <2>2, <2>5, <2>6 DEF Moves
  <2> QED
    BY <1>2, <1>5, <2>7 DEF Incr
<1> QED
  BY <1>3, <1>4, <1>5 DEF CallStep

\* A move keeps the calls in steps of their limiter.
LEMMA MovesOwn ==
  ASSUME LimitTyped, OwnSteps, NEW c \in Callers, NEW p \in Labels, NEW m \in Nat,
         NEW t \in {0, caller[c].now, clock}, Moves(c, p, t, m), UNCHANGED <<limiter, clock>>,
         p \in MemoryLabels => limiter = "memory", p \in RedisLabels => IsRedis
  PROVE  /\ caller' \in [Callers -> CallerRecord]
         /\ \A d \in Callers : caller'[d].pc \in MemoryLabels => limiter' = "memory"
         /\ \A d \in Callers : caller'[d].pc \in RedisLabels => IsRedis'
         /\ \A d \in Callers : caller'[d].now <= clock'
<1>1. caller \in [Callers -> CallerRecord] /\ caller[c].now \in Nat /\ clock \in Nat
  BY RateLimitsAssumption DEF LimitTyped, CallerRecord
<1>2. t \in Nat /\ t <= clock
  BY <1>1 DEF OwnSteps
<1>3. /\ caller' \in [Callers -> CallerRecord]
      /\ caller'[c].pc = p /\ caller'[c].now = t
      /\ \A d \in Callers : d # c => caller'[d] = caller[d]
  BY <1>1, <1>2, MovesTo
<1> QED
  BY <1>2, <1>3 DEF OwnSteps, IsRedis

\* A step of one call leaves the others alone.
LEMMA OtherCallers ==
  ASSUME LimitTyped, OwnSteps, NEW c \in Callers, CallStep(c)
  PROVE  \A d \in Callers : d # c => caller'[d] = caller[d]
<1>1. CASE UNCHANGED caller
  BY <1>1
<1>2. ASSUME NEW p \in Labels, NEW m \in Nat, NEW t, Moves(c, p, t, m)
      PROVE  \A d \in Callers : d # c => caller'[d] = caller[d]
  BY <1>2 DEF Moves, LimitTyped
<1> QED
  BY <1>1, <1>2, CallerMoves

\* Counting and setting the expiry are for the time the call came.
LEMMA SameTime ==
  ASSUME LimitTyped, NEW c \in Callers, Incr(c) \/ Expire(c)
  PROVE  caller'[c].now = caller[c].now
BY DEF Incr, Expire, Goto, LimitTyped, CallerRecord

\* One more grant, at a time that has come.
LEMMA GrantTyped ==
  ASSUME NEW t \in Nat, t <= clock, clock \in Nat, grants \in Seq(Nat),
         \A i \in DOMAIN grants : grants[i] <= clock,
         grants' \in {grants, Append(grants, t)}
  PROVE  grants' \in Seq(Nat) /\ \A i \in DOMAIN grants' : grants'[i] <= clock
<1>1. CASE grants' = Append(grants, t)
  <2>1. /\ grants' \in Seq(Nat) /\ DOMAIN grants' = 1..(Len(grants) + 1)
        /\ grants'[Len(grants) + 1] = t /\ \A i \in 1..Len(grants) : grants'[i] = grants[i]
    BY <1>1
  <2>2. ASSUME NEW i \in 1..(Len(grants) + 1) PROVE grants'[i] <= clock
    BY <2>1, <2>2
  <2> QED
    BY <2>1, <2>2
<1> QED
  BY <1>1

\* The bucket is never filled beyond its size.
LEMMA RefillType ==
  ASSUME LimitTyped, OwnSteps
  PROVE  /\ Refill \in 0..(MaxRequests * W)
         /\ Refill <= bucket.tokens + (clock - bucket.at) * MaxRequests
<1>1. PICK e \in Nat : e = clock - bucket.at
  BY RateLimitsAssumption DEF LimitTyped, OwnSteps
<1>2. e * MaxRequests \in Nat /\ MaxRequests * W \in Nat /\ bucket.tokens \in Nat
  BY RateLimitsAssumption DEF LimitTyped
<1> QED
  BY <1>1, <1>2 DEF Refill

\* The steps keep the types and the order of times.
LEMMA LimitTypedNext ==
  ASSUME LimitTyped, OwnSteps, LimitNext
  PROVE  LimitTyped' /\ OwnSteps'
<1>1. /\ clock \in Nat /\ clock \in 0..MaxTime /\ calls \in 0..MaxCalls
      /\ W \in Nat \ {0} /\ MaxRequests \in Nat \ {0} /\ MaxTime \in Nat /\ MaxCalls \in Nat
  BY RateLimitsAssumption DEF LimitTyped
<1>2. CASE Tick
  <2>1. clock' = clock + 1 /\ clock' \in 0..MaxTime
    BY <1>1, <1>2 DEF Tick
  <2>2. counter' \in [WindowKeys -> [n : Nat, exp : Nat]]
    BY <1>2 DEF Tick, LimitTyped
  <2>3. LimitTyped'
    BY <1>2, <2>1, <2>2 DEF Tick, LimitTyped
  <2>4. UNCHANGED <<limiter, caller, grants, bucket>>
    BY <1>2 DEF Tick
  <2>5. /\ \A c \in Callers : caller'[c].pc \in MemoryLabels => limiter' = "memory"
        /\ \A c \in Callers : caller'[c].pc \in RedisLabels => IsRedis'
    BY <2>4 DEF OwnSteps, IsRedis
  <2>6. \A c \in Callers : caller'[c].now <= clock'
    BY <1>1, <2>1, <2>4 DEF OwnSteps, LimitTyped, CallerRecord
  <2>7. \A i \in DOMAIN grants' : grants'[i] <= clock'
    <3>1. ASSUME NEW i \in DOMAIN grants PROVE grants[i] <= clock + 1
      <4>1. grants[i] \in Nat /\ grants[i] <= clock
        BY <3>1 DEF OwnSteps, LimitTyped
      <4> QED
        BY <1>1, <4>1
    <3> QED
      BY <2>1, <2>4, <3>1
  <2>8. bucket'.at <= clock'
    BY <1>1, <2>1, <2>4 DEF OwnSteps, LimitTyped
  <2> QED
    BY <2>3, <2>5, <2>6, <2>7, <2>8 DEF OwnSteps
<1>3. ASSUME NEW c \in Callers, Allow(c) PROVE LimitTyped' /\ OwnSteps'
  <2>1. Refill \in 0..(MaxRequests * W)
    BY <1>1, RefillType
  <2>2. bucket' \in [tokens : 0..(MaxRequests * W), at : Nat] /\ bucket'.at = clock
    BY <1>1, <1>3, <2>1 DEF Allow
  <2>3. grants' \in Seq(Nat) /\ \A i \in DOMAIN grants' : grants'[i] <= clock
    <3>1. grants' \in {grants, Append(grants, clock)}
      BY <1>3 DEF Allow
    <3> QED
      BY <1>1, <3>1, GrantTyped DEF LimitTyped, OwnSteps
  <2>4. calls' \in 0..MaxCalls /\ UNCHANGED <<limiter, clock, window, counter, caller, raced, faults, popErrors>>
    BY <1>1, <1>3 DEF Allow
  <2> QED
    BY <1>1, <2>2, <2>3, <2>4 DEF LimitTyped, OwnSteps, IsRedis
<1>4. ASSUME NEW c \in Callers, CallStep(c)
      PROVE  LimitTyped' /\ OwnSteps'
  <2>1. UNCHANGED <<limiter, clock, bucket>>
    BY <1>4 DEF CallStep, Enter, Trim, PopHead, CheckLength, AppendNow, Unreachable, Incr, Expire, Decide
  <2>2. /\ caller' \in [Callers -> CallerRecord]
        /\ \A d \in Callers : caller'[d].pc \in MemoryLabels => limiter' = "memory"
        /\ \A d \in Callers : caller'[d].pc \in RedisLabels => IsRedis'
        /\ \A d \in Callers : caller'[d].now <= clock'
    <3>1. CASE UNCHANGED caller
      BY <2>1, <3>1 DEF LimitTyped, OwnSteps, IsRedis
    <3> QED
      BY <1>4, <2>1, <3>1, CallerMoves, MovesOwn
  <2>3. caller[c].now \in Nat /\ caller[c].now <= clock
    BY DEF LimitTyped, OwnSteps, CallerRecord
  <2>4. grants' \in {grants, Append(grants, caller[c].now)}
    BY <1>4 DEF CallStep, Granted, Enter, Trim, PopHead, CheckLength, AppendNow, Unreachable, Incr, Expire, Decide
  <2>5. grants' \in Seq(Nat) /\ \A i \in DOMAIN grants' : grants'[i] <= clock
    BY <1>1, <2>3, <2>4, GrantTyped DEF LimitTyped, OwnSteps
  <2>6. window' \in Seq(Nat)
    <3>1. CASE PopHead(c)
      <4>1. window' = window \/ (window # <<>> /\ window' = Tail(window))
        BY <3>1 DEF PopHead
      <4>2. window \in Seq(Nat)
        BY DEF LimitTyped
      <4> QED
        BY <4>1, <4>2
    <3>2. CASE AppendNow(c)
      BY <2>3, <3>2 DEF LimitTyped, AppendNow
    <3> QED
      BY <1>4, <3>1, <3>2 DEF CallStep, LimitTyped, Enter, Trim, CheckLength, Unreachable, Incr, Expire, Decide
  <2>7. counter' \in [WindowKeys -> [n : Nat, exp : Nat]]
    <3>1. PICK k \in WindowKeys : k = Window(caller[c].now)
      BY CallWindow
    <3>2. counter \in [WindowKeys -> [n : Nat, exp : Nat]]
      BY DEF LimitTyped
    <3>3. CASE Incr(c)
      BY <3>1, <3>2, <3>3 DEF Incr
    <3>4. CASE Expire(c)
      BY <1>1, <3>1, <3>2, <3>4 DEF Expire
    <3> QED
      BY <1>4, <3>2, <3>3, <3>4 DEF CallStep, Enter, Trim, PopHead, CheckLength, AppendNow, Unreachable, Decide
  <2>8. calls' \in 0..MaxCalls /\ faults' \in Nat /\ popErrors' \in Nat
    <3>1. calls' \in {calls, calls + 1} /\ (calls' # calls => calls < MaxCalls)
      BY <1>4 DEF CallStep, Enter, Trim, PopHead, CheckLength, AppendNow, Unreachable, Incr, Expire, Decide
    <3>2. faults' \in {faults, faults + 1}
      BY <1>4 DEF CallStep, Enter, Trim, PopHead, CheckLength, AppendNow, Unreachable, Incr, Expire, Decide
    <3>3. popErrors' \in {popErrors, popErrors + 1}
      BY <1>4 DEF CallStep, Enter, Trim, PopHead, CheckLength, AppendNow, Unreachable, Incr, Expire, Decide
    <3> QED
      BY <1>1, <3>1, <3>2, <3>3 DEF LimitTyped
  <2>10. raced' \in BOOLEAN
    <3>1. raced \in BOOLEAN
      BY DEF LimitTyped
    <3>2. CASE Enter(c)
      BY <3>1, <3>2 DEF Enter
    <3> QED
      BY <1>4, <3>1, <3>2 DEF CallStep, Trim, PopHead, CheckLength, AppendNow, Unreachable, Incr, Expire, Decide
  <2>9. LimitTyped'
    BY <2>1, <2>2, <2>5, <2>6, <2>7, <2>8, <2>10 DEF LimitTyped
  <2> QED
    BY <2>1, <2>2, <2>5, <2>9 DEF OwnSteps
<1> QED
  BY <1>2, <1>3, <1>4 DEF LimitNext, CallStep

(***************************************************************************)
(* RateLimits: the token bucket.                                           *)
(***************************************************************************)

\* Every grant lies in the past of the bucket, and what was granted since a
\* grant, with what the bucket still holds, is covered by a full bucket and
\* what was refilled since.
BucketInv ==
  limiter = "bucket" =>
    \A i \in DOMAIN grants :
      /\ grants[i] <= bucket.at
      /\ (Len(grants) - i + 1) * W + bucket.tokens
           <= MaxRequests * W + MaxRequests * (bucket.at - grants[i])

\* The arithmetic of a refill after e ticks, for a grant of d ticks before.
LEMMA RefillArith ==
  ASSUME NEW a \in Nat, NEW b \in Nat, NEW d \in Nat, NEW e \in Nat, NEW x \in Nat,
         a + b <= x + MaxRequests * d
  PROVE  a + (b + e * MaxRequests) <= x + MaxRequests * (d + e)
<1>1. MaxRequests * (d + e) = MaxRequests * d + e * MaxRequests
  BY RateLimitsAssumption
<1>2. MaxRequests * d \in Nat /\ e * MaxRequests \in Nat
  BY RateLimitsAssumption
<1> QED
  BY <1>1, <1>2

\* A call of allow keeps the account of the bucket.
LEMMA AllowKeeps ==
  ASSUME LimitTyped, OwnSteps, BucketInv, BucketRateHolds, NEW c \in Callers, Allow(c)
  PROVE  BucketInv' /\ BucketRateHolds'
<1> DEFINE L == Len(grants)
           X == MaxRequests * W
<1>1. /\ limiter = "bucket" /\ limiter' = "bucket" /\ bucket'.at = clock
      /\ L \in Nat /\ clock \in Nat /\ bucket.at \in Nat /\ bucket.tokens \in Nat
      /\ bucket.at <= clock /\ X \in Nat /\ grants \in Seq(Nat)
  BY RateLimitsAssumption DEF LimitTyped, OwnSteps, Allow
<1>2. PICK e \in Nat : e = clock - bucket.at
  BY <1>1
<1>3. Refill \in Nat /\ Refill <= X /\ Refill <= bucket.tokens + e * MaxRequests
  BY <1>2, RefillType
\* what every earlier grant accounts for after the refill
<1>4. ASSUME NEW i \in 1..L
      PROVE  /\ grants[i] <= clock
             /\ (L - i + 1) * W + Refill <= X + MaxRequests * (clock - grants[i])
  <2>1. PICK g \in Nat : g = grants[i]
    BY <1>1
  <2>2. g <= bucket.at /\ (L - i + 1) * W + bucket.tokens <= X + MaxRequests * (bucket.at - g)
    BY <1>1, <2>1 DEF BucketInv
  <2>3. PICK a \in Nat : a = (L - i + 1) * W
    BY <1>1, RateLimitsAssumption
  <2>4. PICK d \in Nat : d = bucket.at - g
    BY <1>1, <2>1, <2>2
  <2>5. a + (bucket.tokens + e * MaxRequests) <= X + MaxRequests * (d + e)
    BY <1>1, <2>2, <2>3, <2>4, RefillArith
  <2>6. d + e = clock - g
    BY <1>1, <1>2, <2>1, <2>4
  <2>7. e * MaxRequests \in Nat /\ MaxRequests * (d + e) \in Nat
    BY RateLimitsAssumption
  <2>8. a + Refill <= X + MaxRequests * (d + e)
    BY <1>1, <1>3, <2>5, <2>7
  <2>9. g <= clock
    BY <1>1, <2>1, <2>2
  <2> QED
    BY <2>1, <2>3, <2>6, <2>8, <2>9
<1>5. CASE Refill < W
  <2>1. grants' = grants /\ bucket'.tokens = Refill
    BY <1>5 DEF Allow
  <2>2. BucketInv'
    BY <1>1, <1>4, <2>1 DEF BucketInv
  <2> QED
    BY <1>1, <2>1, <2>2 DEF BucketRateHolds
<1>6. CASE ~(Refill < W)
  <2>1. /\ grants' = Append(grants, clock) /\ bucket'.tokens = Refill - W
    BY <1>6 DEF Allow
  <2>2. /\ Len(grants') = L + 1 /\ DOMAIN grants' = 1..(L + 1) /\ DOMAIN grants = 1..L
        /\ grants'[L + 1] = clock /\ \A i \in 1..L : grants'[i] = grants[i]
    BY <1>1, <2>1
  <2>3. ASSUME NEW i \in 1..(L + 1)
        PROVE  /\ grants'[i] <= clock
               /\ (L + 1 - i + 1) * W + (Refill - W) <= X + MaxRequests * (clock - grants'[i])
    <3>1. CASE i = L + 1
      <4>1. (L + 1 - i + 1) * W = W /\ MaxRequests * (clock - clock) = 0
        BY <1>1, <3>1, RateLimitsAssumption
      <4> QED
        BY <1>1, <1>3, <2>2, <3>1, <4>1, RateLimitsAssumption
    <3>2. CASE i \in 1..L
      <4>1. (L + 1 - i + 1) * W = (L - i + 1) * W + W /\ (L - i + 1) * W \in Nat
        BY <1>1, <3>2, RateLimitsAssumption
      <4>2. grants[i] \in Nat /\ MaxRequests * (clock - grants[i]) \in Int
        BY <1>1, <3>2, RateLimitsAssumption
      <4> QED
        BY <1>1, <1>3, <1>4, <2>2, <3>2, <4>1, <4>2, RateLimitsAssumption
    <3> QED
      BY <1>1, <3>1, <3>2
  <2>4. BucketInv'
    BY <1>1, <2>1, <2>2, <2>3 DEF BucketInv
  <2>5. ASSUME NEW i \in 1..(L + 1), NEW j \in 1..(L + 1), i <= j
        PROVE  (j - i + 1) * W <= X + MaxRequests * (grants'[j] - grants'[i])
    <3>1. CASE j = L + 1
      <4>1. (L + 1 - i + 1) * W + (Refill - W) <= X + MaxRequests * (clock - grants'[i])
        BY <2>3
      <4>2. /\ grants'[i] \in Nat /\ MaxRequests * (clock - grants'[i]) \in Int
            /\ (L + 1 - i + 1) * W \in Nat
        BY <1>1, <2>2, RateLimitsAssumption
      <4> QED
        BY <1>1, <1>3, <1>6, <2>2, <3>1, <4>1, <4>2, RateLimitsAssumption
    <3>2. CASE j \in 1..L
      <4>1. i \in 1..L /\ grants'[i] = grants[i] /\ grants'[j] = grants[j]
        BY <1>1, <2>2, <2>5, <3>2
      <4>2. (j - i + 1) * W <= X + MaxRequests * (grants[j] - grants[i])
        BY <1>1, <2>2, <2>5, <3>2, <4>1 DEF BucketRateHolds
      <4> QED
        BY <4>1, <4>2
    <3> QED
      BY <1>1, <3>1, <3>2
  <2> QED
    BY <1>1, <2>2, <2>4, <2>5 DEF BucketRateHolds
<1> QED
  BY <1>5, <1>6

\* No other step has anything to do with the bucket.
LEMMA BucketNext ==
  ASSUME LimitTyped, OwnSteps, BucketInv, BucketRateHolds, LimitNext
  PROVE  BucketInv' /\ BucketRateHolds'
<1>1. CASE Tick
  BY <1>1 DEF Tick, BucketInv, BucketRateHolds
<1>2. ASSUME NEW c \in Callers, CallStep(c) PROVE BucketInv' /\ BucketRateHolds'
  <2>1. limiter' = limiter /\ limiter # "bucket"
    BY <1>2 DEF CallStep, OwnSteps, IsRedis, MemoryLabels, RedisLabels, Enter, Trim, PopHead, CheckLength,
                AppendNow, Unreachable, Incr, Expire, Decide
  <2> QED
    BY <2>1 DEF BucketInv, BucketRateHolds
<1> QED
  BY <1>1, <1>2, AllowKeeps DEF LimitNext, CallStep

(***************************************************************************)
(* RateLimits: the counters in Redis.                                      *)
(***************************************************************************)

\* Whoever makes a counter positive is about to give it an expiry.
LEMMA CountersNext ==
  ASSUME LimitTyped, OwnSteps, CountersExpire, LimitNext
  PROVE  CountersExpire'
<1>1. CASE Tick
  BY <1>1 DEF Tick, LimitTyped, CountersExpire
<1>2. ASSUME NEW c \in Callers, Allow(c) PROVE CountersExpire'
  BY <1>2 DEF Allow, CountersExpire
<1>3. ASSUME NEW c \in Callers, Enter(c) \/ Trim(c) \/ PopHead(c) \/ CheckLength(c) \/ AppendNow(c) \/ Decide(c)
      PROVE  CountersExpire'
  <2>1. UNCHANGED <<counter, faults>> /\ caller[c].pc # "expire"
    BY <1>3 DEF Enter, Trim, PopHead, CheckLength, AppendNow, Decide
  <2>2. \A d \in Callers : d # c => caller'[d] = caller[d]
    BY <1>3, OtherCallers DEF CallStep
  <2> QED
    BY <2>1, <2>2 DEF CountersExpire
<1>4. ASSUME NEW c \in Callers, Unreachable(c) PROVE CountersExpire'
  <2>1. faults \in Nat /\ faults' = faults + 1
    BY <1>4 DEF Unreachable, LimitTyped
  <2> QED
    BY <2>1 DEF CountersExpire
<1>5. ASSUME NEW c \in Callers, Incr(c) \/ Expire(c) PROVE CountersExpire'
  <2>1. PICK k \in WindowKeys : k = Window(caller[c].now)
    BY CallWindow
  <2>2. /\ \A d \in Callers : d # c => caller'[d] = caller[d]
        /\ caller'[c].now = caller[c].now
    BY <1>5, OtherCallers, SameTime DEF CallStep
  <2>3. counter \in [WindowKeys -> [n : Nat, exp : Nat]] /\ W \in Nat \ {0} /\ clock \in Nat
    BY RateLimitsAssumption DEF LimitTyped
  <2>4. CASE Incr(c)
    <3>1. /\ \A x \in WindowKeys : x # k => counter'[x] = counter[x]
          /\ counter'[k].exp = counter[k].exp /\ counter'[k].n = counter[k].n + 1
          /\ UNCHANGED faults /\ caller[c].pc = "incr"
      BY <2>1, <2>3, <2>4 DEF Incr
    <3>2. counter[k].n = 0 => caller'[c].pc = "expire"
      BY <2>1, <2>3, <2>4 DEF Incr, LimitTyped, CallerRecord
    <3>3. ASSUME NEW x \in WindowKeys, counter'[x].n > 0, counter'[x].exp = 0, faults' = 0
          PROVE  \E d \in Callers : caller'[d].pc = "expire" /\ Window(caller'[d].now) = x
      <4>1. CASE x = k /\ counter[k].n = 0
        BY <2>1, <2>2, <3>2, <4>1
      <4>2. CASE ~(x = k /\ counter[k].n = 0)
        <5>1. counter[x].n > 0 /\ counter[x].exp = 0 /\ faults = 0
          BY <2>3, <3>1, <3>3, <4>2
        <5> QED
          BY <2>2, <3>1, <5>1 DEF CountersExpire
      <4> QED
        BY <4>1, <4>2
    <3> QED
      BY <3>3 DEF CountersExpire
  <2>5. CASE Expire(c)
    <3>1. /\ \A x \in WindowKeys : x # k => counter'[x] = counter[x]
          /\ counter'[k].n = counter[k].n
          /\ counter'[k].exp = IF counter[k].n = 0 THEN 0 ELSE clock + W
          /\ UNCHANGED faults
      BY <2>1, <2>3, <2>5 DEF Expire
    <3>2. ASSUME NEW x \in WindowKeys, counter'[x].n > 0, counter'[x].exp = 0, faults' = 0
          PROVE  \E d \in Callers : caller'[d].pc = "expire" /\ Window(caller'[d].now) = x
      <4>1. x # k
        BY <2>3, <3>1, <3>2
      <4>2. PICK d \in Callers : caller[d].pc = "expire" /\ Window(caller[d].now) = x
        BY <3>1, <3>2, <4>1 DEF CountersExpire
      <4> QED
        BY <2>1, <2>2, <4>1, <4>2
    <3> QED
      BY <3>2 DEF CountersExpire
  <2> QED
    BY <1>5, <2>4, <2>5
<1> QED
  BY <1>1, <1>2, <1>3, <1>4, <1>5 DEF LimitNext

(***************************************************************************)
(* RateLimits: the sliding window.                                         *)
(***************************************************************************)
Entered(c) == caller[c].pc # "idle"
\* The window holds all grants but the first b, and those are over W seconds
\* old for every call that is under way or still to come.
Trimmed(b) ==
  /\ Len(window) = Len(grants) - b
  /\ \A i \in 1..Len(window) : window[i] = grants[b + i]
  /\ \A i \in 1..b : grants[i] + W < clock
  /\ \A i \in 1..b, c \in Callers : Entered(c) => grants[i] + W < caller[c].now
\* As long as no calls overlapped: there is one at a time, it is not older than
\* any grant, and what it found out about the window still holds.
WindowInv ==
  /\ \A c, d \in Callers : Entered(c) /\ Entered(d) => c = d
  /\ \A c \in Callers : Entered(c) => \A i \in DOMAIN grants : grants[i] <= caller[c].now
  /\ \E b \in 0..Len(grants) : Trimmed(b)
  /\ \A c \in Callers : caller[c].pc = "append" => Len(window) < MaxRequests
  /\ \A c \in Callers : caller[c].pc = "pop" => window # <<>> /\ window[1] + W < caller[c].now
SlidingInv == limiter = "memory" /\ ~raced => WindowInv
SpanStart(t) == IF t > W THEN t - W ELSE 0
Span(s, lo, hi) == {i \in DOMAIN s : lo <= s[i] /\ s[i] <= hi}
WithinLimit == /\ popErrors = 0
               /\ \A i \in DOMAIN grants : GrantsIn(SpanStart(grants[i]), grants[i]) <= MaxRequests

\* What is below the end of an interval.
LEMMA BelowNext ==
  ASSUME NEW n \in Nat, NEW j \in 1..(n + 1), j # n + 1
  PROVE  j \in 1..n
OBVIOUS

\* The window grows by a grant; the limit holds for every span that ends with it.
LEMMA AppendKeepsLimit ==
  ASSUME LimitTyped, NEW b \in 0..Len(grants), NEW x \in Nat, WithinLimit,
         Len(grants) - b < MaxRequests,
         \A i \in 1..b : grants[i] + W < x,
         \A i \in DOMAIN grants : grants[i] <= x,
         grants' = Append(grants, x), popErrors' = popErrors
  PROVE  WithinLimit'
<1> DEFINE L == Len(grants)
<1>1. /\ L \in Nat /\ grants \in Seq(Nat) /\ DOMAIN grants = 1..L
      /\ DOMAIN grants' = 1..(L + 1) /\ grants'[L + 1] = x
      /\ \A i \in 1..L : grants'[i] = grants[i] /\ grants[i] \in Nat
  BY DEF LimitTyped
<1>2. W \in Nat \ {0} /\ MaxRequests \in Nat \ {0}
  BY RateLimitsAssumption
<1>3. SpanStart(x) \in Nat /\ \A i \in 1..b : grants'[i] < SpanStart(x)
  BY <1>1, <1>2 DEF SpanStart
<1>4. Cardinality(Span(grants', SpanStart(x), x)) <= MaxRequests
  <2>1. PICK S : S = Span(grants', SpanStart(x), x)
    OBVIOUS
  <2>2. S \subseteq (b + 1)..(L + 1)
    BY <1>1, <1>3, <2>1 DEF Span
  <2>3. /\ IsFiniteSet((b + 1)..(L + 1))
        /\ Cardinality((b + 1)..(L + 1)) = L + 1 - b
    BY <1>1, FS_Interval
  <2>4. Cardinality(S) <= L + 1 - b /\ Cardinality(S) \in Nat
    BY <2>2, <2>3, FS_Subset, FS_CardinalityType
  <2>5. PICK m \in Nat : m = Cardinality(S)
    BY <2>4
  <2>6. m <= MaxRequests
    BY <1>1, <1>2, <2>4, <2>5
  <2> QED
    BY <2>1, <2>5, <2>6
<1>5. ASSUME NEW i \in 1..L
      PROVE  Cardinality(Span(grants', SpanStart(grants[i]), grants[i])) <= MaxRequests
  <2>1. CASE grants[i] = x
    BY <1>4, <2>1
  <2>2. CASE grants[i] < x
    <3>1. PICK g \in Nat : g = grants[i]
      BY <1>1
    <3>2. PICK lo : lo = SpanStart(g)
      OBVIOUS
    <3>3. ~(x <= g)
      BY <2>2, <3>1
    <3>4. \A j : j \in Span(grants', lo, g) <=> j \in Span(grants, lo, g)
      <4>1. ASSUME NEW j \in 1..L PROVE grants'[j] = grants[j] /\ j \in 1..(L + 1)
        BY <1>1
      <4>2. ASSUME NEW j \in 1..(L + 1), grants'[j] <= g PROVE j \in 1..L
        <5>1. j # L + 1
          BY <1>1, <3>3, <4>2, Zenon
        <5> QED
          BY <1>1, <5>1, BelowNext, Zenon
      <4> QED
        BY <1>1, <4>1, <4>2 DEF Span
    <3>5. Span(grants', lo, g) = Span(grants, lo, g)
      BY <3>4
    <3>6. Cardinality(Span(grants, lo, g)) <= MaxRequests
      BY <1>1, <3>1, <3>2 DEF WithinLimit, GrantsIn, Span
    <3> QED
      BY <3>1, <3>2, <3>5, <3>6
  <2> QED
    BY <1>1, <2>1, <2>2
<1>6. ASSUME NEW i \in DOMAIN grants'
      PROVE  Cardinality(Span(grants', SpanStart(grants'[i]), grants'[i])) <= MaxRequests
  <2>1. CASE i = L + 1
    BY <1>1, <1>4, <2>1
  <2>2. CASE i \in 1..L
    BY <1>1, <1>5, <2>2
  <2> QED
    BY <1>1, <2>1, <2>2
<1> QED
  BY <1>6 DEF WithinLimit, GrantsIn, Span, SpanStart

\* What a call in the window knows, by types and by the invariant.
LEMMA SlidingFacts ==
  ASSUME LimitTyped, OwnSteps, NEW c \in Callers
  PROVE  /\ W \in Nat \ {0} /\ MaxRequests \in Nat \ {0} /\ clock \in Nat
         /\ caller[c].now \in Nat /\ caller[c].now <= clock /\ caller[c].n \in Nat
         /\ caller \in [Callers -> CallerRecord]
         /\ Len(grants) \in Nat /\ Len(window) \in Nat
         /\ \A i \in 1..Len(grants) : grants[i] \in Nat
         /\ \A i \in 1..Len(window) : window[i] \in Nat
BY RateLimitsAssumption DEF LimitTyped, OwnSteps, CallerRecord

\* A step of the one call under way that neither trims nor grants.
Looks(c, p) ==
  /\ Entered(c) /\ p \in Labels /\ UNCHANGED <<window, grants, clock>>
  /\ Moves(c, p, caller[c].now, caller[c].n) \/ (Moves(c, "idle", 0, 0) /\ p = "idle")
  /\ p = "append" => Len(window) < MaxRequests
  /\ p = "pop" => window # <<>> /\ window[1] + W < caller[c].now

\* It finds out what it says.
LEMMA WindowStays ==
  ASSUME LimitTyped, OwnSteps, WindowInv, NEW c \in Callers, NEW p, Looks(c, p)
  PROVE  WindowInv'
<1> USE DEF Looks
<1>1. /\ caller'[c].pc = p /\ (p # "idle" => caller'[c].now = caller[c].now)
      /\ \A d \in Callers : d # c => caller'[d] = caller[d]
  BY SlidingFacts, MovesTo DEF Labels
<1>2. \A d \in Callers : d # c => ~Entered(d) /\ ~Entered(d)' /\ caller'[d].pc = "idle"
  BY <1>1 DEF WindowInv, Entered
<1>3. PICK b \in 0..Len(grants) : Trimmed(b)
  BY DEF WindowInv
<1>4. ASSUME NEW d \in Callers, Entered(d)' PROVE d = c /\ caller'[d].now = caller[c].now
  BY <1>1, <1>2, <1>4 DEF Entered
<1>5. Trimmed(b)'
  BY <1>3, <1>4 DEF Trimmed
<1>6. \A d \in Callers : Entered(d)' => \A i \in DOMAIN grants' : grants'[i] <= caller'[d].now
  BY <1>4 DEF WindowInv
<1>7. \A d \in Callers : caller'[d].pc \in {"append", "pop"} => d = c /\ p = caller'[d].pc /\ caller'[d].now = caller[c].now
  BY <1>1, <1>2
<1> QED
  BY <1>3, <1>4, <1>5, <1>6, <1>7 DEF WindowInv

\* The first of the window goes, which is too old for the call.
LEMMA WindowPops ==
  ASSUME LimitTyped, OwnSteps, WindowInv, NEW c \in Callers, PopHead(c)
  PROVE  WindowInv' /\ popErrors' = popErrors /\ grants' = grants
<1>1. /\ window # <<>> /\ window[1] + W < caller[c].now /\ Entered(c)
      /\ window' = Tail(window) /\ popErrors' = popErrors /\ UNCHANGED <<grants, clock>>
      /\ Moves(c, "trim", caller[c].now, caller[c].n)
  BY SlidingFacts, GotoMoves DEF WindowInv, PopHead, Entered, Labels, MemoryLabels
<1>2. PICK b \in 0..Len(grants) : Trimmed(b)
  BY DEF WindowInv
<1>3. /\ caller'[c].pc = "trim" /\ caller'[c].now = caller[c].now
      /\ \A d \in Callers : d # c => caller'[d] = caller[d]
  BY <1>1, SlidingFacts, MovesTo DEF Labels, MemoryLabels
<1>4. /\ Len(window') = Len(window) - 1 /\ Len(window) > 0
      /\ \A i \in 1..(Len(window) - 1) : window'[i] = window[i + 1]
  BY <1>1 DEF LimitTyped
<1>5. Len(window) = Len(grants) - b /\ \A i \in 1..Len(window) : window[i] = grants[b + i]
  BY <1>2 DEF Trimmed
<1>6. b + 1 \in 0..Len(grants) /\ Len(window') = Len(grants) - (b + 1) /\ window[1] = grants[b + 1]
  BY <1>4, <1>5, SlidingFacts
<1>7. \A i \in 1..Len(window') : window'[i] = grants[(b + 1) + i]
  BY <1>4, <1>5, <1>6, SlidingFacts
<1>8. \A d \in Callers : d # c => ~Entered(d) /\ ~Entered(d)' /\ caller'[d].pc = "idle"
  BY <1>1, <1>3 DEF WindowInv, Entered
<1>9. ASSUME NEW i \in 1..(b + 1) PROVE grants[i] + W < caller[c].now /\ grants[i] + W < clock
  <2>1. CASE i = b + 1
    BY <1>1, <1>6, <2>1, SlidingFacts
  <2>2. CASE i \in 1..b
    BY <1>1, <1>2, <2>2 DEF Trimmed
  <2> QED
    BY <1>6, <2>1, <2>2
<1>10. \A d \in Callers : Entered(d)' => d = c
  BY <1>8
<1>11. Trimmed(b + 1)'
  BY <1>1, <1>3, <1>6, <1>7, <1>9, <1>10 DEF Trimmed
<1>12. \A d \in Callers : Entered(d)' => \A i \in DOMAIN grants' : grants'[i] <= caller'[d].now
  BY <1>1, <1>3, <1>10 DEF WindowInv
<1>13. \A d \in Callers : caller'[d].pc \notin {"append", "pop"}
  BY <1>3, <1>8
<1> QED
  BY <1>1, <1>6, <1>10, <1>11, <1>12, <1>13 DEF WindowInv

\* The call is granted: it is the last of the window and of the grants.
LEMMA WindowAppends ==
  ASSUME LimitTyped, OwnSteps, WindowInv, WithinLimit, NEW c \in Callers, AppendNow(c)
  PROVE  WindowInv' /\ WithinLimit'
<1>1. /\ Len(window) < MaxRequests /\ Entered(c) /\ UNCHANGED <<clock, popErrors>>
      /\ window' = Append(window, caller[c].now) /\ grants' = Append(grants, caller[c].now)
      /\ Moves(c, "idle", 0, 0)
  BY ReturnMoves DEF WindowInv, AppendNow, Entered, Granted
<1>2. PICK b \in 0..Len(grants) : Trimmed(b)
  BY DEF WindowInv
<1>3. caller'[c].pc = "idle" /\ \A d \in Callers : d # c => caller'[d] = caller[d]
  BY <1>1, SlidingFacts, MovesTo DEF Labels
<1>4. \A d \in Callers : caller'[d].pc = "idle" /\ ~Entered(d)'
  BY <1>1, <1>3 DEF WindowInv, Entered
<1>5. WithinLimit'
  <2>1. Len(grants) - b < MaxRequests
    BY <1>1, <1>2, SlidingFacts DEF Trimmed
  <2>2. \A i \in 1..b : grants[i] + W < caller[c].now
    BY <1>1, <1>2 DEF Trimmed
  <2>3. \A i \in DOMAIN grants : grants[i] <= caller[c].now
    BY <1>1 DEF WindowInv
  <2> QED
    BY <1>1, <2>1, <2>2, <2>3, SlidingFacts, AppendKeepsLimit
<1>6. /\ Len(window') = Len(window) + 1 /\ Len(grants') = Len(grants) + 1
      /\ window'[Len(window) + 1] = grants'[Len(grants) + 1]
      /\ \A i \in 1..Len(window) : window'[i] = window[i]
      /\ \A i \in 1..Len(grants) : grants'[i] = grants[i]
  BY <1>1 DEF LimitTyped
<1>7. Len(window) = Len(grants) - b /\ \A i \in 1..Len(window) : window[i] = grants[b + i]
  BY <1>2 DEF Trimmed
<1>8. ASSUME NEW i \in 1..Len(window') PROVE window'[i] = grants'[b + i]
  <2>1. CASE i = Len(window) + 1
    BY <1>6, <1>7, <2>1, SlidingFacts
  <2>2. CASE i \in 1..Len(window)
    <3>1. b + i \in 1..Len(grants)
      BY <1>7, <2>2, SlidingFacts
    <3> QED
      BY <1>6, <1>7, <2>2, <3>1
  <2> QED
    BY <1>6, <2>1, <2>2, SlidingFacts
<1>9. \A i \in 1..b : i \in 1..Len(grants)
  BY SlidingFacts
<1>10. Trimmed(b)'
  <2>1. Len(window') = Len(grants') - b
    BY <1>6, <1>7, SlidingFacts
  <2>2. \A i \in 1..b : grants'[i] + W < clock'
    BY <1>1, <1>2, <1>6, <1>9 DEF Trimmed
  <2> QED
    BY <1>4, <1>8, <2>1, <2>2 DEF Trimmed
<1>11. b \in 0..Len(grants')
  BY <1>6, SlidingFacts
<1> QED
  BY <1>4, <1>5, <1>10, <1>11 DEF WindowInv

\* The window is kept by every step, as long as no calls overlap.
LEMMA SlidingNext ==
  ASSUME LimitTyped, OwnSteps, SlidingInv, SlidingWindowHolds, LimitNext
  PROVE  SlidingInv' /\ SlidingWindowHolds'
<1> SUFFICES ASSUME limiter' = "memory", ~raced'
             PROVE  WindowInv' /\ WithinLimit'
  BY DEF SlidingInv, SlidingWindowHolds, WithinLimit, SpanStart
<1>1. limiter = "memory" /\ ~raced
  <2>1. limiter' = limiter
    BY DEF LimitNext, Tick, Enter, Trim, PopHead, CheckLength, AppendNow, Unreachable, Incr, Expire, Decide, Allow
  <2>2. raced' = raced \/ \E c \in Callers : Enter(c)
    BY DEF LimitNext, Tick, Enter, Trim, PopHead, CheckLength, AppendNow, Unreachable, Incr, Expire, Decide, Allow
  <2>3. raced => raced'
    BY <2>2 DEF Enter
  <2> QED
    BY <2>1, <2>3
<1>2. WindowInv /\ WithinLimit
  BY <1>1 DEF SlidingInv, SlidingWindowHolds, WithinLimit, SpanStart
<1>3. ASSUME NEW c \in Callers PROVE ~(Unreachable(c) \/ Incr(c) \/ Expire(c) \/ Decide(c) \/ Allow(c))
  BY <1>1 DEF OwnSteps, RedisLabels, IsRedis, Unreachable, Incr, Expire, Decide, Allow
<1>4. ASSUME UNCHANGED <<grants, popErrors>> PROVE WithinLimit'
  BY <1>2, <1>4 DEF WithinLimit, GrantsIn, SpanStart
<1>5. CASE Tick
  <2>1. clock \in Nat /\ clock' = clock + 1 /\ UNCHANGED <<window, grants, caller, popErrors>>
    BY <1>5 DEF Tick, LimitTyped
  <2>2. PICK b \in 0..Len(grants) : Trimmed(b)
    BY <1>2 DEF WindowInv
  <2>3. ASSUME NEW i \in 1..b PROVE grants[i] + W < clock + 1
    <3>1. grants[i] \in Nat /\ W \in Nat
      BY RateLimitsAssumption DEF LimitTyped
    <3> QED
      BY <2>1, <2>2, <3>1 DEF Trimmed
  <2>4. Trimmed(b)'
    BY <2>1, <2>2, <2>3 DEF Trimmed, Entered
  <2>5. WindowInv'
    BY <1>2, <2>1, <2>4 DEF WindowInv, Entered
  <2> QED
    BY <1>4, <2>1, <2>5
<1>6. ASSUME NEW c \in Callers, Enter(c) PROVE WindowInv' /\ WithinLimit'
  <2>1. /\ UNCHANGED <<window, grants, clock, popErrors>> /\ Moves(c, "trim", clock, 0)
        /\ \A d \in Callers : ~Entered(d)
    BY <1>1, <1>6 DEF Enter, Moves, Entered
  <2>2. /\ caller'[c].pc = "trim" /\ caller'[c].now = clock
        /\ \A d \in Callers : d # c => caller'[d] = caller[d]
    BY <2>1, SlidingFacts, MovesTo DEF Labels, MemoryLabels
  <2>3. /\ \A d \in Callers : Entered(d)' => d = c
        /\ \A d \in Callers : caller'[d].pc \notin {"append", "pop"}
    BY <2>1, <2>2 DEF Entered
  <2>4. PICK b \in 0..Len(grants) : Trimmed(b)
    BY <1>2 DEF WindowInv
  <2>5. Trimmed(b)'
    BY <2>1, <2>2, <2>3, <2>4 DEF Trimmed
  <2>6. \A d \in Callers : Entered(d)' => \A i \in DOMAIN grants' : grants'[i] <= caller'[d].now
    BY <2>1, <2>2, <2>3 DEF OwnSteps
  <2>7. WindowInv'
    BY <2>1, <2>3, <2>5, <2>6 DEF WindowInv
  <2> QED
    BY <1>4, <2>1, <2>7
<1>7. ASSUME NEW c \in Callers, Trim(c) PROVE WindowInv' /\ WithinLimit'
  <2>1. /\ Entered(c) /\ UNCHANGED <<window, grants, clock>> /\ UNCHANGED <<grants, popErrors>>
        /\ \/ Goto(c, "check")
           \/ Goto(c, "pop") /\ window # <<>> /\ window[1] + W < caller[c].now
    BY <1>7 DEF Trim, Entered
  <2>2. \/ Moves(c, "check", caller[c].now, caller[c].n)
        \/ /\ Moves(c, "pop", caller[c].now, caller[c].n)
           /\ window # <<>> /\ window[1] + W < caller[c].now
    BY <2>1, SlidingFacts, GotoMoves DEF Labels, MemoryLabels
  <2>3. Looks(c, "check") \/ Looks(c, "pop")
    BY <2>1, <2>2 DEF Looks, Labels, MemoryLabels
  <2> QED
    BY <1>2, <1>4, <2>1, <2>3, WindowStays
<1>8. ASSUME NEW c \in Callers, CheckLength(c) PROVE WindowInv' /\ WithinLimit'
  <2>1. /\ Entered(c) /\ UNCHANGED <<window, grants, clock>> /\ UNCHANGED <<grants, popErrors>>
        /\ \/ Return(c)
           \/ Goto(c, "append") /\ ~(Len(window) >= MaxRequests)
    BY <1>8 DEF CheckLength, Entered
  <2>2. \/ Moves(c, "idle", 0, 0)
        \/ Moves(c, "append", caller[c].now, caller[c].n) /\ Len(window) < MaxRequests
    BY <2>1, SlidingFacts, GotoMoves, ReturnMoves DEF Labels, MemoryLabels
  <2>3. Looks(c, "idle") \/ Looks(c, "append")
    BY <2>1, <2>2 DEF Looks, Labels, MemoryLabels
  <2> QED
    BY <1>2, <1>4, <2>1, <2>3, WindowStays
<1>9. ASSUME NEW c \in Callers, PopHead(c) PROVE WindowInv' /\ WithinLimit'
  BY <1>2, <1>4, <1>9, WindowPops
<1> QED
  BY <1>2, <1>3, <1>5, <1>6, <1>7, <1>8, <1>9, WindowAppends DEF LimitNext

(***************************************************************************)
(* RateLimits: the quota of the current window.                            *)
(***************************************************************************)
\* Calls that were counted in window k and will be granted.
Held(k) == {c \in Callers : /\ caller[c].pc \in {"expire", "decide"}
                           /\ Window(caller[c].now) = k /\ caller[c].n <= MaxRequests}
\* A counter lives as long as its window: those to come are at zero, and none
\* expires in its own window.
CounterInv ==
  \A k \in WindowKeys :
    /\ k > Window(clock) => counter[k].n = 0 /\ counter[k].exp = 0
    /\ k = Window(clock) /\ counter[k].exp # 0 => Window(counter[k].exp) > k
\* So every request granted or about to be granted was counted.
QuotaInv ==
  /\ limiter = "unconnected" => grants = <<>>
  /\ limiter = "closed" =>
       LET k == Window(clock)
       IN  /\ Cardinality(GrantedIn(k)) + Cardinality(Held(k)) <= counter[k].n
           /\ Cardinality(GrantedIn(k)) + Cardinality(Held(k)) <= MaxRequests

\* A counter is not dropped within its window.
LEMMA CounterNext ==
  ASSUME LimitTyped, OwnSteps, CounterInv, LimitNext
  PROVE  CounterInv'
<1>1. /\ clock \in Nat /\ Window(clock) \in Nat /\ W \in Nat \ {0}
      /\ counter \in [WindowKeys -> [n : Nat, exp : Nat]]
      /\ \A k \in WindowKeys : k \in Nat
  <2>1. clock \in Nat /\ W \in Nat \ {0} /\ MaxTime \in Nat
    BY RateLimitsAssumption DEF LimitTyped
  <2>2. Window(clock) \in Nat /\ Window(MaxTime) \in Nat
    BY <2>1, WindowSpan
  <2> QED
    BY <2>1, <2>2 DEF LimitTyped, WindowKeys
<1>2. CASE Tick
  <2>1. clock' = clock + 1 /\ Window(clock') \in Nat /\ Window(clock) <= Window(clock')
    BY <1>1, <1>2, WindowSpan, WindowMono DEF Tick
  <2>2. ASSUME NEW k \in WindowKeys
        PROVE  counter'[k] = counter[k] \/ (counter'[k].n = 0 /\ counter'[k].exp = 0)
    BY <1>2 DEF Tick
  <2>3. ASSUME NEW k \in WindowKeys, k > Window(clock') PROVE counter'[k].n = 0 /\ counter'[k].exp = 0
    BY <1>1, <2>1, <2>2, <2>3 DEF CounterInv
  <2>4. ASSUME NEW k \in WindowKeys, k = Window(clock'), counter'[k].exp # 0
        PROVE  Window(counter'[k].exp) > k
    <3>1. counter'[k] = counter[k]
      BY <2>2, <2>4
    <3>2. k = Window(clock)
      BY <1>1, <2>1, <2>4, <3>1 DEF CounterInv
    <3> QED
      BY <2>4, <3>1, <3>2 DEF CounterInv
  <2> QED
    BY <2>3, <2>4 DEF CounterInv
<1>3. ASSUME NEW c \in Callers, Incr(c) \/ Expire(c) PROVE CounterInv'
  <2>1. PICK x \in WindowKeys : x = Window(caller[c].now) /\ x <= Window(clock)
    BY CallWindow
  <2>2. clock' = clock /\ \A k \in WindowKeys : k # x => counter'[k] = counter[k]
    BY <1>1, <1>3, <2>1 DEF Incr, Expire
  <2>3. counter'[x].exp \in {counter[x].exp, 0, clock + W}
    BY <1>1, <1>3, <2>1 DEF Incr, Expire
  <2>4. Window(clock + W) > Window(clock)
    BY <1>1, WindowNext
  <2>5. ASSUME NEW k \in WindowKeys, k > Window(clock) PROVE counter'[k].n = 0 /\ counter'[k].exp = 0
    BY <1>1, <2>1, <2>2, <2>5 DEF CounterInv
  <2>6. ASSUME NEW k \in WindowKeys, k = Window(clock), counter'[k].exp # 0
        PROVE  Window(counter'[k].exp) > k
    BY <2>2, <2>3, <2>4, <2>6 DEF CounterInv
  <2> QED
    BY <2>2, <2>5, <2>6 DEF CounterInv
<1>4. ASSUME UNCHANGED <<counter, clock>> PROVE CounterInv'
  BY <1>4 DEF CounterInv
<1> QED
  BY <1>2, <1>3, <1>4 DEF LimitNext, Enter, Trim, PopHead, CheckLength, AppendNow, Unreachable, Decide, Allow

\* How a step within window k changes who is granted and who will be: not more
\* of either; one more is counted; one that was counted is granted; or one of
\* an earlier window is granted.
NoMore(k) == grants' = grants /\ Held(k)' \subseteq Held(k) /\ counter'[k].n >= counter[k].n
Counts(k, c) == /\ grants' = grants /\ Held(k)' \subseteq Held(k) \cup {c}
                /\ counter'[k].n = counter[k].n + 1 /\ counter'[k].n <= MaxRequests
Grants(k, c) == /\ grants' = Append(grants, caller[c].now) /\ Window(caller[c].now) = k
                /\ c \in Held(k) /\ Held(k)' \subseteq Held(k) \ {c} /\ counter'[k].n = counter[k].n
GrantsLate(k, c) == /\ grants' = Append(grants, caller[c].now) /\ Window(caller[c].now) # k
                    /\ Held(k)' \subseteq Held(k) /\ counter'[k].n = counter[k].n

\* Nothing else happens within a window.
LEMMA QuotaMoves ==
  ASSUME LimitTyped, OwnSteps, limiter = "closed", NEW c \in Callers, CallStep(c),
         NEW k \in WindowKeys, k = Window(clock)
  PROVE  NoMore(k) \/ Counts(k, c) \/ Grants(k, c) \/ GrantsLate(k, c)
<1>1. k = Window(clock)
  OBVIOUS
<1>2. PICK x \in WindowKeys : x = Window(caller[c].now)
  BY CallWindow
<1>3. /\ counter \in [WindowKeys -> [n : Nat, exp : Nat]] /\ counter[k].n \in Nat
      /\ caller \in [Callers -> CallerRecord] /\ MaxRequests \in Nat \ {0} /\ counter[k].n >= counter[k].n
  BY <1>1, RateLimitsAssumption DEF LimitTyped
<1>4. \A d \in Callers : d # c => caller'[d] = caller[d]
  BY OtherCallers
<1>5. ~Trim(c) /\ ~PopHead(c) /\ ~CheckLength(c) /\ ~AppendNow(c)
  BY DEF OwnSteps, MemoryLabels, Trim, PopHead, CheckLength, AppendNow
<1>6. ASSUME caller'[c].pc \notin {"expire", "decide"} PROVE Held(k)' \subseteq Held(k) \ {c}
  BY <1>4, <1>6 DEF Held
<1>7. ASSUME caller'[c].pc = "decide", caller[c].pc = "expire", caller'[c].now = caller[c].now, caller'[c].n = caller[c].n
      PROVE  Held(k)' \subseteq Held(k)
  BY <1>4, <1>7 DEF Held
<1>8. Held(k)' \subseteq Held(k) \cup {c}
  BY <1>4 DEF Held
<1>9. CASE Enter(c)
  <2>1. caller'[c].pc = "incr" /\ grants' = grants /\ counter' = counter
    BY <1>3, <1>9 DEF Enter, CallerRecord
  <2> QED
    BY <1>1, <1>3, <1>6, <2>1 DEF NoMore
<1>10. CASE Unreachable(c)
  <2>1. caller'[c].pc = "idle" /\ grants' = grants /\ counter' = counter
    BY <1>3, <1>10 DEF Unreachable, Return, IdleCaller
  <2> QED
    BY <1>1, <1>3, <1>6, <2>1 DEF NoMore
<1>11. CASE Expire(c)
  <2>1. /\ caller'[c].pc = "decide" /\ caller[c].pc = "expire" /\ caller'[c].now = caller[c].now
        /\ caller'[c].n = caller[c].n
    BY <1>3, <1>11 DEF Expire, Goto, CallerRecord
  <2>2. grants' = grants /\ counter'[k].n = counter[k].n
    BY <1>2, <1>3, <1>11 DEF Expire
  <2> QED
    BY <1>1, <1>3, <1>7, <2>1, <2>2 DEF NoMore
<1>12. CASE Decide(c)
  <2>1. /\ caller[c].pc = "decide" /\ caller'[c].pc = "idle" /\ counter' = counter
        /\ caller[c].n <= MaxRequests => grants' = Append(grants, caller[c].now)
        /\ ~(caller[c].n <= MaxRequests) => grants' = grants
    BY <1>3, <1>12 DEF Decide, Return, IdleCaller, Granted
  <2>2. CASE ~(caller[c].n <= MaxRequests)
    BY <1>1, <1>3, <1>6, <2>1, <2>2 DEF NoMore
  <2>3. CASE caller[c].n <= MaxRequests /\ Window(caller[c].now) = k
    <3>1. c \in Held(k)
      BY <2>1, <2>3 DEF Held
    <3> QED
      BY <1>1, <1>6, <2>1, <2>3, <3>1 DEF Grants
  <2>4. CASE caller[c].n <= MaxRequests /\ Window(caller[c].now) # k
    BY <1>1, <1>6, <2>1, <2>4 DEF GrantsLate
  <2> QED
    BY <2>2, <2>3, <2>4
<1>13. CASE Incr(c)
  <2>1. /\ caller'[c].now = caller[c].now /\ caller'[c].n = counter[x].n + 1 /\ caller[c].pc = "incr"
        /\ grants' = grants
    BY <1>2, <1>3, <1>13 DEF Incr, CallerRecord
  <2>2. counter'[k].n = IF x = k THEN counter[k].n + 1 ELSE counter[k].n
    BY <1>1, <1>2, <1>3, <1>13 DEF Incr
  <2>3. CASE x = k /\ counter[k].n + 1 <= MaxRequests
    BY <1>1, <1>8, <2>1, <2>2, <2>3 DEF Counts
  <2>4. CASE ~(x = k /\ counter[k].n + 1 <= MaxRequests)
    <3>1. c \notin Held(k)'
      BY <1>2, <2>1, <2>4 DEF Held
    <3>2. Held(k)' \subseteq Held(k)
      BY <1>8, <3>1
    <3>3. counter'[k].n >= counter[k].n
      BY <1>3, <2>2
    <3> QED
      BY <1>1, <2>1, <3>2, <3>3 DEF NoMore
  <2> QED
    BY <2>3, <2>4
<1> QED
  BY <1>5, <1>9, <1>10, <1>11, <1>12, <1>13 DEF CallStep

\* Whoever is held and what is granted can be counted.
LEMMA HeldCounts ==
  ASSUME NEW S, S \subseteq Callers
  PROVE  IsFiniteSet(S) /\ Cardinality(S) \in Nat
BY RateLimitsAssumption, FS_Subset, FS_CardinalityType

\* What is granted in a window, and what one more grant adds.
LEMMA GrantCounts ==
  ASSUME grants \in Seq(Nat), NEW k
  PROVE  /\ IsFiniteSet(GrantedIn(k)) /\ Cardinality(GrantedIn(k)) \in Nat
         /\ grants' = grants => GrantedIn(k)' = GrantedIn(k)
         /\ \A t \in Nat : grants' = Append(grants, t) /\ Window(t) # k => GrantedIn(k)' = GrantedIn(k)
         /\ \A t \in Nat : grants' = Append(grants, t) /\ Window(t) = k =>
               Cardinality(GrantedIn(k)') = Cardinality(GrantedIn(k)) + 1
<1>1. Len(grants) \in Nat /\ DOMAIN grants = 1..Len(grants)
  OBVIOUS
<1>2. GrantedIn(k) \subseteq 1..Len(grants)
  BY <1>1 DEF GrantedIn
<1>3. IsFiniteSet(GrantedIn(k)) /\ Cardinality(GrantedIn(k)) \in Nat
  <2>1. IsFiniteSet(1..Len(grants))
    BY <1>1, FS_Interval
  <2> QED
    BY <1>2, <2>1, FS_Subset, FS_CardinalityType
<1>4. grants' = grants => GrantedIn(k)' = GrantedIn(k)
  BY DEF GrantedIn
<1>5. ASSUME NEW t \in Nat, grants' = Append(grants, t)
      PROVE  /\ Window(t) # k => GrantedIn(k)' = GrantedIn(k)
             /\ Window(t) = k => Cardinality(GrantedIn(k)') = Cardinality(GrantedIn(k)) + 1
  <2>1. /\ DOMAIN grants' = 1..(Len(grants) + 1) /\ grants'[Len(grants) + 1] = t
        /\ \A i \in 1..Len(grants) : grants'[i] = grants[i]
    BY <1>5
  <2>2. ASSUME NEW i PROVE i \in 1..(Len(grants) + 1) <=> i \in 1..Len(grants) \/ i = Len(grants) + 1
    BY <1>1
  <2>3. ASSUME NEW i PROVE i \in GrantedIn(k)' <=>
                             (i \in GrantedIn(k) \/ (i = Len(grants) + 1 /\ Window(t) = k))
    BY <1>1, <2>1, <2>2 DEF GrantedIn
  <2>4. CASE Window(t) # k
    BY <2>3, <2>4
  <2>5. CASE Window(t) = k
    <3>1. GrantedIn(k)' = GrantedIn(k) \cup {Len(grants) + 1}
      BY <2>3, <2>5
    <3>2. Len(grants) + 1 \notin GrantedIn(k)
      BY <1>1, <1>2
    <3> QED
      BY <1>3, <2>5, <3>1, <3>2, FS_AddElement
  <2> QED
    BY <2>4, <2>5
<1> QED
  BY <1>3, <1>4, <1>5

\* A tick within a window changes nothing, and the next window starts empty.
LEMMA QuotaTick ==
  ASSUME LimitTyped, OwnSteps, CounterInv, Tick
  PROVE  /\ grants' = grants /\ caller' = caller /\ limiter' = limiter
         /\ \E q \in WindowKeys :
              /\ q = Window(clock') /\ q \in {Window(clock), Window(clock) + 1}
              /\ q = Window(clock) => counter'[q].n = counter[q].n
              /\ q = Window(clock) + 1 => GrantedIn(q)' = {} /\ Held(q)' = {} /\ counter'[q].n = 0
<1>1. /\ clock \in Nat /\ clock' = clock + 1 /\ clock' <= MaxTime /\ MaxTime \in Nat
      /\ grants' = grants /\ caller' = caller /\ limiter' = limiter
  BY RateLimitsAssumption DEF LimitTyped, Tick
<1>2. PICK k \in Nat : k = Window(clock)
  BY <1>1, WindowSpan
<1>3. PICK q \in WindowKeys : q = Window(clock') /\ q \in {k, k + 1}
  BY <1>1, <1>2, WindowTick, WindowSpan, WindowMono DEF WindowKeys
<1>4. q = k => counter'[q].n = counter[q].n
  <2> SUFFICES ASSUME q = k, counter[q].exp # 0, counter[q].exp <= clock' PROVE FALSE
    BY <1>1 DEF Tick
  <2>1. Window(counter[q].exp) > q
    BY <1>2 DEF CounterInv
  <2>2. counter[q].exp \in Nat /\ clock' \in Nat
    BY <1>1 DEF LimitTyped
  <2>3. Window(counter[q].exp) <= Window(clock')
    BY <2>2, WindowMono
  <2>4. Window(counter[q].exp) \in Nat
    BY <2>2, WindowSpan
  <2> QED
    BY <1>2, <1>3, <2>1, <2>3, <2>4
<1>5. ASSUME q = k + 1 PROVE GrantedIn(q)' = {} /\ Held(q)' = {} /\ counter'[q].n = 0
  <2>1. ASSUME NEW t \in Nat, t <= clock PROVE Window(t) # q
    BY <1>1, <1>2, <1>5, <2>1, WindowMono, WindowSpan
  <2>2. GrantedIn(q)' = {}
    BY <1>1, <2>1 DEF GrantedIn, OwnSteps, LimitTyped
  <2>3. Held(q)' = {}
    BY <1>1, <2>1 DEF Held, OwnSteps, LimitTyped, CallerRecord
  <2>4. counter[q].n = 0 /\ counter[q].exp = 0
    BY <1>2, <1>5 DEF CounterInv
  <2> QED
    BY <2>2, <2>3, <2>4 DEF Tick
<1> QED
  BY <1>1, <1>2, <1>3, <1>4, <1>5

\* The quota of the current window is kept.
LEMMA QuotaNext ==
  ASSUME LimitTyped, OwnSteps, CounterInv, QuotaInv, LimitNext
  PROVE  QuotaInv'
<1>1. clock \in Nat /\ MaxRequests \in Nat \ {0} /\ grants \in Seq(Nat) /\ limiter' = limiter
  <2>1. limiter' = limiter
    BY DEF LimitNext, Tick, Enter, Trim, PopHead, CheckLength, AppendNow, Unreachable, Incr, Expire, Decide, Allow
  <2> QED
    BY <2>1, RateLimitsAssumption DEF LimitTyped
<1>2. ASSUME limiter = "unconnected" PROVE grants' = <<>>
  <2>1. \A c \in Callers : caller[c].pc \notin MemoryLabels \cup RedisLabels
    BY <1>2 DEF OwnSteps, IsRedis
  <2>2. grants' = grants
    BY <1>2, <2>1 DEF MemoryLabels, RedisLabels, LimitNext, Tick, Enter, Trim, PopHead, CheckLength, AppendNow,
         Unreachable, Incr, Expire, Decide, Allow
  <2> QED
    BY <1>2, <2>2 DEF QuotaInv
<1>3. CASE limiter # "closed"
  BY <1>1, <1>2, <1>3 DEF QuotaInv
<1>4. CASE limiter = "closed"
  <2>1. PICK k \in WindowKeys : k = Window(clock)
    <3>1. clock <= MaxTime /\ MaxTime \in Nat
      BY RateLimitsAssumption DEF LimitTyped
    <3> QED
      BY <1>1, <3>1, WindowSpan, WindowMono DEF WindowKeys
  <2>2. PICK g \in Nat : g = Cardinality(GrantedIn(k))
    BY <1>1, GrantCounts
  <2>3. PICK h \in Nat : h = Cardinality(Held(k)) /\ IsFiniteSet(Held(k))
    BY HeldCounts DEF Held
  <2>4. PICK m \in Nat : m = counter[k].n /\ g + h <= m /\ g + h <= MaxRequests
    BY <1>4, <2>1, <2>2, <2>3 DEF QuotaInv, LimitTyped
  <2>5. CASE Tick
    <3>1. grants' = grants /\ caller' = caller
      BY <2>5, QuotaTick
    <3>2. PICK q \in WindowKeys :
              /\ q = Window(clock') /\ q \in {k, k + 1}
              /\ q = k => counter'[q].n = m
              /\ q = k + 1 => GrantedIn(q)' = {} /\ Held(q)' = {} /\ counter'[q].n = 0
      BY <2>1, <2>4, <2>5, QuotaTick
    <3>3. CASE q = k
      <4>1. GrantedIn(k)' = GrantedIn(k) /\ Held(k)' = Held(k)
        BY <3>1 DEF GrantedIn, Held
      <4> QED
        BY <1>1, <1>4, <2>2, <2>3, <2>4, <3>2, <3>3, <4>1 DEF QuotaInv
    <3>4. CASE q = k + 1
      <4>1. Cardinality(GrantedIn(q)') = 0 /\ Cardinality(Held(q)') = 0 /\ counter'[q].n = 0
        BY <3>2, <3>4, FS_EmptySet
      <4>2. 0 + 0 <= 0 /\ 0 + 0 <= MaxRequests
        BY <1>1
      <4> QED
        BY <1>1, <1>4, <3>2, <4>1, <4>2 DEF QuotaInv
    <3> QED
      BY <3>2, <3>3, <3>4
  <2>6. ASSUME NEW c \in Callers, CallStep(c) PROVE QuotaInv'
    <3>1. clock' = clock
      BY <2>6 DEF CallStep, Enter, Trim, PopHead, CheckLength, AppendNow, Unreachable, Incr, Expire, Decide
    <3>2. caller[c].now \in Nat
      BY DEF LimitTyped, CallerRecord
    <3>3. Held(k)' \subseteq Callers
      BY DEF Held
    <3>4. PICK p \in Nat : p = Cardinality(Held(k)') /\ IsFiniteSet(Held(k)')
      BY <3>3, HeldCounts
    <3>5. counter'[k].n \in Nat
      BY LimitTypedNext DEF LimitTyped
    <3>6. CASE NoMore(k)
      <4>1. GrantedIn(k)' = GrantedIn(k) /\ p <= h
        BY <1>1, <2>3, <3>4, <3>6, GrantCounts, FS_Subset DEF NoMore
      <4>2. g + p <= counter'[k].n /\ g + p <= MaxRequests
        BY <1>1, <2>4, <3>5, <3>6, <4>1 DEF NoMore
      <4> QED
        BY <1>1, <1>4, <2>1, <2>2, <3>1, <3>4, <4>1, <4>2 DEF QuotaInv
    <3>7. CASE Counts(k, c)
      <4>1. IsFiniteSet(Held(k) \cup {c}) /\ Cardinality(Held(k) \cup {c}) <= h + 1
            /\ Cardinality(Held(k) \cup {c}) \in Nat
        <5>1. CASE c \in Held(k)
          <6>1. Held(k) \cup {c} = Held(k)
            BY <5>1
          <6>2. h <= h + 1
            OBVIOUS
          <6> QED
            BY <2>3, <6>1, <6>2, Zenon
        <5>2. CASE c \notin Held(k)
          BY <2>3, <5>2, FS_AddElement
        <5> QED
          BY <5>1, <5>2
      <4>2. p <= Cardinality(Held(k) \cup {c})
        BY <3>4, <3>7, <4>1, FS_Subset DEF Counts
      <4>3. GrantedIn(k)' = GrantedIn(k) /\ p <= h + 1
        BY <1>1, <3>7, <4>1, <4>2, GrantCounts DEF Counts
      <4>4. g + p <= counter'[k].n /\ g + p <= MaxRequests
        BY <1>1, <2>4, <3>5, <3>7, <4>3 DEF Counts
      <4> QED
        BY <1>1, <1>4, <2>1, <2>2, <3>1, <3>4, <4>3, <4>4 DEF QuotaInv
    <3>8. CASE Grants(k, c)
      <4>1. IsFiniteSet(Held(k) \ {c}) /\ Cardinality(Held(k) \ {c}) = h - 1 /\ c \in Held(k)
        BY <2>3, <3>8, FS_RemoveElement DEF Grants
      <4>2. p <= h - 1
        BY <3>4, <3>8, <4>1, FS_Subset DEF Grants
      <4>3. Cardinality(GrantedIn(k)') = g + 1
        BY <1>1, <2>2, <3>2, <3>8, GrantCounts DEF Grants
      <4>4. (g + 1) + p <= counter'[k].n /\ (g + 1) + p <= MaxRequests
        BY <1>1, <2>4, <3>8, <4>2 DEF Grants
      <4> QED
        BY <1>1, <1>4, <2>1, <3>1, <3>4, <4>3, <4>4 DEF QuotaInv
    <3>9. CASE GrantsLate(k, c)
      <4>1. GrantedIn(k)' = GrantedIn(k) /\ p <= h
        BY <1>1, <2>3, <3>2, <3>4, <3>9, GrantCounts, FS_Subset DEF GrantsLate
      <4>2. g + p <= counter'[k].n /\ g + p <= MaxRequests
        BY <1>1, <2>4, <3>9, <4>1 DEF GrantsLate
      <4> QED
        BY <1>1, <1>4, <2>1, <2>2, <3>1, <3>4, <4>1, <4>2 DEF QuotaInv
    <3> QED
      BY <1>4, <2>1, <2>6, <3>6, <3>7, <3>8, <3>9, QuotaMoves
  <2>7. \A c \in Callers : ~Allow(c)
    BY <1>4 DEF Allow
  <2> QED
    BY <2>5, <2>6, <2>7 DEF LimitNext, CallStep
<1> QED
  BY <1>3, <1>4

\* The inductive invariant of the limiters.
LimitInv ==
  /\ LimitTyped /\ OwnSteps
  /\ BucketInv /\ BucketRateHolds
  /\ CountersExpire
  /\ SlidingInv /\ SlidingWindowHolds
  /\ CounterInv /\ QuotaInv

\* At the start the limiters have seen nothing.
LEMMA LimitInitInv == LimitInit => LimitInv
<1> SUFFICES ASSUME LimitInit PROVE LimitInv
  OBVIOUS
<1>1. /\ W \in Nat \ {0} /\ MaxRequests \in Nat \ {0} /\ MaxTime \in Nat /\ MaxCalls \in Nat
      /\ MaxRequests * W \in Nat /\ Window(0) = 0
  <2>1. /\ W \in Nat \ {0} /\ MaxRequests \in Nat \ {0} /\ MaxTime \in Nat /\ MaxCalls \in Nat
        /\ MaxRequests * W \in Nat
    BY RateLimitsAssumption
  <2>2. 0 * W <= 0 /\ 0 < 0 * W + W
    BY <2>1
  <2> QED
    BY <2>1, <2>2, WindowIs
<1>2. /\ limiter \in Limiters /\ clock = 0 /\ window = <<>> /\ grants = <<>> /\ calls = 0
      /\ raced = FALSE /\ faults = 0 /\ popErrors = 0 /\ bucket = FullBucket
      /\ \A k \in WindowKeys : counter[k].n = 0 /\ counter[k].exp = 0
      /\ \A c \in Callers : caller[c].pc = "idle" /\ caller[c].now = 0 /\ caller[c].n = 0
  BY DEF LimitInit, IdleCaller
<1>3. caller \in [Callers -> CallerRecord] /\ counter \in [WindowKeys -> [n : Nat, exp : Nat]]
  BY DEF LimitInit, IdleCaller, CallerRecord, Labels
<1>4. LimitTyped
  <2>1. PICK m \in Nat : m = MaxRequests * W
    BY <1>1
  <2>2. bucket = [tokens |-> m, at |-> 0]
    BY <1>2, <2>1 DEF FullBucket
  <2>3. bucket \in [tokens : 0..(MaxRequests * W), at : Nat]
    <3>1. m \in 0..m
      BY <2>1
    <3> QED
      BY <2>1, <2>2, <3>1
  <2>4. 0 \in 0..MaxTime /\ 0 \in 0..MaxCalls /\ <<>> \in Seq(Nat)
    BY <1>1
  <2> QED
    BY <1>2, <1>3, <2>3, <2>4 DEF LimitTyped
<1>5. OwnSteps
  BY <1>1, <1>2 DEF OwnSteps, MemoryLabels, RedisLabels, FullBucket
<1>6. BucketInv /\ BucketRateHolds
  BY <1>2 DEF BucketInv, BucketRateHolds
<1>7. CountersExpire
  BY <1>2 DEF CountersExpire
<1>8. SlidingInv
  <2>1. Trimmed(0)
    BY <1>2 DEF Trimmed
  <2> QED
    BY <1>2, <2>1 DEF SlidingInv, WindowInv, Entered
<1>9. SlidingWindowHolds
  BY <1>2 DEF SlidingWindowHolds
<1>10. CounterInv
  BY <1>2 DEF CounterInv
<1>11. QuotaInv
  <2>1. GrantedIn(0) = {} /\ Held(0) = {}
    BY <1>2 DEF GrantedIn, Held
  <2>2. Cardinality({}) = 0 /\ 0 + 0 <= 0 /\ 0 + 0 <= MaxRequests
    BY <1>1, FS_EmptySet
  <2>3. 0 \in WindowKeys
    BY <1>1, WindowSpan DEF WindowKeys
  <2>4. counter[0].n = 0
    BY <1>2, <2>3
  <2> QED
    BY <1>1, <1>2, <2>1, <2>2, <2>4 DEF QuotaInv
<1> QED
  BY <1>4, <1>5, <1>6, <1>7, <1>8, <1>9, <1>10, <1>11 DEF LimitInv

\* Every step keeps all of it.
LEMMA LimitNextInv == LimitInv /\ [LimitNext]_limitVars => LimitInv'
<1> SUFFICES ASSUME LimitInv, [LimitNext]_limitVars PROVE LimitInv'
  OBVIOUS
<1>1. CASE LimitNext
  BY <1>1, LimitTypedNext, BucketNext, CountersNext, SlidingNext, CounterNext, QuotaNext DEF LimitInv
<1>2. CASE UNCHANGED limitVars
  <2>1. UNCHANGED <<limiter, clock, window, counter, bucket, caller, grants, calls, raced, faults, popErrors>>
    BY <1>2 DEF limitVars
  <2>2. LimitTyped' /\ OwnSteps'
    BY <2>1 DEF LimitInv, LimitTyped, OwnSteps, IsRedis
  <2>3. BucketInv' /\ BucketRateHolds' /\ CountersExpire'
    BY <2>1 DEF LimitInv, BucketInv, BucketRateHolds, CountersExpire
  <2>4. SlidingInv'
    BY <2>1 DEF LimitInv, SlidingInv, WindowInv, Trimmed, Entered
  <2>5. SlidingWindowHolds'
    BY <2>1 DEF LimitInv, SlidingWindowHolds, GrantsIn
  <2>6. CounterInv' /\ QuotaInv'
    BY <2>1 DEF LimitInv, CounterInv, QuotaInv, GrantedIn, Held
  <2> QED
    BY <2>2, <2>3, <2>4, <2>5, <2>6 DEF LimitInv
<1> QED
  BY <1>1, <1>2

\* The limiters of rate_limit.py and rate_limiter.py keep their limits and the
\* counters of redis_rate_limit.py are going to be dropped, for any number of
\* callers, limits, windows and times (RateLimits.LimitsHold).
THEOREM LimitsAlwaysHold == LimitSpec => []LimitsHold
<1>1. LimitInv => LimitsHold
  BY DEF LimitInv, LimitsHold
<1> QED
  BY <1>1, LimitInitInv, LimitNextInv, PTL DEF LimitSpec

\* A step of the limiters is a grant of the quota, the begin of a window, or
\* nothing to it.
LEMMA QuotaStep ==
  ASSUME LimitInv, [LimitNext]_limitVars
  PROVE  [Promise!Grant \/ Promise!Advance]_<<QuotaWindow, QuotaGranted>>
<1>1. /\ LimitTyped /\ OwnSteps /\ CounterInv /\ QuotaInv /\ QuotaInv'
      /\ clock \in Nat /\ grants \in Seq(Nat) /\ MaxRequests \in Nat \ {0}
  BY LimitNextInv, RateLimitsAssumption DEF LimitInv, LimitTyped
<1>2. limiter' = limiter
  BY DEF LimitNext, limitVars, Tick, Enter, Trim, PopHead, CheckLength, AppendNow, Unreachable, Incr, Expire,
         Decide, Allow
<1>3. CASE ~FailsClosed
  BY <1>2, <1>3 DEF FailsClosed, QuotaWindow, QuotaGranted
<1>4. CASE FailsClosed
  <2>1. PICK k \in WindowKeys : k = Window(clock)
    <3>1. clock <= MaxTime /\ MaxTime \in Nat
      BY <1>1, RateLimitsAssumption DEF LimitTyped
    <3> QED
      BY <1>1, <3>1, WindowSpan, WindowMono DEF WindowKeys
  <2>2. QuotaWindow = k /\ QuotaGranted = Cardinality(GrantedIn(k)) /\ FailsClosed'
    BY <1>2, <1>4, <2>1 DEF QuotaWindow, QuotaGranted, FailsClosed
  <2>3. ASSUME clock' = clock PROVE QuotaWindow' = k /\ QuotaGranted' = Cardinality(GrantedIn(k)')
    BY <2>1, <2>2, <2>3 DEF QuotaWindow, QuotaGranted
  <2>4. ASSUME clock' = clock, GrantedIn(k)' = GrantedIn(k) PROVE UNCHANGED <<QuotaWindow, QuotaGranted>>
    BY <2>2, <2>3, <2>4
  <2>5. CASE UNCHANGED limitVars
    <3>1. clock' = clock /\ GrantedIn(k)' = GrantedIn(k)
      BY <2>5 DEF limitVars, GrantedIn
    <3> QED
      BY <2>4, <3>1
  <2>6. CASE Tick
    <3>1. grants' = grants
      BY <1>1, <2>6, QuotaTick
    <3>2. PICK q \in WindowKeys : /\ q = Window(clock') /\ q \in {k, k + 1}
                                  /\ q = k + 1 => GrantedIn(q)' = {}
      BY <1>1, <2>1, <2>6, QuotaTick
    <3>3. QuotaWindow' = q /\ QuotaGranted' = Cardinality(GrantedIn(q)')
      <4>1. QuotaWindow' = q
        BY <2>2, <3>2 DEF QuotaWindow
      <4>2. QuotaGranted' = Cardinality({i \in DOMAIN grants' : Window(grants'[i]) = Window(clock')})
        BY <2>2 DEF QuotaGranted, GrantedIn
      <4>3. GrantedIn(q)' = {i \in DOMAIN grants' : Window(grants'[i]) = Window(clock')}
        BY <3>2 DEF GrantedIn
      <4> QED
        BY <4>1, <4>2, <4>3
    <3>4. CASE q = k
      BY <2>2, <3>1, <3>3, <3>4 DEF GrantedIn
    <3>5. CASE q = k + 1
      <4>1. GrantedIn(q)' = {} /\ Cardinality({}) = 0
        BY <3>2, <3>5, FS_EmptySet
      <4>2. QuotaGranted' = 0
        BY <3>3, <4>1
      <4> QED
        BY <2>2, <3>3, <3>5, <4>2 DEF Promise!Advance
    <3>6. q = k \/ q = k + 1
      BY <3>2
    <3> QED
      BY <3>4, <3>5, <3>6
  <2>7. ASSUME NEW c \in Callers, CallStep(c)
        PROVE  [Promise!Grant \/ Promise!Advance]_<<QuotaWindow, QuotaGranted>>
    <3>1. clock' = clock
      BY <2>7 DEF CallStep, Enter, Trim, PopHead, CheckLength, AppendNow, Unreachable, Incr, Expire, Decide
    <3>2. CASE limiter = "unconnected"
      <4>1. grants' = grants
        BY <1>1, <1>2, <3>2 DEF QuotaInv
      <4> QED
        BY <2>4, <3>1, <4>1 DEF GrantedIn
    <3>3. CASE limiter = "closed"
      <4>1. caller[c].now \in Nat
        BY <1>1 DEF LimitTyped, CallerRecord
      <4>2. CASE NoMore(k) \/ Counts(k, c) \/ GrantsLate(k, c)
        BY <1>1, <2>4, <3>1, <4>1, <4>2, GrantCounts DEF NoMore, Counts, GrantsLate
      <4>3. CASE Grants(k, c)
        <5>1. PICK g \in Nat : g = Cardinality(GrantedIn(k)) /\ Cardinality(GrantedIn(k)') = g + 1
          BY <1>1, <4>1, <4>3, GrantCounts DEF Grants
        <5>2. PICK h \in Nat : h = Cardinality(Held(k)) /\ IsFiniteSet(Held(k))
          BY HeldCounts DEF Held
        <5>3. h # 0
          BY <4>3, <5>2, FS_EmptySet DEF Grants
        <5>4. g + h <= MaxRequests
          BY <1>1, <2>1, <3>3, <5>1, <5>2 DEF QuotaInv
        <5>5. g < MaxRequests
          BY <1>1, <5>3, <5>4
        <5> QED
          BY <2>2, <2>3, <3>1, <5>1, <5>5 DEF Promise!Grant
      <4> QED
        BY <1>1, <2>1, <2>7, <3>3, <4>2, <4>3, QuotaMoves
    <3> QED
      BY <1>4, <3>2, <3>3 DEF FailsClosed
  <2>8. \A c \in Callers : ~Allow(c)
    BY <1>4 DEF Allow, FailsClosed
  <2> QED
    BY <2>5, <2>6, <2>7, <2>8 DEF LimitNext, CallStep
<1> QED
  BY <1>3, <1>4

\* The Redis limiter of a production build implements Quota: whatever fails and
\* however calls overlap, the current window is granted at most MaxRequests
\* requests (RateLimits.ImplementsQuota).
THEOREM LimitsImplementQuota == LimitSpec => ImplementsQuota
<1>1. LimitInit => Promise!QuotaInit
  <2> SUFFICES ASSUME LimitInit PROVE QuotaWindow = 0 /\ QuotaGranted = 0
    BY DEF Promise!QuotaInit
  <2>1. clock = 0 /\ grants = <<>>
    BY DEF LimitInit
  <2>2. Window(0) = 0
    <3>1. 0 * W <= 0 /\ 0 < 0 * W + W
      BY RateLimitsAssumption
    <3> QED
      BY <3>1, WindowIs
  <2>3. Cardinality(GrantedIn(0)) = 0
    <3>1. GrantedIn(0) = {}
      BY <2>1 DEF GrantedIn
    <3> QED
      BY <3>1, FS_EmptySet
  <2> QED
    BY <2>1, <2>2, <2>3 DEF QuotaWindow, QuotaGranted
<1>2. LimitInv /\ [LimitNext]_limitVars => [Promise!Grant \/ Promise!Advance]_<<QuotaWindow, QuotaGranted>>
  BY QuotaStep
<1> QED
  BY <1>1, <1>2, LimitInitInv, LimitNextInv, PTL DEF LimitSpec, ImplementsQuota, Promise!QuotaSpec

(***************************************************************************)
(* HttpApi: the inductive invariant.                                       *)
(***************************************************************************)
Owners == Users \cup {Nobody}
TokenRecord == [tok : Tokens, at : 0..Now, user : Users]
RequestLabels == {"new", "context", "touch_context", "route", "verify", "touch", "limit",
                  "check", "act", "audit", "done"}
Statuses == {"none", "200", "401", "403", "404", "422", "429", "500", "raised"}
Scopes == {"open", "any", "own", "command", "register", "enqueue", "run"}
RequestRecord ==
  [pc : RequestLabels, tok : Tokens \cup {Nobody}, kind : [write : BOOLEAN, scope : Scopes],
   seen : Owners, old : BOOLEAN, actor : Owners, user : Owners, status : Statuses,
   touched : Owners, audited : Owners, written : BOOLEAN, absent : BOOLEAN, dead : BOOLEAN,
   gone : BOOLEAN, came : BOOLEAN]
Verifying == {"touch_context", "touch"}
Admitted == {"limit", "check", "act"}

\* A is in the order in which B says that its tokens were used.
Distinct(n, A) == \A i, j \in 1..n : A[i].tok = A[j].tok => i = j
DistinctKeys(m, B) == \A i, j \in 1..m : B[i] = B[j] => i = j
Aligned(n, m, A, B) == n <= m /\ \A i \in 1..n : A[i].tok = B[(m - n) + i]
Ordered(A, B) ==
  /\ A \in Seq(TokenRecord) /\ B \in Seq(Tokens)
  /\ Distinct(Len(A), A) /\ DistinctKeys(Len(B), B) /\ Aligned(Len(A), Len(B), A, B)
\* The OrderedDict has one entry for a token, in the order of their use.
StoreInv == Ordered(tokens, uses) /\ Len(tokens) <= MaxTokens /\ now \in 0..Now
\* The records of the lane: without a handover a command is of its profile's project.
LaneInv ==
  /\ profile \in Owners /\ command \in Owners /\ handover \in BOOLEAN
  /\ granted \in [Users -> 0..Allowance]
  /\ ~handover => command \in {Nobody, profile}
\* What a request has by itself.
Progress(v) ==
  /\ v.pc \in {"new", "context", "touch_context"} => v.actor = Nobody
  /\ v.pc \notin Admitted \cup {"audit", "done"} => v.user = Nobody /\ v.status = "none"
  /\ v.pc \in Admitted => v.status = "none"
  /\ v.pc \in Verifying => v.seen \in Users /\ v.tok \in Tokens
  /\ v.pc \in {"context", "verify"} => v.tok \in Tokens
  /\ v.pc \in Admitted /\ v.kind.scope # "open" => v.user \in Users
  /\ v.pc \in {"limit", "check"} => v.kind.scope # "open"
  /\ v.pc \in {"verify", "touch"} => v.kind.scope # "open"
  /\ v.pc = "new" => ~v.dead /\ v.tok = Nobody
  /\ v.pc \notin {"audit", "done"} => v.touched = Nobody
  /\ v.pc = "audit" => v.status # "raised"
  /\ v.pc # "done" => ~v.written
  /\ v.written => v.audited = v.actor
  /\ v.pc = "done" /\ v.kind.write /\ v.status = "200" => v.written
  /\ v.pc = "done" /\ v.status = "raised" /\ v.user = Nobody /\ v.kind.scope # "open" => v.gone
\* As long as its token is not registered anew, the entry of a request's token
\* is the one its context was taken from.
Named(v) ==
  ~v.came =>
    /\ \A i \in DOMAIN tokens : tokens[i].tok = v.tok =>
         /\ v.pc \in Verifying => tokens[i].user = v.seen
         /\ v.pc \in {"route", "verify", "touch"} => tokens[i].user = v.actor
    /\ v.user # Nobody => v.user = v.actor
\* A dead token stays dead.
Refused(v) ==
  v.dead /\ ~v.came =>
    /\ \A i \in DOMAIN tokens : tokens[i].tok = v.tok => now - tokens[i].at > Ttl
    /\ v.pc \in Verifying => v.old
    /\ v.kind.scope # "open" => /\ v.pc \notin Admitted /\ v.touched = Nobody
                                /\ v.status \in {"none", "401", "raised"}
\* A token that is missing after it was looked up was removed meanwhile.
Missed(v) == v.pc \in Verifying /\ ~v.gone => \E i \in DOMAIN tokens : tokens[i].tok = v.tok
\* A lane route that passed its check acts for the profile's project.
Scoped(v) ==
  /\ v.pc = "act" /\ v.kind.scope \in {"run", "command"} /\ ~v.absent /\ ~handover => profile = v.user
  /\ v.touched \notin {Nobody, v.user} => v.kind.scope \in {"open", "any"} \/ handover \/ v.absent
Sound(v) == Progress(v) /\ Named(v) /\ Refused(v) /\ Missed(v) /\ Scoped(v)
RequestsInv ==
  /\ req \in [Requests -> RequestRecord]
  /\ \A r \in Requests : \E v \in RequestRecord : v = req[r] /\ Sound(v)
ApiInv == StoreInv /\ LaneInv /\ RequestsInv

(***************************************************************************)
(* HttpApi: the store of tokens, an OrderedDict.                           *)
(***************************************************************************)
\* X is A without its k-th of n elements.
Shorter(n, k, A, X) == \A j \in 1..(n - 1) : X[j] = IF j < k THEN A[j] ELSE A[j + 1]

\* What is left of a sequence without its i-th element.
LEMMA RemoveAtIs ==
  ASSUME NEW S, NEW s \in Seq(S), NEW i \in 1..Len(s)
  PROVE  /\ RemoveAt(s, i) \in Seq(S) /\ Len(RemoveAt(s, i)) = Len(s) - 1
         /\ Shorter(Len(s), i, s, RemoveAt(s, i))
<1>1. PICK n \in Nat : n = Len(s)
  BY LenProperties
<1>2. i \in 1..n /\ \A j \in 1..n : s[j] \in S
  BY <1>1, ElementOfSeq
<1>3. \A j \in 1..(i - 1) : s[j] \in S
  BY <1>2
<1>4. \A j \in (i + 1)..n : s[j] \in S
  BY <1>2
<1>5. PICK a : a = SubSeq(s, 1, i - 1)
  OBVIOUS
<1>6. a \in Seq(S) /\ Len(a) = i - 1 /\ \A j \in 1..(i - 1) : a[j] = s[j]
  <2>1. /\ a \in Seq(S) /\ Len(a) = IF 1 <= i - 1 THEN (i - 1) - 1 + 1 ELSE 0
        /\ \A j \in 1..((i - 1) - 1 + 1) : a[j] = s[1 + j - 1]
    BY <1>2, <1>3, <1>5, SubSeqProperties
  <2> QED
    BY <1>2, <2>1
<1>7. PICK b : b = SubSeq(s, i + 1, n)
  OBVIOUS
<1>8. b \in Seq(S) /\ Len(b) = n - i /\ \A j \in 1..(n - i) : b[j] = s[j + i]
  <2>1. /\ b \in Seq(S) /\ Len(b) = IF i + 1 <= n THEN n - (i + 1) + 1 ELSE 0
        /\ \A j \in 1..(n - (i + 1) + 1) : b[j] = s[(i + 1) + j - 1]
    BY <1>2, <1>4, <1>7, SubSeqProperties
  <2>2. n - (i + 1) + 1 = n - i /\ (IF i + 1 <= n THEN n - i ELSE 0) = n - i
    BY <1>2
  <2>3. \A j \in 1..(n - i) : (i + 1) + j - 1 = j + i
    BY <1>2
  <2>4. \A j \in 1..(n - i) : b[j] = s[(i + 1) + j - 1]
    BY <2>1, <2>2
  <2>5. Len(b) = n - i
    BY <2>1, <2>2
  <2> QED
    BY <2>1, <2>3, <2>4, <2>5, Zenon
<1>9. PICK x : x = a \o b
  OBVIOUS
<1>10. RemoveAt(s, i) = x
  BY <1>1, <1>5, <1>7, <1>9 DEF RemoveAt
<1>11. /\ x \in Seq(S) /\ Len(x) = (i - 1) + (n - i)
       /\ \A j \in 1..((i - 1) + (n - i)) : x[j] = IF j <= i - 1 THEN a[j] ELSE b[j - (i - 1)]
  <2>1. /\ x \in Seq(S) /\ Len(x) = Len(a) + Len(b)
        /\ \A j \in 1..(Len(a) + Len(b)) : x[j] = IF j <= Len(a) THEN a[j] ELSE b[j - Len(a)]
    BY <1>6, <1>8, <1>9, ConcatProperties
  <2>2. Len(a) = i - 1 /\ Len(b) = n - i
    BY <1>6, <1>8
  <2> QED
    BY <2>1, <2>2, Zenon
<1>12. (i - 1) + (n - i) = n - 1
  BY <1>2
<1>13. ASSUME NEW j \in 1..(n - 1) PROVE x[j] = IF j < i THEN s[j] ELSE s[j + 1]
  <2>1. CASE j < i
    <3>1. j <= i - 1 /\ j \in 1..(i - 1)
      BY <1>2, <2>1
    <3> QED
      BY <1>6, <1>11, <1>12, <2>1, <3>1
  <2>2. CASE ~(j < i)
    <3>1. ~(j <= i - 1) /\ j - (i - 1) \in 1..(n - i) /\ (j - (i - 1)) + i = j + 1
      BY <1>2, <2>2
    <3> QED
      BY <1>8, <1>11, <1>12, <2>2, <3>1
  <2> QED
    BY <2>1, <2>2
<1>14. Len(x) = n - 1
  BY <1>11, <1>12
<1> QED
  BY <1>1, <1>10, <1>11, <1>13, <1>14 DEF Shorter

\* Dropping the only place that holds a key.
LEMMA DroppedIs ==
  ASSUME NEW S, NEW s \in Seq(S), NEW i \in 1..Len(s), NEW at, at = {i}
  PROVE  /\ Dropped(s, at) \in Seq(S) /\ Len(Dropped(s, at)) = Len(s) - 1
         /\ Shorter(Len(s), i, s, Dropped(s, at))
<1>1. (CHOOSE x \in at : TRUE) = i
  OBVIOUS
<1>2. Dropped(s, at) = RemoveAt(s, i)
  BY <1>1 DEF Dropped
<1> QED
  BY <1>2, RemoveAtIs

\* Dropping one keeps the others distinct and in order, and drops only that one.
LEMMA ShorterTokens ==
  ASSUME NEW n \in Nat, NEW k \in 1..n, NEW A, NEW X, Shorter(n, k, A, X), Distinct(n, A)
  PROVE  /\ Distinct(n - 1, X)
         /\ \A j \in 1..(n - 1) : X[j].tok # A[k].tok /\ \E i \in 1..n : X[j] = A[i]
         /\ \A i \in 1..n : i # k => \E j \in 1..(n - 1) : X[j] = A[i]
<1>1. ASSUME NEW j \in 1..(n - 1)
      PROVE  \E i \in 1..n : X[j] = A[i] /\ i # k /\ i = IF j < k THEN j ELSE j + 1
  BY DEF Shorter
<1>2. Distinct(n - 1, X)
  <2> SUFFICES ASSUME NEW i \in 1..(n - 1), NEW j \in 1..(n - 1), X[i].tok = X[j].tok PROVE i = j
    BY DEF Distinct
  <2>1. PICK p \in 1..n : X[i] = A[p] /\ p = IF i < k THEN i ELSE i + 1
    BY <1>1
  <2>2. PICK q \in 1..n : X[j] = A[q] /\ q = IF j < k THEN j ELSE j + 1
    BY <1>1
  <2>3. p = q
    BY <2>1, <2>2 DEF Distinct
  <2> QED
    BY <2>1, <2>2, <2>3
<1>3. ASSUME NEW j \in 1..(n - 1) PROVE X[j].tok # A[k].tok /\ \E i \in 1..n : X[j] = A[i]
  BY <1>1 DEF Distinct
<1>4. ASSUME NEW i \in 1..n, i # k PROVE \E j \in 1..(n - 1) : X[j] = A[i]
  <2>1. CASE i < k
    <3>1. i \in 1..(n - 1)
      BY <2>1
    <3> QED
      BY <2>1, <3>1 DEF Shorter
  <2>2. CASE i > k
    <3>1. i - 1 \in 1..(n - 1) /\ ~(i - 1 < k) /\ (i - 1) + 1 = i
      BY <2>2
    <3> QED
      BY <3>1 DEF Shorter
  <2> QED
    BY <1>4, <2>1, <2>2
<1> QED
  BY <1>2, <1>3, <1>4

\* The same for the history.
LEMMA ShorterKeys ==
  ASSUME NEW m \in Nat, NEW l \in 1..m, NEW B, NEW Y, Shorter(m, l, B, Y), DistinctKeys(m, B)
  PROVE  DistinctKeys(m - 1, Y) /\ \A j \in 1..(m - 1) : Y[j] # B[l]
<1>1. ASSUME NEW j \in 1..(m - 1)
      PROVE  \E i \in 1..m : Y[j] = B[i] /\ i # l /\ i = IF j < l THEN j ELSE j + 1
  BY DEF Shorter
<1>2. DistinctKeys(m - 1, Y)
  <2> SUFFICES ASSUME NEW i \in 1..(m - 1), NEW j \in 1..(m - 1), Y[i] = Y[j] PROVE i = j
    BY DEF DistinctKeys
  <2>1. PICK p \in 1..m : Y[i] = B[p] /\ p = IF i < l THEN i ELSE i + 1
    BY <1>1
  <2>2. PICK q \in 1..m : Y[j] = B[q] /\ q = IF j < l THEN j ELSE j + 1
    BY <1>1
  <2>3. p = q
    BY <2>1, <2>2 DEF DistinctKeys
  <2> QED
    BY <2>1, <2>2, <2>3
<1>3. ASSUME NEW j \in 1..(m - 1) PROVE Y[j] # B[l]
  BY <1>1 DEF DistinctKeys
<1> QED
  BY <1>2, <1>3

\* Dropping a token from the store and from the history.
LEMMA ShorterAligned ==
  ASSUME NEW n \in Nat, NEW m \in Nat, NEW k \in 1..n, NEW l \in 1..m, l = (m - n) + k,
         NEW A, NEW X, NEW B, NEW Y, Shorter(n, k, A, X), Shorter(m, l, B, Y), Aligned(n, m, A, B)
  PROVE  Aligned(n - 1, m - 1, X, Y)
<1>1. ASSUME NEW i \in 1..(n - 1) PROVE X[i].tok = Y[((m - 1) - (n - 1)) + i]
  <2>1. PICK p \in 1..(m - 1) : p = (m - n) + i /\ p = ((m - 1) - (n - 1)) + i
    BY DEF Aligned
  <2>2. CASE i < k
    <3>1. p < l /\ i \in 1..n
      BY <2>1, <2>2
    <3>2. X[i] = A[i] /\ Y[p] = B[p] /\ A[i].tok = B[p]
      BY <2>1, <2>2, <3>1 DEF Shorter, Aligned
    <3> QED
      BY <2>1, <3>2
  <2>3. CASE ~(i < k)
    <3>1. ~(p < l) /\ i + 1 \in 1..n /\ p + 1 = (m - n) + (i + 1)
      BY <2>1, <2>3
    <3>2. X[i] = A[i + 1] /\ Y[p] = B[p + 1] /\ A[i + 1].tok = B[p + 1]
      BY <2>1, <2>3, <3>1 DEF Shorter, Aligned
    <3> QED
      BY <2>1, <3>2
  <2> QED
    BY <2>2, <2>3
<1>2. n - 1 <= m - 1
  BY DEF Aligned
<1> QED
  BY <1>1, <1>2 DEF Aligned

\* Dropping a token from the history that the store has evicted.
LEMMA ShorterHistory ==
  ASSUME NEW n \in Nat, NEW m \in Nat, NEW l \in 1..m, NEW A, NEW B, NEW Y,
         Shorter(m, l, B, Y), Aligned(n, m, A, B), \A i \in 1..n : A[i].tok # B[l]
  PROVE  Aligned(n, m - 1, A, Y)
<1>1. n <= m
  BY DEF Aligned
<1>2. l <= m - n
  <2> SUFFICES ASSUME l > m - n PROVE FALSE
    BY <1>1
  <2>1. PICK i \in 1..n : (m - n) + i = l
    <3>1. l - (m - n) \in 1..n /\ (m - n) + (l - (m - n)) = l
      BY <1>1
    <3> QED
      BY <3>1
  <2> QED
    BY <2>1 DEF Aligned
<1>3. ASSUME NEW i \in 1..n PROVE A[i].tok = Y[((m - 1) - n) + i]
  <2>1. PICK p \in 1..(m - 1) : p = ((m - 1) - n) + i /\ ~(p < l) /\ p + 1 = (m - n) + i
    <3>1. /\ ((m - 1) - n) + i \in 1..(m - 1) /\ ~(((m - 1) - n) + i < l)
          /\ (((m - 1) - n) + i) + 1 = (m - n) + i
      BY <1>1, <1>2
    <3> QED
      BY <3>1
  <2>2. Y[p] = B[p + 1] /\ A[i].tok = B[p + 1]
    BY <2>1 DEF Shorter, Aligned
  <2> QED
    BY <2>1, <2>2
<1>4. n <= m - 1
  BY <1>1, <1>2
<1> QED
  BY <1>3, <1>4 DEF Aligned

\* What a change leaves of the store: nothing new but entries of tok.
Keeps(tok, T) ==
  \A j \in DOMAIN T : T[j].tok = tok \/ \E i \in DOMAIN tokens : T[j] = tokens[i]
\* Only tok is gone.
DropsOnly(tok, T) ==
  \A i \in DOMAIN tokens : tokens[i].tok # tok => \E j \in DOMAIN T : T[j] = tokens[i]

\* The store without a token, and the history without it.
LEMMA DropOrdered ==
  ASSUME Ordered(tokens, uses), NEW tok \in Tokens
  PROVE  /\ Ordered(Without(tok), Unused(tok)) /\ Len(Without(tok)) <= Len(tokens)
         /\ Position(tok) # {} => Len(Without(tok)) = Len(tokens) - 1
         /\ \A i \in DOMAIN Without(tok) : Without(tok)[i].tok # tok
         /\ \A i \in DOMAIN Unused(tok) : Unused(tok)[i] # tok
         /\ \A j \in DOMAIN Without(tok) : \E i \in DOMAIN tokens : Without(tok)[j] = tokens[i]
         /\ DropsOnly(tok, Without(tok))
<1>1. PICK n \in Nat, m \in Nat : n = Len(tokens) /\ m = Len(uses)
  BY LenProperties DEF Ordered
<1>2. /\ tokens \in Seq(TokenRecord) /\ uses \in Seq(Tokens)
      /\ DOMAIN tokens = 1..n /\ DOMAIN uses = 1..m
  BY <1>1, LenProperties DEF Ordered
<1>3. Distinct(n, tokens) /\ DistinctKeys(m, uses) /\ Aligned(n, m, tokens, uses)
  BY <1>1 DEF Ordered
<1>4. PICK A, B : A = Without(tok) /\ B = Unused(tok)
  OBVIOUS
<1>5. CASE Position(tok) # {}
  <2>1. PICK k \in 1..n : tokens[k].tok = tok
    BY <1>2, <1>5 DEF Position
  <2>2. Position(tok) = {k}
    BY <1>2, <1>3, <2>1 DEF Position, Distinct
  <2>3. PICK l \in 1..m : l = (m - n) + k /\ uses[l] = tok
    BY <1>3, <2>1 DEF Aligned
  <2>4. {i \in DOMAIN uses : uses[i] = tok} = {l}
    BY <1>2, <1>3, <2>3 DEF DistinctKeys
  <2>5. A \in Seq(TokenRecord) /\ Len(A) = n - 1 /\ Shorter(n, k, tokens, A)
    BY <1>1, <1>2, <1>4, <2>2, DroppedIs DEF Without
  <2>6. B \in Seq(Tokens) /\ Len(B) = m - 1 /\ Shorter(m, l, uses, B)
    BY <1>1, <1>2, <1>4, <2>4, DroppedIs DEF Unused
  <2>7. DOMAIN A = 1..(n - 1) /\ DOMAIN B = 1..(m - 1)
    BY <2>5, <2>6, LenProperties
  <2>8. /\ Distinct(n - 1, A)
        /\ \A j \in 1..(n - 1) : A[j].tok # tok /\ \E i \in 1..n : A[j] = tokens[i]
        /\ \A i \in 1..n : i # k => \E j \in 1..(n - 1) : A[j] = tokens[i]
    BY <1>3, <2>1, <2>5, ShorterTokens
  <2>9. DistinctKeys(m - 1, B) /\ \A j \in 1..(m - 1) : B[j] # tok
    BY <1>3, <2>3, <2>6, ShorterKeys
  <2>10. Aligned(n - 1, m - 1, A, B)
    BY <1>3, <2>3, <2>5, <2>6, ShorterAligned
  <2>11. Ordered(A, B)
    BY <2>5, <2>6, <2>8, <2>9, <2>10 DEF Ordered
  <2>12. n - 1 <= n
    OBVIOUS
  <2>13. DropsOnly(tok, A)
    BY <1>2, <2>1, <2>7, <2>8 DEF DropsOnly
  <2>14. /\ \A i \in DOMAIN A : A[i].tok # tok
         /\ \A j \in DOMAIN A : \E i \in DOMAIN tokens : A[j] = tokens[i]
    BY <1>2, <2>7, <2>8, Zenon
  <2>15. \A i \in DOMAIN B : B[i] # tok
    BY <2>7, <2>9, Zenon
  <2>16. Len(A) <= Len(tokens) /\ Len(A) = Len(tokens) - 1
    BY <1>1, <2>5, <2>12
  <2> QED
    BY <1>4, <2>11, <2>13, <2>14, <2>15, <2>16, Zenon
<1>6. CASE Position(tok) = {}
  <2>1. A = tokens /\ \A i \in 1..n : tokens[i].tok # tok
    BY <1>2, <1>4, <1>6 DEF Without, Dropped, Position
  <2>2. Len(A) <= Len(tokens) /\ DropsOnly(tok, A) /\ \A j \in DOMAIN A : \E i \in DOMAIN tokens : A[j] = tokens[i]
    BY <1>1, <2>1 DEF DropsOnly
  <2>3. CASE \A l \in 1..m : uses[l] # tok
    <3>1. B = uses
      BY <1>2, <1>4, <2>3 DEF Unused, Dropped
    <3> QED
      BY <1>2, <1>4, <1>6, <2>1, <2>2, <2>3, <3>1
  <2>4. ASSUME NEW l \in 1..m, uses[l] = tok PROVE Ordered(A, B) /\ \A i \in DOMAIN B : B[i] # tok
    <3>1. {i \in DOMAIN uses : uses[i] = tok} = {l}
      BY <1>2, <1>3, <2>4 DEF DistinctKeys
    <3>2. B \in Seq(Tokens) /\ Len(B) = m - 1 /\ Shorter(m, l, uses, B)
      BY <1>1, <1>2, <1>4, <3>1, DroppedIs DEF Unused
    <3>3. DistinctKeys(m - 1, B) /\ \A j \in 1..(m - 1) : B[j] # tok
      BY <1>3, <2>4, <3>2, ShorterKeys
    <3>4. Aligned(n, m - 1, A, B)
      BY <1>3, <2>1, <2>4, <3>2, ShorterHistory
    <3>5. DOMAIN B = 1..(m - 1)
      BY <3>2, LenProperties
    <3> QED
      BY <1>1, <1>2, <1>3, <2>1, <3>2, <3>3, <3>4, <3>5 DEF Ordered
  <2> QED
    BY <1>2, <1>4, <1>6, <2>1, <2>2, <2>3, <2>4
<1> QED
  BY <1>5, <1>6

\* A key that is new to both goes to their ends.
LEMMA AppendOrdered ==
  ASSUME NEW A, NEW B, Ordered(A, B), NEW e \in TokenRecord,
         \A i \in DOMAIN A : A[i].tok # e.tok, \A i \in DOMAIN B : B[i] # e.tok
  PROVE  /\ Ordered(Append(A, e), Append(B, e.tok)) /\ Len(Append(A, e)) = Len(A) + 1
         /\ \A j \in DOMAIN Append(A, e) : Append(A, e)[j] = e \/ \E i \in DOMAIN A : Append(A, e)[j] = A[i]
         /\ \E j \in DOMAIN Append(A, e) : Append(A, e)[j] = e
         /\ \A i \in DOMAIN A : \E j \in DOMAIN Append(A, e) : Append(A, e)[j] = A[i]
<1>1. PICK n \in Nat, m \in Nat : n = Len(A) /\ m = Len(B)
  BY LenProperties DEF Ordered
<1>2. A \in Seq(TokenRecord) /\ B \in Seq(Tokens) /\ DOMAIN A = 1..n /\ DOMAIN B = 1..m
  BY <1>1, LenProperties DEF Ordered
<1>3. Distinct(n, A) /\ DistinctKeys(m, B) /\ Aligned(n, m, A, B)
  BY <1>1 DEF Ordered
<1>4. PICK t \in Tokens : t = e.tok
  BY DEF TokenRecord
<1>5. PICK X, Y : X = Append(A, e) /\ Y = Append(B, t)
  OBVIOUS
<1>6. /\ X \in Seq(TokenRecord) /\ Len(X) = n + 1 /\ X[n + 1] = e
      /\ \A i \in 1..n : X[i] = A[i]
  BY <1>1, <1>2, <1>5, AppendProperties
<1>7. /\ Y \in Seq(Tokens) /\ Len(Y) = m + 1 /\ Y[m + 1] = t
      /\ \A i \in 1..m : Y[i] = B[i]
  BY <1>1, <1>2, <1>4, <1>5, AppendProperties
<1>8. DOMAIN X = 1..(n + 1) /\ DOMAIN Y = 1..(m + 1)
  BY <1>6, <1>7, LenProperties
<1>9. ASSUME NEW k \in Nat, NEW i \in 1..(k + 1) PROVE i \in 1..k \/ i = k + 1
  OBVIOUS
<1>10. \A i \in 1..n : X[i].tok # t
  BY <1>2, <1>4, <1>6
<1>11. \A i \in 1..m : Y[i] # t
  BY <1>2, <1>4, <1>7
<1>12. X[n + 1].tok = t
  BY <1>4, <1>6
<1>13. Distinct(n + 1, X)
  <2> SUFFICES ASSUME NEW i \in 1..(n + 1), NEW j \in 1..(n + 1), X[i].tok = X[j].tok PROVE i = j
    BY DEF Distinct
  <2>1. (i \in 1..n \/ i = n + 1) /\ (j \in 1..n \/ j = n + 1)
    BY <1>9
  <2> QED
    BY <1>3, <1>6, <1>10, <1>12, <2>1, Zenon DEF Distinct
<1>14. DistinctKeys(m + 1, Y)
  <2> SUFFICES ASSUME NEW i \in 1..(m + 1), NEW j \in 1..(m + 1), Y[i] = Y[j] PROVE i = j
    BY DEF DistinctKeys
  <2>1. (i \in 1..m \/ i = m + 1) /\ (j \in 1..m \/ j = m + 1)
    BY <1>9
  <2> QED
    BY <1>3, <1>7, <1>11, <2>1, Zenon DEF DistinctKeys
<1>15. Aligned(n + 1, m + 1, X, Y)
  <2>1. ASSUME NEW i \in 1..(n + 1) PROVE X[i].tok = Y[((m + 1) - (n + 1)) + i]
    <3>1. CASE i = n + 1
      <4>1. ((m + 1) - (n + 1)) + i = m + 1
        BY <3>1
      <4> QED
        BY <1>7, <1>12, <3>1, <4>1
    <3>2. CASE i \in 1..n
      <4>1. ((m + 1) - (n + 1)) + i = (m - n) + i /\ (m - n) + i \in 1..m
        BY <1>3, <3>2 DEF Aligned
      <4>2. X[i].tok = B[(m - n) + i] /\ Y[(m - n) + i] = B[(m - n) + i]
        BY <1>3, <1>6, <1>7, <3>2, <4>1 DEF Aligned
      <4> QED
        BY <4>1, <4>2
    <3> QED
      BY <1>9, <3>1, <3>2
  <2>2. n + 1 <= m + 1
    BY <1>3 DEF Aligned
  <2> QED
    BY <2>1, <2>2 DEF Aligned
<1>16. Ordered(X, Y)
  BY <1>6, <1>7, <1>13, <1>14, <1>15 DEF Ordered
<1>17. \A j \in 1..(n + 1) : X[j] = e \/ \E i \in 1..n : X[j] = A[i]
  BY <1>6, <1>9
<1>18. n + 1 \in 1..(n + 1) /\ \A i \in 1..n : i \in 1..(n + 1)
  OBVIOUS
<1> QED
  BY <1>1, <1>2, <1>4, <1>5, <1>6, <1>8, <1>16, <1>17, <1>18

\* The oldest are evicted.
LEMMA EvictOrdered ==
  ASSUME NEW A, NEW B, Ordered(A, B)
  PROVE  /\ Ordered(Evict(A), B) /\ Len(Evict(A)) <= MaxTokens
         /\ \A j \in DOMAIN Evict(A) : \E i \in DOMAIN A : Evict(A)[j] = A[i]
<1>1. PICK n \in Nat, m \in Nat, h \in Nat : n = Len(A) /\ m = Len(B) /\ h = MaxTokens
  BY LenProperties, HttpApiAssumption DEF Ordered
<1>2. A \in Seq(TokenRecord) /\ B \in Seq(Tokens) /\ DOMAIN A = 1..n
  BY <1>1, LenProperties DEF Ordered
<1>3. Distinct(n, A) /\ DistinctKeys(m, B) /\ Aligned(n, m, A, B)
  BY <1>1 DEF Ordered
<1>4. \A i \in 1..n : A[i] \in TokenRecord
  BY <1>1, <1>2, ElementOfSeq
<1>5. CASE n > h
  <2>1. PICK X : X = SubSeq(A, n - h + 1, n)
    OBVIOUS
  <2>2. Evict(A) = X
    BY <1>1, <1>5, <2>1 DEF Evict, Latest
  <2>3. \A i \in (n - h + 1)..n : A[i] \in TokenRecord
    BY <1>4, <1>5
  <2>4. /\ X \in Seq(TokenRecord) /\ Len(X) = IF n - h + 1 <= n THEN n - (n - h + 1) + 1 ELSE 0
        /\ \A i \in 1..(n - (n - h + 1) + 1) : X[i] = A[(n - h + 1) + i - 1]
    <3>1. n - h + 1 \in Int
      OBVIOUS
    <3> QED
      BY <2>1, <2>3, <3>1, SubSeqProperties
  <2>5. n - (n - h + 1) + 1 = h /\ (n - h + 1 <= n <=> h # 0) /\ \A i \in Nat : (n - h + 1) + i - 1 = (n - h) + i
    OBVIOUS
  <2>6. Len(X) = h /\ \A i \in 1..h : X[i] = A[(n - h) + i]
    BY <2>4, <2>5
  <2>7. \A i \in 1..h : (n - h) + i \in 1..n
    BY <1>5
  <2>8. DOMAIN X = 1..h
    BY <2>4, <2>6, LenProperties
  <2>9. Distinct(h, X)
    <3> SUFFICES ASSUME NEW i \in 1..h, NEW j \in 1..h, X[i].tok = X[j].tok PROVE i = j
      BY DEF Distinct
    <3>1. (n - h) + i = (n - h) + j
      BY <1>3, <2>6, <2>7 DEF Distinct
    <3> QED
      BY <3>1
  <2>10. Aligned(h, m, X, B)
    <3>1. ASSUME NEW i \in 1..h PROVE X[i].tok = B[(m - h) + i]
      <4>1. (m - n) + ((n - h) + i) = (m - h) + i
        OBVIOUS
      <4>2. X[i].tok = B[(m - n) + ((n - h) + i)]
        BY <1>3, <2>6, <2>7, Zenon DEF Aligned
      <4> QED
        BY <4>1, <4>2
    <3>2. h <= m
      BY <1>3, <1>5 DEF Aligned
    <3> QED
      BY <3>1, <3>2 DEF Aligned
  <2>11. Ordered(X, B)
    BY <1>1, <1>2, <1>3, <2>4, <2>6, <2>9, <2>10 DEF Ordered
  <2>12. \A j \in DOMAIN X : \E i \in DOMAIN A : X[j] = A[i]
    BY <1>2, <2>6, <2>7, <2>8, Zenon
  <2>13. Len(X) <= MaxTokens
    BY <1>1, <2>6
  <2> QED
    BY <2>2, <2>11, <2>12, <2>13, Zenon
<1>6. CASE ~(n > h)
  <2>1. PICK X : X = SubSeq(A, 1, n)
    OBVIOUS
  <2>2. Evict(A) = X
    BY <1>1, <1>6, <2>1 DEF Evict, Latest
  <2>3. X = A
    <3>1. /\ X \in Seq(TokenRecord) /\ Len(X) = IF 1 <= n THEN n - 1 + 1 ELSE 0
          /\ \A i \in 1..(n - 1 + 1) : X[i] = A[1 + i - 1]
      BY <1>4, <2>1, SubSeqProperties
    <3>2. Len(X) = n /\ \A i \in 1..n : X[i] = A[i]
      BY <3>1
    <3> QED
      BY <1>1, <1>2, <3>1, <3>2, SeqEqual
  <2>4. n <= h
    BY <1>6
  <2> QED
    BY <1>1, <2>2, <2>3, <2>4
<1> QED
  BY <1>5, <1>6

(***************************************************************************)
(* HttpApi: the requests.                                                  *)
(***************************************************************************)
\* What no step of a request changes, and what most leave alone.
Same(v, w) == w.tok = v.tok /\ w.kind = v.kind /\ w.dead = v.dead /\ w.came = v.came /\ w.gone = v.gone
Alike(v, w) ==
  /\ Same(v, w) /\ w.actor = v.actor /\ w.user = v.user
  /\ w.audited = v.audited /\ w.written = v.written

\* The state that the soundness of a request depends on.
Surroundings == <<tokens, now, profile, handover>>

\* It is unchanged by what leaves these alone.
LEMMA SoundStays ==
  ASSUME UNCHANGED Surroundings, NEW v, Sound(v)
  PROVE  Sound(v)'
<1>1. tokens' = tokens /\ now' = now /\ profile' = profile /\ handover' = handover
  BY DEF Surroundings
<1>2. Progress(v)' /\ Scoped(v)'
  BY <1>1 DEF Sound, Progress, Scoped
<1>3. Named(v)'
  BY <1>1 DEF Sound, Named
<1>4. Refused(v)' /\ Missed(v)'
  BY <1>1 DEF Sound, Refused, Missed
<1> QED
  BY <1>2, <1>3, <1>4 DEF Sound

\* A step of one request that does the others no harm.
LEMMA OneRequest ==
  ASSUME RequestsInv, NEW r \in Requests, NEW w \in RequestRecord, Sound(w),
         Set(r, w), \A v \in RequestRecord : Sound(v) => Sound(v)'
  PROVE  RequestsInv'
<1>1. req \in [Requests -> RequestRecord] /\ req' = [req EXCEPT ![r] = w]
  BY DEF RequestsInv, Set
<1>2. req' \in [Requests -> RequestRecord]
  BY <1>1
<1>3. ASSUME NEW q \in Requests PROVE \E v \in RequestRecord : v = req'[q] /\ Sound(v)'
  <2>1. CASE q = r
    BY <1>1, <2>1
  <2>2. CASE q # r
    <3>1. PICK v \in RequestRecord : v = req[q] /\ Sound(v)
      BY DEF RequestsInv
    <3> QED
      BY <1>1, <2>2, <3>1
  <2> QED
    BY <2>1, <2>2
<1> QED
  BY <1>2, <1>3 DEF RequestsInv

\* A step of one request that changes nothing the others depend on.
LEMMA QuietStep ==
  ASSUME RequestsInv, NEW r \in Requests, NEW w \in RequestRecord, Sound(w), Set(r, w), UNCHANGED Surroundings
  PROVE  RequestsInv'
BY OneRequest, SoundStays

\* The request of a step.
LEMMA OwnRequest ==
  ASSUME RequestsInv, NEW r \in Requests
  PROVE  \E v \in RequestRecord : v = req[r] /\ Sound(v)
BY DEF RequestsInv

\* An answer: 401 at any time, another status only to one that was admitted.
LEMMA AnswerSound ==
  ASSUME NEW v \in RequestRecord, Sound(v), NEW s \in {"401", "403", "404", "422", "429"},
         v.pc \notin {"audit", "done"}, s = "401" \/ (v.pc \in Admitted /\ v.kind.scope # "open"),
         NEW w, w = [v EXCEPT !.pc = "audit", !.status = s]
  PROVE  w \in RequestRecord /\ Sound(w)
<1>1. /\ w \in RequestRecord /\ w.pc = "audit" /\ w.status = s /\ Alike(v, w)
      /\ w.touched = v.touched /\ w.absent = v.absent
  BY DEF RequestRecord, RequestLabels, Statuses, Alike, Same
<1>2. Progress(w)
  BY <1>1 DEF Sound, Progress, Alike, Same, Verifying, Admitted
<1>3. Named(w)
  BY <1>1 DEF Sound, Named, Alike, Same, Verifying
<1>4. Refused(w)
  BY <1>1 DEF Sound, Refused, Progress, Alike, Same, Verifying, Admitted
<1>5. Missed(w)
  BY <1>1 DEF Missed, Verifying
<1>6. Scoped(w)
  BY <1>1 DEF Sound, Scoped, Progress, Alike, Same
<1> QED
  BY <1>1, <1>2, <1>3, <1>4, <1>5, <1>6 DEF Sound

\* The KeyError of verify_token.
LEMMA RaiseSound ==
  ASSUME NEW v \in RequestRecord, Sound(v), v.pc \in Verifying, Position(v.tok) = {},
         NEW w, w = [v EXCEPT !.pc = "done", !.status = "raised"]
  PROVE  w \in RequestRecord /\ Sound(w)
<1>1. /\ w \in RequestRecord /\ w.pc = "done" /\ w.status = "raised" /\ Alike(v, w)
      /\ w.touched = v.touched /\ w.absent = v.absent
  BY DEF RequestRecord, RequestLabels, Statuses, Alike, Same
<1>2. v.gone
  BY DEF Sound, Missed, Position, RequestRecord
<1>3. Progress(w)
  BY <1>1, <1>2 DEF Sound, Progress, Alike, Same, Verifying, Admitted
<1>4. Named(w)
  BY <1>1 DEF Sound, Named, Alike, Same, Verifying
<1>5. Refused(w)
  BY <1>1 DEF Sound, Refused, Progress, Alike, Same, Verifying, Admitted
<1>6. Missed(w)
  BY <1>1 DEF Missed, Verifying
<1>7. Scoped(w)
  BY <1>1 DEF Sound, Scoped, Progress, Alike, Same, Verifying, Admitted
<1> QED
  BY <1>1, <1>3, <1>4, <1>5, <1>6, <1>7 DEF Sound

\* Going on to another label, with nothing else changed.
LEMMA GoSound ==
  ASSUME NEW v \in RequestRecord, Sound(v), NEW p \in RequestLabels,
         \/ v.pc = "context" /\ p = "route" /\ Position(v.tok) = {}
         \/ v.pc = "route" /\ p = "act" /\ v.kind.scope = "open"
         \/ v.pc = "route" /\ p = "verify" /\ v.kind.scope # "open" /\ v.tok # Nobody
         \/ v.pc = "limit" /\ p = "check",
         NEW w, w = [v EXCEPT !.pc = p]
  PROVE  w \in RequestRecord /\ Sound(w)
<1>1. /\ w \in RequestRecord /\ w.pc = p /\ w.status = v.status /\ Alike(v, w)
      /\ w.touched = v.touched /\ w.absent = v.absent
  BY DEF RequestRecord, Alike, Same
<1>2. v.tok \in Tokens \/ v.tok = Nobody
  BY DEF RequestRecord
<1>3. Progress(w)
  BY <1>1, <1>2 DEF Sound, Progress, Alike, Same, Verifying, Admitted
<1>4. Named(w)
  <2>1. ASSUME ~w.came, NEW i \in DOMAIN tokens, tokens[i].tok = w.tok, p \in {"route", "verify"}
        PROVE tokens[i].user = w.actor
    BY <1>1, <2>1 DEF Sound, Named, Alike, Same, Position
  <2>2. p \notin Verifying /\ p # "touch"
    BY DEF Verifying
  <2>3. w.user # Nobody /\ ~w.came => w.user = w.actor
    BY <1>1 DEF Sound, Named, Alike, Same
  <2> QED
    BY <1>1, <2>1, <2>2, <2>3 DEF Named
<1>5. Refused(w)
  BY <1>1 DEF Sound, Refused, Progress, Alike, Same, Verifying, Admitted
<1>6. Missed(w)
  BY <1>1 DEF Missed, Verifying
<1>7. Scoped(w)
  BY <1>1 DEF Sound, Scoped, Progress, Alike, Same, Verifying, Admitted
<1> QED
  BY <1>1, <1>3, <1>4, <1>5, <1>6, <1>7 DEF Sound

\* The entry of a token is the only one it has.
LEMMA EntryIs ==
  ASSUME Ordered(tokens, uses), NEW i \in DOMAIN tokens
  PROVE  /\ Entry(tokens[i].tok) = tokens[i] /\ Position(tokens[i].tok) # {}
         /\ tokens[i] \in TokenRecord /\ tokens[i].tok \in Tokens /\ tokens[i].at \in Nat /\ tokens[i].user \in Users
<1>1. tokens \in Seq(TokenRecord) /\ Distinct(Len(tokens), tokens)
  BY DEF Ordered
<1>2. DOMAIN tokens = 1..Len(tokens) /\ tokens[i] \in TokenRecord
  BY <1>1, LenProperties, ElementOfSeq
<1>3. Position(tokens[i].tok) = {i}
  <2>1. \A j \in DOMAIN tokens : tokens[j].tok = tokens[i].tok <=> j = i
    BY <1>1, <1>2, Zenon DEF Distinct
  <2> QED
    BY <2>1, Zenon DEF Position
<1>4. Entry(tokens[i].tok) = tokens[i]
  <2>1. PICK P : P = Position(tokens[i].tok) /\ P = {i}
    BY <1>3
  <2>2. (CHOOSE x \in P : TRUE) = i
    BY <2>1
  <2> QED
    BY <2>1, <2>2 DEF Entry
<1> QED
  BY <1>2, <1>3, <1>4, HttpApiAssumption DEF TokenRecord

\* Every kind of route says whether it writes and how it is scoped.
LEMMA KindsTyped == Kinds \subseteq [write : BOOLEAN, scope : Scopes]
<1>1. ASSUME NEW n, NEW s \in Scopes
      PROVE  /\ Get(n, s).write \in BOOLEAN /\ Get(n, s).scope \in Scopes
             /\ Post(n, s).write \in BOOLEAN /\ Post(n, s).scope \in Scopes
  BY DEF Get, Post
<1>2. ASSUME NEW names, NEW s \in Scopes, NEW x \in GetAll(names, s) \cup PostAll(names, s)
      PROVE  x.write \in BOOLEAN /\ x.scope \in Scopes
  <2>1. PICK n \in names : x = Get(n, s) \/ x = Post(n, s)
    BY <1>2 DEF GetAll, PostAll
  <2> QED
    BY <1>1, <2>1
<1>3. /\ "open" \in Scopes /\ "any" \in Scopes /\ "own" \in Scopes /\ "command" \in Scopes
      /\ "register" \in Scopes /\ "enqueue" \in Scopes /\ "run" \in Scopes
  BY DEF Scopes
<1>4. ASSUME NEW x \in Routes PROVE x.write \in BOOLEAN /\ x.scope \in Scopes
  <2>1. CASE x \in HealthRoutes \cup TradeHudRoutes
    BY <1>2, <1>3, <2>1 DEF HealthRoutes, TradeHudRoutes
  <2>2. CASE x \in EvidenceRoutes
    BY <1>1, <1>3, <2>2 DEF EvidenceRoutes
  <2>3. CASE x \in CatalogRoutes \cup JobRoutes
    BY <1>2, <1>3, <2>3 DEF CatalogRoutes, JobRoutes
  <2>4. CASE x \in PlanRoutes \cup LlmRoutes
    BY <1>1, <1>3, <2>4 DEF PlanRoutes, LlmRoutes
  <2>5. CASE x \in LaneRoutes
    BY <1>1, <1>3, <2>5 DEF LaneRoutes
  <2>6. CASE x \in SessionRoutes
    BY <1>1, <1>3, <2>6 DEF SessionRoutes
  <2>7. CASE x \in StrategyRoutes \cup ResultRoutes
    BY <1>2, <1>3, <2>7 DEF StrategyRoutes, ResultRoutes
  <2>8. CASE x \in AssistantRoutes
    BY <1>1, <1>2, <1>3, <2>8 DEF AssistantRoutes
  <2> QED
    BY <2>1, <2>2, <2>3, <2>4, <2>5, <2>6, <2>7, <2>8 DEF Routes
<1> QED
  BY <1>4 DEF Kinds

\* A request arrives; its token is dead if the store has no fresh entry of it.
LEMMA ArriveSound ==
  ASSUME StoreInv, NEW v \in RequestRecord, Sound(v), v.pc = "new",
         NEW kind \in Kinds, NEW tok \in Tokens \cup {Nobody}, NEW w,
         w = [v EXCEPT !.pc = IF tok = Nobody THEN "route" ELSE "context", !.kind = kind, !.tok = tok,
                       !.dead = tok # Nobody /\ (Position(tok) = {} \/ now - Entry(tok).at > Ttl)]
  PROVE  w \in RequestRecord /\ Sound(w)
<1>0. (tok # Nobody /\ (Position(tok) = {} \/ now - Entry(tok).at > Ttl)) \in BOOLEAN
  OBVIOUS
<1>1. PICK p \in {"route", "context"}, d \in BOOLEAN :
        /\ p = (IF tok = Nobody THEN "route" ELSE "context")
        /\ d = (tok # Nobody /\ (Position(tok) = {} \/ now - Entry(tok).at > Ttl))
  BY <1>0, Zenon
<1>2. p \in {"route", "context"} /\ w = [v EXCEPT !.pc = p, !.kind = kind, !.tok = tok, !.dead = d]
  BY <1>1, Zenon
<1>3. kind \in [write : BOOLEAN, scope : Scopes]
  BY KindsTyped
<1>4. /\ w \in RequestRecord /\ w.pc = p /\ w.kind = kind /\ w.tok = tok /\ w.dead = d
      /\ w.actor = v.actor /\ w.user = v.user /\ w.status = v.status /\ w.touched = v.touched
      /\ w.written = v.written
  BY <1>2, <1>3 DEF RequestRecord, RequestLabels
<1>5. /\ v.actor = Nobody /\ v.user = Nobody /\ v.status = "none" /\ v.touched = Nobody /\ ~v.written
  BY DEF Sound, Progress, Admitted
<1>6. Progress(w)
  BY <1>1, <1>2, <1>4, <1>5 DEF Progress, Verifying, Admitted
<1>7. Named(w)
  <2>1. \A i \in DOMAIN tokens : p = "route" => tokens[i].tok # tok
    BY <1>1, EntryIs, HttpApiAssumption DEF StoreInv
  <2> QED
    BY <1>2, <1>4, <1>5, <2>1 DEF Named, Verifying
<1>8. Refused(w)
  <2>1. ASSUME d, NEW i \in DOMAIN tokens, tokens[i].tok = tok PROVE now - tokens[i].at > Ttl
    BY <1>1, <2>1, EntryIs DEF StoreInv
  <2> QED
    BY <1>2, <1>4, <1>5, <2>1 DEF Refused, Verifying, Admitted
<1>9. Missed(w) /\ Scoped(w)
  BY <1>2, <1>4, <1>5 DEF Missed, Scoped, Verifying
<1> QED
  BY <1>4, <1>6, <1>7, <1>8, <1>9 DEF Sound

\* verify_token finds an entry.
LEMMA FoundSound ==
  ASSUME StoreInv, NEW v \in RequestRecord, Sound(v), v.pc \in {"context", "verify"}, Position(v.tok) # {},
         NEW w, w = [v EXCEPT !.pc = IF @ = "context" THEN "touch_context" ELSE "touch",
                              !.seen = Entry(v.tok).user, !.old = now - Entry(v.tok).at > Ttl]
  PROVE  w \in RequestRecord /\ Sound(w)
<1>1. PICK k \in DOMAIN tokens : tokens[k].tok = v.tok
  BY DEF Position
<1>2. Entry(v.tok) = tokens[k] /\ v.tok \in Tokens /\ tokens[k].user \in Users
  BY <1>1, EntryIs DEF StoreInv
<1>0. (now - tokens[k].at > Ttl) \in BOOLEAN
  OBVIOUS
<1>3. PICK p \in Verifying, o \in BOOLEAN, u \in Users :
        /\ p = (IF v.pc = "context" THEN "touch_context" ELSE "touch")
        /\ o = (now - tokens[k].at > Ttl) /\ u = tokens[k].user
  BY <1>0, <1>2, Zenon DEF Verifying
<1>4. p \in Verifying /\ w = [v EXCEPT !.pc = p, !.seen = u, !.old = o]
  BY <1>2, <1>3, Zenon
<1>5. /\ w \in RequestRecord /\ w.pc = p /\ w.seen = u /\ w.old = o /\ Alike(v, w)
      /\ w.status = v.status /\ w.touched = v.touched /\ w.absent = v.absent
  BY <1>4 DEF RequestRecord, RequestLabels, Owners, Alike, Same, Verifying
<1>6. Progress(w)
  BY <1>2, <1>3, <1>5 DEF Sound, Progress, Alike, Same, Verifying, Admitted
<1>7. ASSUME NEW i \in DOMAIN tokens, tokens[i].tok = v.tok PROVE tokens[i] = tokens[k]
  BY <1>2, <1>7, EntryIs DEF StoreInv
<1>8. Named(w)
  <2>1. ASSUME NEW i \in DOMAIN tokens, tokens[i].tok = w.tok, ~w.came
        PROVE tokens[i].user = w.seen /\ (w.pc \in {"route", "verify", "touch"} => tokens[i].user = w.actor)
    <3>1. tokens[i].user = w.seen
      BY <1>3, <1>5, <1>7, <2>1 DEF Alike, Same
    <3>2. w.pc \in {"route", "verify", "touch"} => v.pc = "verify"
      BY <1>3, <1>5
    <3> QED
      BY <1>5, <2>1, <3>1, <3>2 DEF Sound, Named, Alike, Same
  <2>2. w.user # Nobody /\ ~w.came => w.user = w.actor
    BY <1>5 DEF Sound, Named, Alike, Same
  <2> QED
    BY <2>1, <2>2 DEF Named
<1>9. Refused(w)
  BY <1>1, <1>3, <1>5 DEF Sound, Refused, Progress, Alike, Same, Verifying, Admitted
<1>10. Missed(w)
  BY <1>1, <1>5 DEF Missed, Alike, Same
<1>11. Scoped(w)
  BY <1>3, <1>5 DEF Sound, Scoped, Alike, Same
<1> QED
  BY <1>5, <1>6, <1>8, <1>9, <1>10, <1>11 DEF Sound

\* verify_token gives a fresh token its context.
LEMMA UseSound ==
  ASSUME NEW v \in RequestRecord, Sound(v), v.pc \in Verifying, Position(v.tok) # {}, ~v.old,
         NEW p, p = IF v.pc = "touch_context" THEN "route" ELSE "limit",
         NEW w, w = [v EXCEPT !.pc = p, !.seen = Nobody, !.actor = IF p = "route" THEN v.seen ELSE @,
                              !.user = IF p = "route" THEN @ ELSE v.seen]
  PROVE  w \in RequestRecord /\ Sound(w)
<1>1. PICK k \in DOMAIN tokens : tokens[k].tok = v.tok
  BY DEF Position
<1>2. /\ v.actor \in Owners /\ v.user \in Owners /\ v.seen \in Users /\ v.tok \in Tokens
      /\ v.status = "none" /\ v.touched = Nobody /\ ~v.written /\ v.user = Nobody
      /\ v.pc = "touch" => v.kind.scope # "open"
  BY DEF Sound, Progress, RequestRecord, Verifying, Admitted
<1>3. PICK a \in Owners, u \in Owners : /\ a = (IF p = "route" THEN v.seen ELSE v.actor)
                                        /\ u = (IF p = "route" THEN v.user ELSE v.seen)
  BY <1>2 DEF Owners
<1>4. p \in {"route", "limit"} /\ w = [v EXCEPT !.pc = p, !.seen = Nobody, !.actor = a, !.user = u]
  BY <1>3
<1>5. /\ w \in RequestRecord /\ w.pc = p /\ w.actor = a /\ w.user = u /\ Same(v, w)
      /\ w.status = v.status /\ w.touched = v.touched /\ w.written = v.written /\ w.absent = v.absent
  <2>1. Nobody \in Owners /\ p \in RequestLabels
    BY <1>4 DEF Owners, RequestLabels
  <2> QED
    BY <1>3, <1>4, <2>1 DEF RequestRecord, Same
<1>6. Progress(w)
  BY <1>2, <1>3, <1>4, <1>5 DEF Progress, Same, Verifying, Admitted
<1>7. Named(w)
  <2>1. ASSUME ~v.came PROVE \A i \in DOMAIN tokens : tokens[i].tok = v.tok => tokens[i].user = v.seen
    BY <2>1 DEF Sound, Named
  <2>2. ASSUME ~v.came, v.pc = "touch" PROVE v.seen = v.actor
    BY <1>1, <2>1, <2>2 DEF Sound, Named
  <2>3. p = "limit" => v.pc = "touch"
    BY DEF Verifying
  <2> QED
    BY <1>2, <1>3, <1>4, <1>5, <2>1, <2>2, <2>3 DEF Named, Same, Verifying
<1>8. Refused(w)
  BY <1>5 DEF Sound, Refused, Same
<1>9. Missed(w) /\ Scoped(w)
  BY <1>2, <1>4, <1>5 DEF Missed, Scoped, Verifying
<1> QED
  BY <1>5, <1>6, <1>7, <1>8, <1>9 DEF Sound

\* The scope check lets a request pass: the record is its own project's, or missing.
LEMMA CheckSound ==
  ASSUME LaneInv, NEW v \in RequestRecord, Sound(v), v.pc = "check",
         NEW c \in {Nobody, v.user}, v.kind.scope = "run" => c = profile, v.kind.scope = "command" => c = command,
         NEW w, w = [v EXCEPT !.pc = "act", !.absent = c = Nobody]
  PROVE  w \in RequestRecord /\ Sound(w)
<1>1. PICK a \in BOOLEAN : a = (c = Nobody)
  OBVIOUS
<1>2. w = [v EXCEPT !.pc = "act", !.absent = a]
  BY <1>1
<1>3. /\ w \in RequestRecord /\ w.pc = "act" /\ w.absent = a /\ Alike(v, w)
      /\ w.status = v.status /\ w.touched = v.touched
  BY <1>2 DEF RequestRecord, RequestLabels, Alike, Same
<1>4. Progress(w)
  BY <1>3 DEF Sound, Progress, Alike, Same, Verifying, Admitted
<1>5. Named(w)
  BY <1>3 DEF Sound, Named, Alike, Same, Verifying
<1>6. Refused(w)
  BY <1>3 DEF Sound, Refused, Alike, Same, Verifying, Admitted
<1>7. Missed(w)
  BY <1>3 DEF Missed, Verifying
<1>8. Scoped(w)
  BY <1>1, <1>3 DEF Sound, Scoped, Progress, Alike, Same, Admitted, LaneInv
<1> QED
  BY <1>3, <1>4, <1>5, <1>6, <1>7, <1>8 DEF Sound

\* A handler touches what it may.
LEMMA TouchSound ==
  ASSUME NEW v \in RequestRecord, Sound(v), v.pc = "act", NEW p \in Users,
         v.kind.scope \in {"open", "any"} \/ p = v.user \/ handover \/ v.absent,
         NEW end \in {"200", "raised"}, NEW w,
         w = [v EXCEPT !.pc = IF end = "200" THEN "audit" ELSE "done", !.status = end,
                       !.touched = IF v.kind.write THEN p ELSE Nobody]
  PROVE  w \in RequestRecord /\ Sound(w)
<1>1. PICK l \in {"audit", "done"}, t \in Owners :
        l = (IF end = "200" THEN "audit" ELSE "done") /\ t = (IF v.kind.write THEN p ELSE Nobody)
  BY DEF Owners
<1>2. l \in {"audit", "done"} /\ (l = "done" <=> end = "raised") /\ w = [v EXCEPT !.pc = l, !.status = end, !.touched = t]
  BY <1>1
<1>3. /\ w \in RequestRecord /\ w.pc = l /\ w.status = end /\ w.touched = t /\ Alike(v, w)
      /\ w.absent = v.absent
  BY <1>2 DEF RequestRecord, RequestLabels, Statuses, Alike, Same
<1>4. Nobody \notin Users
  BY HttpApiAssumption
<1>5. Progress(w)
  BY <1>2, <1>3, <1>4 DEF Sound, Progress, Alike, Same, Verifying, Admitted
<1>6. Named(w)
  BY <1>2, <1>3 DEF Sound, Named, Alike, Same, Verifying
<1>7. Refused(w)
  BY <1>2, <1>3 DEF Sound, Refused, Alike, Same, Verifying, Admitted
<1>8. Missed(w)
  BY <1>2, <1>3 DEF Missed, Verifying
<1>9. Scoped(w)
  BY <1>1, <1>2, <1>3 DEF Scoped, Alike, Same
<1> QED
  BY <1>3, <1>5, <1>6, <1>7, <1>8, <1>9 DEF Sound

\* The audit middleware records the event, or turns success into failure.
LEMMA AuditSound ==
  ASSUME NEW v \in RequestRecord, Sound(v), v.pc = "audit", NEW stored \in BOOLEAN, NEW w,
         w = [v EXCEPT !.pc = "done", !.written = stored /\ v.kind.write,
                       !.audited = IF stored THEN v.actor ELSE Nobody,
                       !.status = IF ~stored /\ v.kind.write /\ @ = "200" THEN "500" ELSE @]
  PROVE  w \in RequestRecord /\ Sound(w)
<1>1. v.actor \in Owners /\ v.status \in Statuses /\ v.kind.write \in BOOLEAN
  BY DEF RequestRecord
<1>2. PICK b \in BOOLEAN, a \in Owners, s \in Statuses :
        /\ b = (stored /\ v.kind.write) /\ a = (IF stored THEN v.actor ELSE Nobody)
        /\ s = IF ~stored /\ v.kind.write /\ v.status = "200" THEN "500" ELSE v.status
  BY <1>1 DEF Owners, Statuses
<1>3. w = [v EXCEPT !.pc = "done", !.written = b, !.audited = a, !.status = s]
  BY <1>2
<1>4. /\ w \in RequestRecord /\ w.pc = "done" /\ w.written = b /\ w.audited = a /\ w.status = s /\ Same(v, w)
      /\ w.actor = v.actor /\ w.user = v.user /\ w.touched = v.touched /\ w.absent = v.absent
  BY <1>3 DEF RequestRecord, RequestLabels, Same
<1>5. ASSUME v.status = "raised", v.user = Nobody, v.kind.scope # "open" PROVE v.gone
  BY <1>5 DEF Sound, Progress
<1>6. Progress(w)
  BY <1>1, <1>2, <1>4, <1>5 DEF Progress, Same, Verifying, Admitted
<1>7. Named(w)
  BY <1>4 DEF Sound, Named, Same, Verifying
<1>8. Refused(w)
  BY <1>2, <1>4 DEF Sound, Refused, Same, Verifying, Admitted
<1>9. Missed(w)
  BY <1>4 DEF Missed, Verifying
<1>10. Scoped(w)
  BY <1>4 DEF Sound, Scoped, Same
<1> QED
  BY <1>4, <1>6, <1>7, <1>8, <1>9, <1>10 DEF Sound

\* No entry is new.
OnlyOld(T) == \A j \in DOMAIN T : \E i \in DOMAIN tokens : T[j] = tokens[i]

\* A use of a token harms no request.
LEMMA UseUnharmed ==
  ASSUME OnlyOld(tokens'), \A i \in DOMAIN tokens : \E j \in DOMAIN tokens' : tokens'[j] = tokens[i],
         UNCHANGED <<now, profile, handover>>, NEW v \in RequestRecord, Sound(v)
  PROVE  Sound(v)'
<1>1. Progress(v)' /\ Scoped(v)'
  BY DEF Sound, Progress, Scoped
<1>2. Named(v)'
  BY DEF Sound, Named, OnlyOld
<1>3. Refused(v)'
  BY DEF Sound, Refused, OnlyOld
<1>4. Missed(v)'
  BY DEF Sound, Missed
<1> QED
  BY <1>1, <1>2, <1>3, <1>4 DEF Sound

\* Neither does the clock.
LEMMA LaterUnharmed ==
  ASSUME StoreInv, now' = now + 1, UNCHANGED <<tokens, profile, handover>>, NEW v \in RequestRecord, Sound(v)
  PROVE  Sound(v)'
<1>1. Progress(v)' /\ Scoped(v)'
  BY DEF Sound, Progress, Scoped
<1>2. Named(v)' /\ Missed(v)'
  BY DEF Sound, Named, Missed
<1>3. ASSUME NEW i \in DOMAIN tokens, now - tokens[i].at > Ttl PROVE now' - tokens[i].at > Ttl
  <2>1. tokens[i].at \in Nat /\ now \in Nat /\ Ttl \in Nat
    BY EntryIs, HttpApiAssumption DEF StoreInv
  <2> QED
    BY <1>3, <2>1
<1>4. Refused(v)'
  BY <1>3 DEF Sound, Refused
<1> QED
  BY <1>1, <1>2, <1>4 DEF Sound

\* Nor a profile that is registered.
LEMMA ProfileUnharmed ==
  ASSUME NEW u \in Users, profile' = u, handover' = (handover \/ profile \notin {Nobody, u}),
         UNCHANGED <<tokens, now>>, NEW v \in RequestRecord, Sound(v)
  PROVE  Sound(v)'
<1>1. Progress(v)'
  BY DEF Sound, Progress
<1>2. Named(v)' /\ Missed(v)'
  BY DEF Sound, Named, Missed
<1>3. Refused(v)'
  BY DEF Sound, Refused
<1>4. Nobody \notin Users
  BY HttpApiAssumption
<1>5. Scoped(v)'
  <2>1. ASSUME v.pc = "act", v.kind.scope \in {"run", "command"}, ~v.absent, ~handover' PROVE profile' = v.user
    BY <1>4, <2>1 DEF Sound, Scoped, Progress, Admitted
  <2>2. handover => handover'
    OBVIOUS
  <2> QED
    BY <2>1, <2>2 DEF Sound, Scoped
<1> QED
  BY <1>1, <1>2, <1>3, <1>5 DEF Sound

\* A request whose token is removed takes note of it.
LEMMA GoneSound ==
  ASSUME NEW tok, OnlyOld(tokens'), DropsOnly(tok, tokens'), UNCHANGED <<now, profile, handover>>,
         NEW v \in RequestRecord, Sound(v), NEW w, w = [v EXCEPT !.gone = @ \/ v.tok = tok]
  PROVE  w \in RequestRecord /\ Sound(w)'
<1>0. (v.gone \/ v.tok = tok) \in BOOLEAN
  OBVIOUS
<1>1. PICK g \in BOOLEAN : g = (v.gone \/ v.tok = tok)
  BY <1>0
<1>2. w = [v EXCEPT !.gone = g]
  BY <1>1, Zenon
<1>3. /\ w \in RequestRecord /\ w.gone = g /\ w.pc = v.pc /\ w.tok = v.tok /\ w.kind = v.kind /\ w.seen = v.seen
      /\ w.old = v.old /\ w.actor = v.actor /\ w.user = v.user /\ w.status = v.status /\ w.touched = v.touched
      /\ w.audited = v.audited /\ w.written = v.written /\ w.absent = v.absent /\ w.dead = v.dead /\ w.came = v.came
  BY <1>2 DEF RequestRecord
<1>4. Progress(w)'
  BY <1>1, <1>3 DEF Sound, Progress
<1>5. Scoped(w)'
  BY <1>3 DEF Sound, Scoped
<1>6. Named(w)'
  BY <1>3 DEF Sound, Named, OnlyOld
<1>7. Refused(w)'
  BY <1>3 DEF Sound, Refused, OnlyOld
<1>8. Missed(w)'
  BY <1>1, <1>3 DEF Sound, Missed, DropsOnly
<1> QED
  BY <1>3, <1>4, <1>5, <1>6, <1>7, <1>8 DEF Sound

\* A request whose token is registered anew, or evicted, takes note of it.
LEMMA CameSound ==
  ASSUME NEW tok, Keeps(tok, tokens'), UNCHANGED <<now, profile, handover>>,
         NEW v \in RequestRecord, Sound(v), NEW w,
         w = [v EXCEPT !.came = @ \/ v.tok = tok,
                       !.gone = @ \/ ~\E i \in DOMAIN tokens' : tokens'[i].tok = v.tok]
  PROVE  w \in RequestRecord /\ Sound(w)'
<1>0. /\ (v.gone \/ ~\E i \in DOMAIN tokens' : tokens'[i].tok = v.tok) \in BOOLEAN
      /\ (v.came \/ v.tok = tok) \in BOOLEAN
  OBVIOUS
<1>1. PICK g \in BOOLEAN, c \in BOOLEAN : /\ g = (v.gone \/ ~\E i \in DOMAIN tokens' : tokens'[i].tok = v.tok)
                                          /\ c = (v.came \/ v.tok = tok)
  BY <1>0, Zenon
<1>2. w = [v EXCEPT !.came = c, !.gone = g]
  BY <1>1, Zenon
<1>3. /\ w \in RequestRecord /\ w.gone = g /\ w.pc = v.pc /\ w.tok = v.tok /\ w.kind = v.kind /\ w.seen = v.seen
      /\ w.old = v.old /\ w.actor = v.actor /\ w.user = v.user /\ w.status = v.status /\ w.touched = v.touched
      /\ w.audited = v.audited /\ w.written = v.written /\ w.absent = v.absent /\ w.dead = v.dead /\ w.came = c
  BY <1>2 DEF RequestRecord
<1>4. Progress(w)'
  BY <1>1, <1>3 DEF Sound, Progress
<1>5. Scoped(w)'
  BY <1>3 DEF Sound, Scoped
<1>6. ASSUME ~c PROVE ~v.came /\ \A j \in DOMAIN tokens' : tokens'[j].tok = v.tok => \E i \in DOMAIN tokens : tokens'[j] = tokens[i]
  BY <1>1, <1>6 DEF Keeps
<1>7. Named(w)'
  BY <1>3, <1>6 DEF Sound, Named
<1>8. Refused(w)'
  BY <1>3, <1>6 DEF Sound, Refused
<1>9. Missed(w)'
  BY <1>1, <1>3 DEF Missed
<1> QED
  BY <1>3, <1>4, <1>5, <1>7, <1>8, <1>9 DEF Sound

\* The request that finds its token expired.
LEMMA ExpiredSound ==
  ASSUME OnlyOld(tokens'), UNCHANGED <<now, profile, handover>>,
         NEW v \in RequestRecord, Sound(v), v.pc \in Verifying, \A j \in DOMAIN tokens' : tokens'[j].tok # v.tok,
         NEW u, u = [v EXCEPT !.gone = @ \/ v.tok = v.tok], NEW w,
         w = IF v.pc = "touch_context" THEN [u EXCEPT !.pc = "route"]
             ELSE [u EXCEPT !.pc = "audit", !.status = "401"]
  PROVE  w \in RequestRecord /\ Sound(w)'
<1>1. /\ u \in RequestRecord /\ u.pc = v.pc /\ u.tok = v.tok /\ u.kind = v.kind
      /\ u.actor = v.actor /\ u.user = v.user /\ u.status = v.status /\ u.touched = v.touched
      /\ u.audited = v.audited /\ u.written = v.written /\ u.absent = v.absent /\ u.dead = v.dead /\ u.came = v.came
  BY DEF RequestRecord
<1>2. /\ w \in RequestRecord /\ w.tok = u.tok /\ w.kind = u.kind
      /\ w.actor = u.actor /\ w.user = u.user /\ w.touched = u.touched
      /\ w.audited = u.audited /\ w.written = u.written /\ w.absent = u.absent /\ w.dead = u.dead /\ w.came = u.came
      /\ \/ v.pc = "touch_context" /\ w.pc = "route" /\ w.status = u.status
         \/ v.pc = "touch" /\ w.pc = "audit" /\ w.status = "401"
  <2>1. CASE v.pc = "touch_context"
    <3>1. w = [u EXCEPT !.pc = "route"]
      BY <2>1
    <3>2. "route" \in RequestLabels
      BY DEF RequestLabels
    <3>3. /\ w \in RequestRecord /\ w.tok = u.tok /\ w.kind = u.kind
          /\ w.actor = u.actor /\ w.user = u.user /\ w.touched = u.touched
          /\ w.audited = u.audited /\ w.written = u.written /\ w.absent = u.absent
          /\ w.dead = u.dead /\ w.came = u.came /\ w.pc = "route" /\ w.status = u.status
      BY <1>1, <3>1, <3>2 DEF RequestRecord
    <3> QED
      BY <2>1, <3>3
  <2>2. CASE v.pc = "touch"
    <3>1. w = [u EXCEPT !.pc = "audit", !.status = "401"]
      BY <2>2
    <3>2. "audit" \in RequestLabels /\ "401" \in Statuses
      BY DEF RequestLabels, Statuses
    <3>3. /\ w \in RequestRecord /\ w.tok = u.tok /\ w.kind = u.kind
          /\ w.actor = u.actor /\ w.user = u.user /\ w.touched = u.touched
          /\ w.audited = u.audited /\ w.written = u.written /\ w.absent = u.absent
          /\ w.dead = u.dead /\ w.came = u.came /\ w.pc = "audit" /\ w.status = "401"
      BY <1>1, <3>1, <3>2 DEF RequestRecord
    <3> QED
      BY <2>2, <3>3
  <2> QED
    BY <2>1, <2>2 DEF Verifying
<1>3. Progress(w)'
  BY <1>1, <1>2 DEF Sound, Progress, Verifying, Admitted
<1>4. Scoped(w)'
  BY <1>1, <1>2 DEF Sound, Scoped
<1>5. Named(w)'
  BY <1>1, <1>2 DEF Sound, Named
<1>6. Refused(w)'
  BY <1>1, <1>2 DEF Sound, Refused, Progress, Verifying, Admitted
<1>7. Missed(w)'
  BY <1>2 DEF Missed, Verifying
<1> QED
  BY <1>2, <1>3, <1>4, <1>5, <1>6, <1>7 DEF Sound

\* A step that every request takes note of.
LEMMA AllRequests ==
  ASSUME RequestsInv, DOMAIN req' = Requests, req' = [q \in DOMAIN req' |-> req'[q]],
         \A q \in Requests : \A v \in RequestRecord :
            v = req[q] /\ Sound(v) => \E w \in RequestRecord : w = req'[q] /\ Sound(w)'
  PROVE  RequestsInv'
<1>1. \A q \in Requests : \E w \in RequestRecord : w = req'[q] /\ Sound(w)'
  BY DEF RequestsInv
<1>2. req' \in [Requests -> RequestRecord]
  <2>1. \A q \in Requests : req'[q] \in RequestRecord
    BY <1>1, Zenon
  <2> QED
    BY <2>1
<1> QED
  BY <1>1, <1>2 DEF RequestsInv

\* register_token.
LEMMA RegisterNext ==
  ASSUME ApiInv, NEW tok \in Tokens, NEW u \in Users, Register(tok, u)
  PROVE  ApiInv'
<1>1. Ordered(tokens, uses) /\ now \in 0..Now
  BY DEF ApiInv, StoreInv
<1>2. PICK e \in TokenRecord : e = [tok |-> tok, at |-> now, user |-> u]
  BY <1>1 DEF TokenRecord
<1>3. e.tok = tok
  BY <1>2
<1>4. PICK A, B : A = Without(tok) /\ B = Unused(tok)
  OBVIOUS
<1>5. /\ Ordered(A, B) /\ \A i \in DOMAIN A : A[i].tok # tok
      /\ \A i \in DOMAIN B : B[i] # tok
      /\ \A j \in DOMAIN A : \E i \in DOMAIN tokens : A[j] = tokens[i]
  BY <1>1, <1>4, DropOrdered
<1>6. PICK X, Y : X = Append(A, e) /\ Y = Append(B, tok)
  OBVIOUS
<1>7. Ordered(X, Y) /\ \A j \in DOMAIN X : X[j] = e \/ \E i \in DOMAIN A : X[j] = A[i]
  BY <1>3, <1>5, <1>6, AppendOrdered
<1>8. tokens' = Evict(X) /\ uses' = Y
  BY <1>2, <1>4, <1>6 DEF Register
<1>9. /\ Ordered(tokens', uses') /\ Len(tokens') <= MaxTokens
      /\ \A j \in DOMAIN tokens' : \E i \in DOMAIN X : tokens'[j] = X[i]
  BY <1>7, <1>8, EvictOrdered
<1>10. StoreInv'
  BY <1>1, <1>9 DEF StoreInv, Register
<1>11. Keeps(tok, tokens')
  BY <1>3, <1>5, <1>7, <1>9 DEF Keeps
<1>12. LaneInv'
  BY DEF Register, ApiInv, LaneInv, laneVars
<1>13. RequestsInv'
  <2>1. ASSUME NEW q \in Requests, NEW v \in RequestRecord, v = req[q], Sound(v)
        PROVE  \E w \in RequestRecord : w = req'[q] /\ Sound(w)'
    <3>1. PICK w : w = [v EXCEPT !.came = @ \/ v.tok = tok,
                                 !.gone = @ \/ ~\E i \in DOMAIN tokens' : tokens'[i].tok = v.tok]
      OBVIOUS
    <3>2. req'[q] = w
      BY <2>1, <3>1 DEF Register
    <3>3. UNCHANGED <<now, profile, handover>>
      BY DEF Register, laneVars
    <3>4. w \in RequestRecord /\ Sound(w)'
      BY <1>11, <2>1, <3>1, <3>3, CameSound, Zenon
    <3> QED
      BY <3>2, <3>4
  <2>2. DOMAIN req' = Requests /\ req' = [q \in DOMAIN req' |-> req'[q]]
    BY DEF Register
  <2> QED
    BY <2>1, <2>2, AllRequests DEF ApiInv
<1> QED
  BY <1>10, <1>12, <1>13 DEF ApiInv

\* The store after a token was removed.
LEMMA RemoveStore ==
  ASSUME StoreInv, NEW tok \in Tokens, tokens' = Without(tok), uses' = Unused(tok), now' = now
  PROVE  /\ StoreInv' /\ OnlyOld(tokens') /\ DropsOnly(tok, tokens')
         /\ \A j \in DOMAIN tokens' : tokens'[j].tok # tok
<1>1. /\ Ordered(tokens', uses') /\ Len(tokens') <= Len(tokens)
      /\ OnlyOld(tokens') /\ DropsOnly(tok, tokens') /\ \A j \in DOMAIN tokens' : tokens'[j].tok # tok
  BY DropOrdered DEF StoreInv, OnlyOld
<1>2. Len(tokens) \in Nat /\ Len(tokens') \in Nat /\ MaxTokens \in Nat
  BY <1>1, LenProperties, HttpApiAssumption DEF StoreInv, Ordered
<1>3. Len(tokens') <= MaxTokens
  BY <1>1, <1>2 DEF StoreInv
<1> QED
  BY <1>1, <1>3 DEF StoreInv

\* revoke_token.
LEMMA RevokeNext ==
  ASSUME ApiInv, NEW tok \in Tokens, Revoke(tok)
  PROVE  ApiInv'
<1>1. StoreInv' /\ OnlyOld(tokens') /\ DropsOnly(tok, tokens')
  BY RemoveStore DEF ApiInv, Revoke
<1>2. LaneInv'
  BY DEF Revoke, ApiInv, LaneInv, laneVars
<1>3. RequestsInv'
  <2>1. ASSUME NEW q \in Requests, NEW v \in RequestRecord, v = req[q], Sound(v)
        PROVE  \E w \in RequestRecord : w = req'[q] /\ Sound(w)'
    <3>1. PICK w : w = [v EXCEPT !.gone = @ \/ v.tok = tok]
      OBVIOUS
    <3>2. req'[q] = w
      BY <2>1, <3>1 DEF Revoke
    <3>3. UNCHANGED <<now, profile, handover>>
      BY DEF Revoke, laneVars
    <3> QED
      BY <1>1, <2>1, <3>1, <3>2, <3>3, GoneSound
  <2>2. DOMAIN req' = Requests /\ req' = [q \in DOMAIN req' |-> req'[q]]
    BY DEF Revoke
  <2> QED
    BY <2>1, <2>2, AllRequests DEF ApiInv
<1> QED
  BY <1>1, <1>2, <1>3 DEF ApiInv

\* verify_token deletes an expired token.
LEMMA ExpiredNext ==
  ASSUME ApiInv, NEW r \in Requests, Expired(r)
  PROVE  ApiInv'
<1>1. PICK x \in RequestRecord : x = req[r] /\ Sound(x)
  BY OwnRequest DEF ApiInv
<1>2. PICK tok \in Tokens : tok = x.tok
  BY <1>1 DEF Expired, Sound, Progress, Verifying
<1>3. x.pc \in Verifying
  BY <1>1 DEF Expired, Verifying
<1>4. /\ StoreInv' /\ OnlyOld(tokens') /\ DropsOnly(tok, tokens')
      /\ \A j \in DOMAIN tokens' : tokens'[j].tok # tok
  BY <1>1, <1>2, RemoveStore DEF ApiInv, Expired
<1>5. LaneInv'
  BY DEF Expired, ApiInv, LaneInv, laneVars
<1>6. UNCHANGED <<now, profile, handover>>
  BY DEF Expired, laneVars
<1>7. RequestsInv'
  <2>1. ASSUME NEW q \in Requests, NEW v \in RequestRecord, v = req[q], Sound(v)
        PROVE  \E w \in RequestRecord : w = req'[q] /\ Sound(w)'
    <3>1. PICK u : u = [v EXCEPT !.gone = @ \/ v.tok = tok]
      OBVIOUS
    <3>2. CASE q # r
      <4>1. req'[q] = u
        BY <1>1, <1>2, <2>1, <3>1, <3>2 DEF Expired
      <4> QED
        BY <1>4, <1>6, <2>1, <3>1, <4>1, GoneSound
    <3>3. CASE q = r
      <4>1. v = x /\ v.tok = tok /\ u = [v EXCEPT !.gone = @ \/ v.tok = v.tok]
        BY <1>1, <1>2, <2>1, <3>1, <3>3
      <4>2. PICK w : w = IF v.pc = "touch_context" THEN [u EXCEPT !.pc = "route"]
                         ELSE [u EXCEPT !.pc = "audit", !.status = "401"]
        OBVIOUS
      <4>3. Passed(r) = "route" <=> v.pc = "touch_context"
        BY <1>1, <1>3, <4>1 DEF Passed, Verifying
      <4>4. req'[q] = w
        BY <1>1, <1>2, <2>1, <3>1, <3>3, <4>1, <4>2, <4>3 DEF Expired
      <4> QED
        BY <1>3, <1>4, <1>6, <2>1, <4>1, <4>2, <4>4, ExpiredSound
    <3> QED
      BY <3>2, <3>3
  <2>2. DOMAIN req' = Requests /\ req' = [q \in DOMAIN req' |-> req'[q]]
    BY DEF Expired
  <2> QED
    BY <2>1, <2>2, AllRequests DEF ApiInv
<1> QED
  BY <1>4, <1>5, <1>7 DEF ApiInv

\* verify_token moves a fresh token to the end.
LEMMA UseNext ==
  ASSUME ApiInv, NEW r \in Requests, Use(r)
  PROVE  ApiInv'
<1>1. PICK v \in RequestRecord : v = req[r] /\ Sound(v)
  BY OwnRequest DEF ApiInv
<1>2. v.pc \in Verifying /\ Position(v.tok) # {} /\ ~v.old
  BY <1>1 DEF Use, Verifying
<1>3. PICK tok \in Tokens : tok = v.tok
  BY <1>1, <1>2 DEF Sound, Progress
<1>4. PICK k \in DOMAIN tokens : tokens[k].tok = tok
  BY <1>2, <1>3 DEF Position
<1>5. Ordered(tokens, uses) /\ Len(tokens) <= MaxTokens /\ now \in 0..Now
  BY DEF ApiInv, StoreInv
<1>6. Entry(tok) = tokens[k] /\ tokens[k] \in TokenRecord
  <2>1. tokens[k] \in TokenRecord
    BY <1>4, <1>5, LenProperties, ElementOfSeq DEF Ordered
  <2> QED
    BY <1>4, <1>5, <2>1, EntryIs
<1>7. PICK e \in TokenRecord : e = tokens[k] /\ e.tok = tok
  BY <1>4, <1>6
<1>8. PICK A, B : A = Without(tok) /\ B = Unused(tok)
  OBVIOUS
<1>9. /\ Ordered(A, B) /\ Len(A) = Len(tokens) - 1 /\ \A i \in DOMAIN A : A[i].tok # tok
      /\ \A i \in DOMAIN B : B[i] # tok
      /\ \A j \in DOMAIN A : \E i \in DOMAIN tokens : A[j] = tokens[i]
  BY <1>2, <1>3, <1>5, <1>8, DropOrdered
<1>10. DropsOnly(tok, A)
  BY <1>5, <1>8, DropOrdered
<1>11. PICK X, Y : X = Append(A, e) /\ Y = Append(B, tok)
  OBVIOUS
<1>12. /\ Ordered(X, Y) /\ Len(X) = Len(A) + 1
       /\ \A j \in DOMAIN X : X[j] = e \/ \E i \in DOMAIN A : X[j] = A[i]
       /\ \E j \in DOMAIN X : X[j] = e
       /\ \A i \in DOMAIN A : \E j \in DOMAIN X : X[j] = A[i]
  BY <1>7, <1>9, <1>11, AppendOrdered
<1>13. tokens' = X /\ uses' = Y
  BY <1>1, <1>3, <1>6, <1>7, <1>8, <1>11 DEF Use
<1>14. StoreInv'
  <2>1. Len(tokens) \in Nat
    BY <1>5, LenProperties DEF Ordered
  <2>2. Len(tokens') = Len(tokens)
    BY <1>9, <1>12, <1>13, <2>1
  <2> QED
    BY <1>5, <1>12, <1>13, <2>2 DEF StoreInv, Use
<1>15. OnlyOld(tokens')
  BY <1>4, <1>7, <1>9, <1>12, <1>13 DEF OnlyOld
<1>16. ASSUME NEW i \in DOMAIN tokens PROVE \E j \in DOMAIN tokens' : tokens'[j] = tokens[i]
  <2>1. CASE tokens[i].tok # tok
    <3>1. PICK l \in DOMAIN A : A[l] = tokens[i]
      BY <1>10, <2>1 DEF DropsOnly
    <3> QED
      BY <1>12, <1>13, <3>1
  <2>2. CASE tokens[i].tok = tok
    <3>1. tokens[i] = e
      BY <1>5, <1>6, <1>7, <2>2, EntryIs
    <3> QED
      BY <1>12, <1>13, <3>1
  <2> QED
    BY <2>1, <2>2
<1>17. UNCHANGED <<now, profile, handover>>
  BY DEF Use, laneVars
<1>18. \A x \in RequestRecord : Sound(x) => Sound(x)'
  BY <1>15, <1>16, <1>17, UseUnharmed
<1>19. PICK p : p = IF v.pc = "touch_context" THEN "route" ELSE "limit"
  OBVIOUS
<1>20. PICK w : w = [v EXCEPT !.pc = p, !.seen = Nobody, !.actor = IF p = "route" THEN v.seen ELSE @,
                              !.user = IF p = "route" THEN @ ELSE v.seen]
  OBVIOUS
<1>21. w \in RequestRecord /\ Sound(w)
  BY <1>1, <1>2, <1>19, <1>20, UseSound
<1>22. Set(r, w)
  <2>1. Passed(r) = p
    BY <1>1, <1>2, <1>19 DEF Passed, Verifying
  <2> QED
    BY <1>1, <1>20, <2>1 DEF Use
<1>23. RequestsInv'
  BY <1>18, <1>21, <1>22, OneRequest DEF ApiInv
<1>24. LaneInv'
  BY DEF Use, ApiInv, LaneInv, laneVars
<1> QED
  BY <1>14, <1>23, <1>24 DEF ApiInv

\* The steps of a request that leave the store, the clock and the profile alone.
QuietRequest(r) ==
  \/ Arrive(r) \/ Lookup(r) \/ Vanished(r) \/ Dispatch(r) \/ Limit(r) \/ CheckScope(r)
  \/ PayloadMismatch(r) \/ Handle(r) \/ EnqueueCommand(r) \/ RunCommand(r) \/ Audit(r)

\* What they leave alone.
LEMMA QuietFrame ==
  ASSUME NEW r \in Requests, QuietRequest(r)
  PROVE  UNCHANGED Surroundings /\ UNCHANGED uses
<1>1. CASE Arrive(r) \/ Lookup(r) \/ Vanished(r) \/ Dispatch(r)
  BY <1>1 DEF Arrive, Lookup, Vanished, Dispatch, Surroundings, tokenVars, laneVars
<1>2. CASE Limit(r) \/ CheckScope(r) \/ PayloadMismatch(r) \/ Handle(r) \/ Audit(r)
  BY <1>2 DEF Limit, CheckScope, PayloadMismatch, Handle, Audit, Surroundings, tokenVars, laneVars
<1>3. CASE EnqueueCommand(r) \/ RunCommand(r)
  BY <1>3 DEF EnqueueCommand, RunCommand, Surroundings, tokenVars
<1> QED
  BY <1>1, <1>2, <1>3 DEF QuietRequest

\* Every one of them leaves a sound request.
LEMMA QuietSound ==
  ASSUME ApiInv, NEW r \in Requests, QuietRequest(r)
  PROVE  \E w \in RequestRecord : Sound(w) /\ Set(r, w)
<1>1. PICK v \in RequestRecord : v = req[r] /\ Sound(v)
  BY OwnRequest DEF ApiInv
<1>2. ASSUME NEW s \in {"401", "403", "404", "422", "429"}, Answer(r, s),
             v.pc \notin {"audit", "done"}, s = "401" \/ (v.pc \in Admitted /\ v.kind.scope # "open")
      PROVE  \E w \in RequestRecord : Sound(w) /\ Set(r, w)
  <2>1. PICK w : w = [v EXCEPT !.pc = "audit", !.status = s]
    OBVIOUS
  <2>2. w \in RequestRecord /\ Sound(w)
    BY <1>1, <1>2, <2>1, AnswerSound
  <2> QED
    BY <1>1, <1>2, <2>1, <2>2 DEF Answer
<1>3. ASSUME NEW p \in RequestLabels, Set(r, [v EXCEPT !.pc = p]),
             \/ v.pc = "context" /\ p = "route" /\ Position(v.tok) = {}
             \/ v.pc = "route" /\ p = "act" /\ v.kind.scope = "open"
             \/ v.pc = "route" /\ p = "verify" /\ v.kind.scope # "open" /\ v.tok # Nobody
             \/ v.pc = "limit" /\ p = "check"
      PROVE  \E w \in RequestRecord : Sound(w) /\ Set(r, w)
  <2>1. PICK w : w = [v EXCEPT !.pc = p]
    OBVIOUS
  <2>2. w \in RequestRecord /\ Sound(w)
    BY <1>1, <1>3, <2>1, GoSound
  <2> QED
    BY <1>3, <2>1, <2>2
<1>4. ASSUME NEW p \in Users, Touches(r, p), v.pc = "act",
             v.kind.scope \in {"open", "any"} \/ p = v.user \/ handover \/ v.absent
      PROVE  \E w \in RequestRecord : Sound(w) /\ Set(r, w)
  <2>1. PICK end \in {"200", "raised"} :
          Set(r, [v EXCEPT !.pc = IF end = "200" THEN "audit" ELSE "done", !.status = end,
                           !.touched = IF v.kind.write THEN p ELSE Nobody])
    BY <1>1, <1>4 DEF Touches
  <2>2. PICK w : w = [v EXCEPT !.pc = IF end = "200" THEN "audit" ELSE "done", !.status = end,
                               !.touched = IF v.kind.write THEN p ELSE Nobody]
    OBVIOUS
  <2>3. w \in RequestRecord /\ Sound(w)
    BY <1>1, <1>4, <2>2, TouchSound
  <2> QED
    BY <2>1, <2>2, <2>3
<1>5. CASE Arrive(r)
  <2>1. PICK kind \in Kinds, tok \in Tokens \cup {Nobody} :
          Set(r, [v EXCEPT !.pc = IF tok = Nobody THEN "route" ELSE "context", !.kind = kind, !.tok = tok,
                           !.dead = tok # Nobody /\ (Position(tok) = {} \/ now - Entry(tok).at > Ttl)])
    BY <1>1, <1>5 DEF Arrive
  <2>2. PICK w : w = [v EXCEPT !.pc = IF tok = Nobody THEN "route" ELSE "context", !.kind = kind, !.tok = tok,
                               !.dead = tok # Nobody /\ (Position(tok) = {} \/ now - Entry(tok).at > Ttl)]
    OBVIOUS
  <2>3. v.pc = "new" /\ StoreInv
    BY <1>1, <1>5 DEF Arrive, ApiInv
  <2>4. w \in RequestRecord /\ Sound(w)
    BY <1>1, <2>2, <2>3, ArriveSound, Zenon
  <2> QED
    BY <2>1, <2>2, <2>4, Zenon
<1>6. CASE Lookup(r)
  <2>1. v.pc \in {"context", "verify"}
    BY <1>1, <1>6 DEF Lookup
  <2>2. CASE Position(v.tok) = {} /\ v.pc = "context"
    <3>1. Set(r, [v EXCEPT !.pc = "route"])
      BY <1>1, <1>6, <2>2 DEF Lookup
    <3> QED
      BY <1>3, <2>2, <3>1 DEF RequestLabels
  <2>3. CASE Position(v.tok) = {} /\ v.pc = "verify"
    <3>1. Answer(r, "401")
      BY <1>1, <1>6, <2>3 DEF Lookup
    <3> QED
      BY <1>2, <2>3, <3>1
  <2>4. CASE Position(v.tok) # {}
    <3>1. PICK w : w = [v EXCEPT !.pc = IF @ = "context" THEN "touch_context" ELSE "touch",
                                 !.seen = Entry(v.tok).user, !.old = now - Entry(v.tok).at > Ttl]
      OBVIOUS
    <3>2. Set(r, w)
      BY <1>1, <1>6, <2>4, <3>1 DEF Lookup
    <3>3. w \in RequestRecord /\ Sound(w)
      BY <1>1, <2>1, <2>4, <3>1, FoundSound DEF ApiInv
    <3> QED
      BY <3>2, <3>3
  <2> QED
    BY <2>1, <2>2, <2>3, <2>4
<1>7. CASE Vanished(r)
  <2>1. PICK w : w = [v EXCEPT !.pc = "done", !.status = "raised"]
    OBVIOUS
  <2>2. w \in RequestRecord /\ Sound(w)
    BY <1>1, <1>7, <2>1, RaiseSound DEF Vanished, Verifying
  <2> QED
    BY <1>1, <1>7, <2>1, <2>2 DEF Vanished, Raise
<1>8. CASE Dispatch(r)
  <2>1. v.pc = "route"
    BY <1>1, <1>8 DEF Dispatch
  <2>2. \/ v.kind.scope = "open" /\ Set(r, [v EXCEPT !.pc = "act"])
        \/ v.kind.scope # "open" /\ Answer(r, "401")
        \/ v.kind.scope # "open" /\ v.tok # Nobody /\ Set(r, [v EXCEPT !.pc = "verify"])
    BY <1>1, <1>8 DEF Dispatch
  <2> QED
    BY <1>2, <1>3, <2>1, <2>2 DEF RequestLabels
<1>9. CASE Limit(r)
  <2>1. v.pc = "limit" /\ v.kind.scope # "open"
    BY <1>1, <1>9 DEF Limit, Sound, Progress
  <2>2. Set(r, [v EXCEPT !.pc = "check"]) \/ Answer(r, "429")
    BY <1>1, <1>9 DEF Limit
  <2> QED
    BY <1>2, <1>3, <2>1, <2>2 DEF RequestLabels, Admitted
<1>10. CASE CheckScope(r)
  <2>1. v.pc = "check" /\ v.kind.scope # "open"
    BY <1>1, <1>10 DEF CheckScope, Sound, Progress
  <2>2. CASE Checked(r) \notin {Nobody, v.user}
    <3>1. Answer(r, "403")
      BY <1>1, <1>10, <2>2 DEF CheckScope
    <3> QED
      BY <1>2, <2>1, <3>1 DEF Admitted
  <2>3. CASE Checked(r) \in {Nobody, v.user}
    <3>1. PICK c \in {Nobody, v.user} : c = Checked(r)
      BY <2>3
    <3>2. PICK w : w = [v EXCEPT !.pc = "act", !.absent = c = Nobody]
      OBVIOUS
    <3>3. Set(r, w)
      BY <1>1, <1>10, <2>3, <3>1, <3>2 DEF CheckScope
    <3>4. (v.kind.scope = "run" => c = profile) /\ (v.kind.scope = "command" => c = command)
      BY <1>1, <3>1 DEF Checked
    <3>5. w \in RequestRecord /\ Sound(w)
      BY <1>1, <2>1, <3>1, <3>2, <3>4, CheckSound DEF ApiInv
    <3> QED
      BY <3>3, <3>5
  <2> QED
    BY <2>2, <2>3
<1>11. CASE PayloadMismatch(r)
  BY <1>1, <1>2, <1>11 DEF PayloadMismatch, Admitted
<1>12. CASE Handle(r)
  <2>1. PICK p \in Users : IF v.kind.scope = "own" /\ p # v.user THEN Answer(r, "403") ELSE Touches(r, p)
    BY <1>1, <1>12 DEF Handle
  <2>2. v.pc = "act" /\ v.kind.scope \in {"open", "any", "own"}
    BY <1>1, <1>12 DEF Handle
  <2> QED
    BY <1>2, <1>4, <2>1, <2>2 DEF Admitted
<1>13. CASE EnqueueCommand(r)
  <2>1. v.pc = "act" /\ v.kind.scope = "enqueue" /\ v.user \in Users
    BY <1>1, <1>13 DEF EnqueueCommand, Sound, Progress, Admitted
  <2>2. Touches(r, v.user) \/ Answer(r, "422")
    BY <1>1, <1>13 DEF EnqueueCommand
  <2> QED
    BY <1>2, <1>4, <2>1, <2>2 DEF Admitted
<1>14. CASE RunCommand(r)
  <2>1. v.pc = "act" /\ v.kind.scope \in {"run", "command"} /\ v.user \in Users
    BY <1>1, <1>14 DEF RunCommand, Sound, Progress, Admitted
  <2>2. CASE command = Nobody
    <3>1. Answer(r, "404")
      BY <1>14, <2>2 DEF RunCommand
    <3> QED
      BY <1>2, <2>1, <3>1 DEF Admitted
  <2>3. CASE command # Nobody
    <3>1. Touches(r, command) /\ command \in Users
      BY <1>14, <2>3 DEF RunCommand, ApiInv, LaneInv, Owners
    <3>2. command = v.user \/ handover \/ v.absent
      BY <1>1, <2>1, <2>3 DEF Sound, Scoped, ApiInv, LaneInv
    <3> QED
      BY <1>4, <2>1, <3>1, <3>2
  <2> QED
    BY <2>2, <2>3
<1>15. CASE Audit(r)
  <2>1. PICK stored \in BOOLEAN :
          Set(r, [v EXCEPT !.pc = "done", !.written = stored /\ v.kind.write,
                           !.audited = IF stored THEN v.actor ELSE Nobody,
                           !.status = IF ~stored /\ v.kind.write /\ @ = "200" THEN "500" ELSE @])
    BY <1>1, <1>15 DEF Audit, ShouldAudit, EventActor, WriterStores
  <2>2. PICK w : w = [v EXCEPT !.pc = "done", !.written = stored /\ v.kind.write,
                               !.audited = IF stored THEN v.actor ELSE Nobody,
                               !.status = IF ~stored /\ v.kind.write /\ @ = "200" THEN "500" ELSE @]
    OBVIOUS
  <2>3. v.pc = "audit"
    BY <1>1, <1>15 DEF Audit
  <2>4. w \in RequestRecord /\ Sound(w)
    BY <1>1, <2>2, <2>3, AuditSound, Zenon
  <2> QED
    BY <2>1, <2>2, <2>4, Zenon
<1> QED
  BY <1>5, <1>6, <1>7, <1>8, <1>9, <1>10, <1>11, <1>12, <1>13, <1>14, <1>15 DEF QuietRequest

\* They keep the lane's records in order.
LEMMA QuietLane ==
  ASSUME ApiInv, NEW r \in Requests, QuietRequest(r)
  PROVE  LaneInv'
<1>1. PICK v \in RequestRecord : v = req[r] /\ Sound(v)
  BY OwnRequest DEF ApiInv
<1>2. CASE Arrive(r) \/ Lookup(r) \/ Vanished(r) \/ Dispatch(r)
  BY <1>2 DEF Arrive, Lookup, Vanished, Dispatch, laneVars, ApiInv, LaneInv
<1>3. CASE CheckScope(r) \/ PayloadMismatch(r) \/ Handle(r) \/ Audit(r)
  BY <1>3 DEF CheckScope, PayloadMismatch, Handle, Audit, laneVars, ApiInv, LaneInv
<1>4. CASE Limit(r)
  <2>1. v.user \in Users
    BY <1>1, <1>4 DEF Limit, Sound, Progress, Admitted
  <2>2. granted' \in [Users -> 0..Allowance]
    BY <1>1, <1>4, <2>1, HttpApiAssumption DEF Limit, ApiInv, LaneInv
  <2> QED
    BY <1>4, <2>2 DEF Limit, laneVars, ApiInv, LaneInv
<1>5. CASE EnqueueCommand(r)
  <2>1. v.user \in Users
    BY <1>1, <1>5 DEF EnqueueCommand, Sound, Progress, Admitted
  <2> QED
    BY <1>1, <1>5, <2>1 DEF EnqueueCommand, ApiInv, LaneInv, Owners
<1>6. CASE RunCommand(r)
  BY <1>6 DEF RunCommand, ApiInv, LaneInv, Owners
<1> QED
  BY <1>2, <1>3, <1>4, <1>5, <1>6 DEF QuietRequest

\* A quiet step keeps the invariant.
LEMMA QuietNext ==
  ASSUME ApiInv, NEW r \in Requests, QuietRequest(r)
  PROVE  ApiInv'
<1>1. UNCHANGED Surroundings /\ UNCHANGED uses
  BY QuietFrame
<1>2. StoreInv'
  BY <1>1 DEF ApiInv, StoreInv, Surroundings, Ordered
<1>3. RequestsInv'
  BY <1>1, QuietSound, QuietStep DEF ApiInv
<1> QED
  BY <1>2, <1>3, QuietLane DEF ApiInv

\* register_profile overwrites whatever profile has the id.
LEMMA RegisterProfileNext ==
  ASSUME ApiInv, NEW r \in Requests, RegisterProfile(r)
  PROVE  ApiInv'
<1>1. PICK v \in RequestRecord : v = req[r] /\ Sound(v)
  BY OwnRequest DEF ApiInv
<1>2. v.pc = "act" /\ v.user \in Users
  BY <1>1 DEF RegisterProfile, Sound, Progress, Admitted
<1>3. /\ profile' = v.user /\ handover' = (handover \/ profile \notin {Nobody, v.user})
      /\ UNCHANGED <<tokens, uses, now, granted, command>>
  BY <1>1 DEF RegisterProfile, tokenVars
<1>4. StoreInv'
  BY <1>3 DEF ApiInv, StoreInv, Ordered
<1>5. LaneInv'
  BY <1>2, <1>3 DEF ApiInv, LaneInv, Owners
<1>6. \A x \in RequestRecord : Sound(x) => Sound(x)'
  BY <1>2, <1>3, ProfileUnharmed
<1>7. PICK end \in {"200", "raised"} :
        Set(r, [v EXCEPT !.pc = IF end = "200" THEN "audit" ELSE "done", !.status = end,
                         !.touched = IF v.kind.write THEN v.user ELSE Nobody])
  BY <1>1 DEF RegisterProfile, Touches
<1>8. PICK w : w = [v EXCEPT !.pc = IF end = "200" THEN "audit" ELSE "done", !.status = end,
                             !.touched = IF v.kind.write THEN v.user ELSE Nobody]
  OBVIOUS
<1>9. w \in RequestRecord /\ Sound(w)
  BY <1>1, <1>2, <1>8, TouchSound
<1>10. RequestsInv'
  BY <1>6, <1>7, <1>8, <1>9, OneRequest DEF ApiInv
<1> QED
  BY <1>4, <1>5, <1>10 DEF ApiInv

\* A step that no request takes keeps it too.
LEMMA IdleNext ==
  ASSUME ApiInv, Later \/ NewWindow \/ UNCHANGED apiVars
  PROVE  ApiInv'
<1>1. /\ UNCHANGED <<tokens, uses, req, profile, command, handover>> /\ now' \in {now, now + 1}
      /\ now' \in 0..Now /\ granted' \in [Users -> 0..Allowance]
  BY HttpApiAssumption DEF StoreInv, Later, NewWindow, apiVars, tokenVars, laneVars, ApiInv, LaneInv
<1>2. StoreInv'
  BY <1>1 DEF ApiInv, StoreInv, Ordered
<1>3. LaneInv'
  BY <1>1 DEF ApiInv, LaneInv
<1>4. \A x \in RequestRecord : Sound(x) => Sound(x)'
  <2>1. CASE now' = now
    BY <1>1, <2>1, SoundStays DEF Surroundings
  <2>2. CASE now' = now + 1
    BY <1>1, <2>2, LaterUnharmed DEF ApiInv
  <2> QED
    BY <1>1, <2>1, <2>2
<1>5. RequestsInv'
  BY <1>1, <1>4 DEF ApiInv, RequestsInv
<1> QED
  BY <1>2, <1>3, <1>5 DEF ApiInv

\* Every step of the API keeps it.
LEMMA ApiNextInv == ApiInv /\ [ApiNext]_apiVars => ApiInv'
<1> SUFFICES ASSUME ApiInv, [ApiNext]_apiVars PROVE ApiInv'
  OBVIOUS
<1>1. CASE Later \/ NewWindow \/ UNCHANGED apiVars
  BY <1>1, IdleNext
<1>2. CASE \E tok \in Tokens : Revoke(tok) \/ \E u \in Users : Register(tok, u)
  BY <1>2, RevokeNext, RegisterNext
<1>3. CASE \E r \in Requests : Use(r) \/ Expired(r) \/ RegisterProfile(r) \/ QuietRequest(r)
  BY <1>3, UseNext, ExpiredNext, RegisterProfileNext, QuietNext
<1> QED
  BY <1>1, <1>2, <1>3 DEF ApiNext, QuietRequest

\* It holds at the start.
LEMMA ApiStartInv == ApiStart => ApiInv
<1> SUFFICES ASSUME ApiStart PROVE ApiInv
  OBVIOUS
<1>1. PICK start \in Seq([tok : Tokens, at : {0}, user : Users]), owner \in Owners, queued \in Owners :
        /\ Len(start) <= MaxTokens /\ \A i, j \in DOMAIN start : start[i].tok = start[j].tok => i = j
        /\ queued \in {Nobody, owner}
        /\ ApiInit(start, owner, queued)
  BY DEF ApiStart, Owners
<1>2. PICK n \in Nat : n = Len(start) /\ DOMAIN start = 1..n
  BY LenProperties
<1>3. \A i \in 1..n : start[i] \in TokenRecord /\ start[i].tok \in Tokens
  <2>1. \A i \in 1..n : start[i] \in [tok : Tokens, at : {0}, user : Users]
    BY <1>2, ElementOfSeq
  <2> QED
    BY <2>1, HttpApiAssumption DEF TokenRecord
<1>4. tokens = start /\ uses = [i \in 1..n |-> start[i].tok] /\ now = 0
  BY <1>1, <1>2 DEF ApiInit
<1>5. start \in Seq(TokenRecord) /\ uses \in Seq(Tokens) /\ Len(uses) = n
  <2>1. start \in [1..n -> TokenRecord] /\ uses \in [1..n -> Tokens]
    BY <1>1, <1>2, <1>3, <1>4, LenProperties
  <2> QED
    BY <1>2, <2>1
<1>6. Ordered(tokens, uses)
  <2>1. Distinct(n, start)
    BY <1>1, <1>2 DEF Distinct
  <2>2. DistinctKeys(n, uses)
    BY <1>4, <2>1 DEF Distinct, DistinctKeys
  <2>3. Aligned(n, n, start, uses)
    <3>1. \A i \in 1..n : (n - n) + i = i
      OBVIOUS
    <3>2. \A i \in 1..n : start[i].tok = uses[i]
      BY <1>4
    <3>3. n <= n
      OBVIOUS
    <3> QED
      BY <3>1, <3>2, <3>3 DEF Aligned
  <2> QED
    BY <1>2, <1>4, <1>5, <2>1, <2>2, <2>3 DEF Ordered
<1>7. StoreInv
  BY <1>1, <1>4, <1>6, HttpApiAssumption DEF StoreInv
<1>8. LaneInv
  <2>1. 0 \in 0..Allowance /\ granted = [u \in Users |-> 0]
    BY <1>1, HttpApiAssumption DEF ApiInit
  <2>2. granted \in [Users -> 0..Allowance]
    BY <2>1
  <2> QED
    BY <1>1, <2>2 DEF ApiInit, LaneInv
<1>9. PICK v : v = NewRequest
  OBVIOUS
<1>10. v \in RequestRecord
  BY <1>9 DEF NewRequest, RequestRecord, RequestLabels, Scopes, Owners, Statuses
<1>11. /\ v.pc = "new" /\ v.tok = Nobody /\ v.actor = Nobody /\ v.user = Nobody /\ v.status = "none"
       /\ v.touched = Nobody /\ v.written = FALSE /\ v.dead = FALSE
  BY <1>9 DEF NewRequest
<1>12. Progress(v)
  BY <1>11 DEF Progress, Verifying, Admitted
<1>13. Named(v) /\ Refused(v) /\ Missed(v) /\ Scoped(v)
  BY <1>11 DEF Named, Refused, Missed, Scoped, Verifying
<1>14. RequestsInv
  <2>1. req = [r \in Requests |-> v]
    BY <1>1, <1>9 DEF ApiInit
  <2> QED
    BY <1>10, <1>12, <1>13, <2>1 DEF RequestsInv, Sound
<1> QED
  BY <1>7, <1>8, <1>14 DEF ApiInv

\* Every mutation that succeeded has an audit event, and the event names the
\* user whose context the route acted under (AuditMiddleware around the routes).
THEOREM AuditAlwaysComplete == ApiSpec => []AuditIsComplete
<1>1. ApiInv => AuditIsComplete
  <2> SUFFICES ASSUME ApiInv, NEW r \in Requests
               PROVE  /\ req[r].pc = "done" /\ req[r].kind.write /\ req[r].status = "200" => req[r].written
                      /\ req[r].written /\ req[r].user # Nobody /\ ~req[r].came => req[r].audited = req[r].user
    BY DEF AuditIsComplete, SuccessIsAudited, AuditNamesActor
  <2>1. PICK v \in RequestRecord : v = req[r] /\ Sound(v)
    BY OwnRequest DEF ApiInv
  <2> QED
    BY <2>1 DEF Sound, Progress, Named
<1> QED
  BY <1>1, ApiStartInv, ApiNextInv, PTL DEF ApiSpec

\* A request is served for a token that is valid while it runs and touches its
\* own project's records, and the store evicts the token unused for longest
\* (AuthTokenService and the scope checks of fastapi_app.py).
THEOREM AccessAlwaysCurrent == ApiSpec => []AccessIsCurrent
<1>1. ApiInv => TouchesOwnProject /\ DeadTokenIsRefused /\ VanishedWasRemoved
  <2> SUFFICES ASSUME ApiInv, NEW r \in Requests
               PROVE  /\ req[r].touched \notin {Nobody, req[r].user}
                           => req[r].kind.scope \in {"open", "any"} \/ handover \/ req[r].absent
                      /\ req[r].dead /\ ~req[r].came /\ req[r].kind.scope # "open"
                           => req[r].touched = Nobody /\ req[r].status \in {"none", "401", "raised"}
                      /\ req[r].pc = "done" /\ req[r].status = "raised" /\ req[r].user = Nobody
                         /\ req[r].kind.scope # "open" => req[r].gone
    BY DEF TouchesOwnProject, DeadTokenIsRefused, VanishedWasRemoved
  <2>1. PICK v \in RequestRecord : v = req[r] /\ Sound(v)
    BY OwnRequest DEF ApiInv
  <2> QED
    BY <2>1 DEF Sound, Progress, Refused, Scoped
<1>2. ApiInv => KeepsRecentTokens
  <2> SUFFICES ASSUME ApiInv PROVE KeepsRecentTokens
    OBVIOUS
  <2>1. PICK n \in Nat, m \in Nat : n = Len(tokens) /\ m = Len(uses) /\ n <= MaxTokens
    BY LenProperties DEF ApiInv, StoreInv, Ordered
  <2>2. uses \in Seq(Tokens) /\ DOMAIN tokens = 1..n /\ Aligned(n, m, tokens, uses)
    BY <2>1, LenProperties DEF ApiInv, StoreInv, Ordered
  <2>3. n <= m /\ \A i \in 1..n : tokens[i].tok = uses[(m - n) + i]
    BY <2>2 DEF Aligned
  <2>4. Latest(uses, n) = SubSeq(uses, (m - n) + 1, m)
    <3>1. ~(m > n) => (m - n) + 1 = 1
      BY <2>3
    <3>2. m > n => m - n + 1 = (m - n) + 1
      OBVIOUS
    <3> QED
      BY <2>1, <3>1, <3>2 DEF Latest
  <2>5. SubSeq(uses, (m - n) + 1, m) = [i \in 1..n |-> uses[(m - n) + i]]
    <3>1. PICK l \in Nat : l = m - n
      BY <2>3
    <3>2. m = l + n
      BY <3>1
    <3>3. \A i \in (l + 1)..m : uses[i] \in Tokens
      <4>1. \A i \in 1..m : uses[i] \in Tokens
        BY <2>1, <2>2, ElementOfSeq
      <4>2. \A i \in (l + 1)..m : i \in 1..m
        OBVIOUS
      <4> QED
        BY <4>1, <4>2
    <3>4. PICK X : X = SubSeq(uses, l + 1, m)
      OBVIOUS
    <3>5. /\ X \in Seq(Tokens) /\ Len(X) = IF l + 1 <= m THEN m - (l + 1) + 1 ELSE 0
          /\ \A i \in 1..(m - (l + 1) + 1) : X[i] = uses[(l + 1) + i - 1]
      BY <3>3, <3>4, SubSeqProperties
    <3>6. m - (l + 1) + 1 = n /\ (IF l + 1 <= m THEN n ELSE 0) = n /\ \A i \in 1..n : (l + 1) + i - 1 = l + i
      BY <3>2
    <3>7. Len(X) = n /\ \A i \in 1..n : X[i] = uses[l + i]
      <4>1. Len(X) = n /\ \A i \in 1..n : X[i] = uses[(l + 1) + i - 1]
        BY <3>5, <3>6
      <4> QED
        BY <3>6, <4>1, Zenon
    <3>8. X \in [1..n -> Tokens]
      BY <3>5, <3>7, LenProperties
    <3>9. X = [i \in 1..n |-> uses[l + i]]
      BY <3>7, <3>8
    <3> QED
      BY <3>1, <3>4, <3>9
  <2>6. [i \in 1..n |-> tokens[i].tok] = [i \in 1..n |-> uses[(m - n) + i]]
    BY <2>3
  <2> QED
    BY <2>1, <2>2, <2>4, <2>5, <2>6 DEF KeepsRecentTokens
<1>3. ApiInv => AccessIsCurrent
  BY <1>1, <1>2 DEF AccessIsCurrent
<1> QED
  BY <1>3, ApiStartInv, ApiNextInv, PTL DEF ApiSpec

\* The calls at some of the labels.
At(L) == {c \in Callers : caller[c].pc \in L}
Busy == Labels \ {"idle"}
\* Every failure, every count and every call under way is one of the calls.
CallsInv ==
  /\ faults + popErrors + Cardinality(At(Busy)) <= calls
  /\ \A k \in WindowKeys : counter[k].n + Cardinality(At({"incr"})) <= calls
\* The list holds times that have come.
WindowPast == \A i \in DOMAIN window : window[i] <= clock

\* How a step of one call changes the number of calls at some labels.
LEMMA AtMoves ==
  ASSUME NEW L, NEW c \in Callers, \A d \in Callers : d # c => caller'[d] = caller[d]
  PROVE  \E x \in Nat, y \in Nat :
           /\ x = Cardinality(At(L)) /\ y = Cardinality(At(L)') /\ y <= x + 1
           /\ (caller[c].pc \in L \/ caller'[c].pc \notin L => y <= x)
           /\ (caller[c].pc \in L /\ caller'[c].pc \notin L => y + 1 <= x)
<1>1. IsFiniteSet(At(L)) /\ IsFiniteSet(At(L)')
  <2>1. At(L) \subseteq Callers /\ At(L)' \subseteq Callers
    BY DEF At
  <2> QED
    BY <2>1, FS_Subset, RateLimitsAssumption
<1>2. PICK X, Y : X = At(L) /\ Y = At(L)'
  OBVIOUS
<1>3. PICK x \in Nat, y \in Nat : x = Cardinality(X) /\ y = Cardinality(Y)
  BY <1>1, <1>2, FS_CardinalityType
<1>4. Y \subseteq X \cup {c}
  BY <1>2 DEF At
<1>5. y <= x + 1
  <2>1. IsFiniteSet(X \cup {c}) /\ Cardinality(X \cup {c}) \in {x, x + 1}
    BY <1>1, <1>2, <1>3, FS_AddElement
  <2>2. y <= Cardinality(X \cup {c})
    BY <1>3, <1>4, <2>1, FS_Subset
  <2> QED
    BY <1>3, <2>1, <2>2
<1>6. ASSUME caller[c].pc \in L \/ caller'[c].pc \notin L PROVE y <= x
  <2>1. Y \subseteq X
    BY <1>2, <1>6 DEF At
  <2> QED
    BY <1>1, <1>2, <1>3, <2>1, FS_Subset
<1>7. ASSUME caller[c].pc \in L, caller'[c].pc \notin L PROVE y + 1 <= x
  <2>1. Y \subseteq X \ {c} /\ c \in X
    BY <1>2, <1>7 DEF At
  <2>2. IsFiniteSet(X \ {c}) /\ Cardinality(X \ {c}) = x - 1
    BY <1>1, <1>2, <1>3, <2>1, FS_RemoveElement
  <2>3. y <= x - 1
    BY <1>3, <2>1, <2>2, FS_Subset
  <2> QED
    BY <1>3, <2>3
<1> QED
  BY <1>2, <1>3, <1>5, <1>6, <1>7

\* The steps of a call keep the account.
LEMMA CallsNext ==
  ASSUME LimitTyped, OwnSteps, CallsInv, LimitNext
  PROVE  CallsInv'
<1>1. /\ calls \in Nat /\ faults \in Nat /\ popErrors \in Nat
      /\ counter \in [WindowKeys -> [n : Nat, exp : Nat]] /\ caller \in [Callers -> CallerRecord]
  BY RateLimitsAssumption DEF LimitTyped
<1>2. PICK f \in Nat : f = faults + popErrors
  BY <1>1
<1>3. CASE Tick
  <2>1. UNCHANGED <<caller, calls, faults, popErrors>>
    BY <1>3 DEF Tick
  <2>2. PICK x \in Nat : x = Cardinality(At({"incr"}))
    <3>1. At({"incr"}) \subseteq Callers
      BY DEF At
    <3> QED
      BY <3>1, FS_Subset, FS_CardinalityType, RateLimitsAssumption
  <2>3. At({"incr"})' = At({"incr"}) /\ At(Busy)' = At(Busy)
    BY <2>1 DEF At
  <2>4. ASSUME NEW k \in WindowKeys PROVE counter'[k].n + x <= calls
    <3>1. counter'[k].n \in {0, counter[k].n}
      BY <1>3 DEF Tick
    <3>2. counter[k].n + x <= calls
      BY <2>2 DEF CallsInv
    <3> QED
      BY <1>1, <3>1, <3>2
  <2> QED
    BY <2>1, <2>2, <2>3, <2>4 DEF CallsInv
<1>4. ASSUME NEW c \in Callers, Allow(c) PROVE CallsInv'
  <2>1. UNCHANGED <<caller, counter, faults, popErrors>> /\ calls' = calls + 1
    BY <1>4 DEF Allow
  <2>2. At({"incr"})' = At({"incr"}) /\ At(Busy)' = At(Busy)
    BY <2>1 DEF At
  <2>3. At({"incr"}) \subseteq Callers /\ At(Busy) \subseteq Callers
    BY DEF At
  <2>4. Cardinality(At({"incr"})) \in Nat /\ Cardinality(At(Busy)) \in Nat
    BY <2>3, FS_Subset, FS_CardinalityType, RateLimitsAssumption
  <2>5. f + Cardinality(At(Busy)) <= calls + 1
    BY <1>1, <1>2, <2>4 DEF CallsInv
  <2>6. ASSUME NEW k \in WindowKeys PROVE counter[k].n + Cardinality(At({"incr"})) <= calls + 1
    BY <1>1, <2>4 DEF CallsInv
  <2> QED
    BY <1>2, <2>1, <2>2, <2>5, <2>6 DEF CallsInv
<1>5. ASSUME NEW c \in Callers, CallStep(c) PROVE CallsInv'
  <2>1. \A d \in Callers : d # c => caller'[d] = caller[d]
    BY <1>5, OtherCallers
  <2>2. PICK x \in Nat, y \in Nat :
           /\ x = Cardinality(At(Busy)) /\ y = Cardinality(At(Busy)') /\ y <= x + 1
           /\ (caller[c].pc \in Busy \/ caller'[c].pc \notin Busy => y <= x)
           /\ (caller[c].pc \in Busy /\ caller'[c].pc \notin Busy => y + 1 <= x)
    BY <2>1, AtMoves
  <2>3. PICK v \in Nat, w \in Nat :
           /\ v = Cardinality(At({"incr"})) /\ w = Cardinality(At({"incr"})') /\ w <= v + 1
           /\ (caller[c].pc \in {"incr"} \/ caller'[c].pc \notin {"incr"} => w <= v)
           /\ (caller[c].pc \in {"incr"} /\ caller'[c].pc \notin {"incr"} => w + 1 <= v)
    BY <2>1, AtMoves
  <2>4. f + x <= calls /\ \A k \in WindowKeys : counter[k].n \in Nat /\ counter[k].n + v <= calls
    BY <1>1, <1>2, <2>2, <2>3 DEF CallsInv
  <2>5. SUFFICES ASSUME TRUE PROVE /\ (faults + popErrors)' + y <= calls'
                                   /\ \A k \in WindowKeys : counter'[k].n + w <= calls'
    BY <2>2, <2>3 DEF CallsInv
  <2>6. CASE Enter(c)
    <3>1. calls' = calls + 1 /\ UNCHANGED <<counter, faults, popErrors>>
      BY <2>6 DEF Enter
    <3>2. f + y <= calls + 1
      BY <1>1, <2>2, <2>4
    <3>3. ASSUME NEW k \in WindowKeys PROVE counter[k].n + w <= calls + 1
      BY <1>1, <2>3, <2>4
    <3> QED
      BY <1>2, <3>1, <3>2, <3>3
  <2>7. CASE ~Enter(c)
    <3>1. caller[c].pc \in Busy /\ calls' = calls
      BY <1>5, <2>7 DEF CallStep, Trim, PopHead, CheckLength, AppendNow, Unreachable, Incr, Expire, Decide,
                        Busy, Labels, MemoryLabels, RedisLabels
    <3>2. \A p \in Labels : Goto(c, p) => caller'[c].pc = p
      BY <1>1 DEF Goto, CallerRecord
    <3>3. Return(c) => caller'[c].pc = "idle"
      BY <1>1 DEF Return, IdleCaller
    <3>4. CASE Trim(c) \/ CheckLength(c) \/ AppendNow(c) \/ Expire(c) \/ Decide(c)
      <4>1. UNCHANGED <<faults, popErrors>>
        BY <3>4 DEF Trim, CheckLength, AppendNow, Expire, Decide
      <4>2. caller'[c].pc # "incr"
        BY <3>2, <3>3, <3>4 DEF Trim, CheckLength, AppendNow, Expire, Decide, Labels, MemoryLabels, RedisLabels
      <4>3. \A k \in WindowKeys : counter'[k].n = counter[k].n
        <5>1. CASE Expire(c)
          <6>1. PICK k \in WindowKeys : k = Window(caller[c].now)
            BY CallWindow
          <6>2. counter' = [counter EXCEPT ![k].exp = IF counter[k].n = 0 THEN 0 ELSE clock + W]
            BY <5>1, <6>1 DEF Expire
          <6> QED
            BY <1>1, <6>2
        <5>2. CASE ~Expire(c)
          BY <3>4, <5>2 DEF Trim, CheckLength, AppendNow, Decide
        <5> QED
          BY <5>1, <5>2
      <4>4. f + y <= calls
        BY <1>1, <2>2, <2>4, <3>1
      <4>5. ASSUME NEW k \in WindowKeys PROVE counter[k].n + w <= calls
        BY <1>1, <2>3, <2>4, <4>2
      <4> QED
        BY <1>2, <3>1, <4>1, <4>3, <4>4, <4>5
    <3>5. CASE PopHead(c) \/ Unreachable(c)
      <4>1. /\ UNCHANGED counter /\ caller'[c].pc # "incr"
            /\ \/ (faults + popErrors)' = f + 1 /\ caller'[c].pc = "idle"
               \/ UNCHANGED <<faults, popErrors>>
        BY <1>1, <1>2, <3>2, <3>3, <3>5 DEF PopHead, Unreachable, Labels, MemoryLabels, RedisLabels
      <4>2. "idle" \notin Busy
        BY DEF Busy
      <4>3. (faults + popErrors)' + y <= calls
        BY <1>1, <1>2, <2>2, <2>4, <3>1, <4>1, <4>2
      <4>4. ASSUME NEW k \in WindowKeys PROVE counter[k].n + w <= calls
        BY <1>1, <2>3, <2>4, <4>1
      <4> QED
        BY <3>1, <4>1, <4>3, <4>4
    <3>6. CASE Incr(c)
      <4>1. PICK q \in WindowKeys : q = Window(caller[c].now)
        BY CallWindow
      <4>2. counter' = [counter EXCEPT ![q].n = counter[q].n + 1] /\ UNCHANGED <<faults, popErrors>>
        BY <3>6, <4>1 DEF Incr
      <4>3. \A k \in WindowKeys : counter'[k].n \in {counter[k].n, counter[k].n + 1}
        BY <1>1, <4>2
      <4>4. caller[c].pc = "incr" /\ caller'[c].pc # "incr"
        BY <1>1, <3>6 DEF Incr, CallerRecord
      <4>5. f + y <= calls
        BY <1>1, <2>2, <2>4, <3>1
      <4>6. ASSUME NEW k \in WindowKeys PROVE counter'[k].n + w <= calls
        BY <1>1, <2>3, <2>4, <4>3, <4>4
      <4> QED
        BY <1>2, <3>1, <4>2, <4>5, <4>6
    <3> QED
      BY <1>5, <2>7, <3>4, <3>5, <3>6 DEF CallStep
  <2> QED
    BY <2>6, <2>7
<1> QED
  BY <1>3, <1>4, <1>5 DEF LimitNext, CallStep

\* The list of times is never ahead of the clock.
LEMMA WindowPastNext ==
  ASSUME LimitTyped, OwnSteps, WindowPast, LimitNext
  PROVE  WindowPast'
<1>1. clock \in Nat /\ window \in Seq(Nat)
  BY RateLimitsAssumption DEF LimitTyped
<1>2. CASE Tick
  <2>1. clock' = clock + 1 /\ window' = window
    BY <1>2 DEF Tick
  <2>2. ASSUME NEW i \in DOMAIN window PROVE window[i] <= clock + 1
    <3>1. window[i] \in Nat /\ window[i] <= clock
      BY <1>1 DEF WindowPast
    <3> QED
      BY <1>1, <3>1
  <2> QED
    BY <2>1, <2>2 DEF WindowPast
<1>3. ASSUME window' = window, clock' = clock PROVE WindowPast'
  BY <1>3 DEF WindowPast
<1>4. ASSUME NEW c \in Callers, PopHead(c) PROVE WindowPast'
  <2>1. CASE window = <<>>
    BY <1>3, <1>4, <2>1 DEF PopHead
  <2>2. CASE window # <<>>
    <3>1. window' = Tail(window) /\ clock' = clock
      BY <1>4, <2>2 DEF PopHead
    <3>2. PICK n \in Nat : n = Len(window) /\ DOMAIN window = 1..n
      BY <1>1, LenProperties
    <3>3. Len(window') = n - 1 /\ window' \in Seq(Nat) /\ \A i \in 1..(n - 1) : window'[i] = window[i + 1]
      BY <1>1, <2>2, <3>1, <3>2, HeadTailProperties
    <3>4. \A i \in 1..(n - 1) : i + 1 \in 1..n
      BY <3>2
    <3>5. DOMAIN window' = 1..(n - 1)
      BY <3>3, LenProperties
    <3> QED
      BY <3>1, <3>2, <3>3, <3>4, <3>5 DEF WindowPast
  <2> QED
    BY <2>1, <2>2
<1>5. ASSUME NEW c \in Callers, AppendNow(c) PROVE WindowPast'
  <2>1. window' = Append(window, caller[c].now) /\ clock' = clock
    BY <1>5 DEF AppendNow
  <2>2. PICK t \in Nat : t = caller[c].now /\ t <= clock
    BY DEF LimitTyped, CallerRecord, OwnSteps
  <2>3. PICK n \in Nat : n = Len(window) /\ DOMAIN window = 1..n
    BY <1>1, LenProperties
  <2>4. /\ Len(window') = n + 1 /\ window' \in Seq(Nat) /\ window'[n + 1] = t
        /\ \A i \in 1..n : window'[i] = window[i]
    BY <1>1, <2>1, <2>2, <2>3, AppendProperties
  <2>5. DOMAIN window' = 1..(n + 1) /\ \A i \in 1..(n + 1) : i \in 1..n \/ i = n + 1
    BY <2>4, LenProperties
  <2> QED
    BY <2>1, <2>2, <2>3, <2>4, <2>5 DEF WindowPast
<1> QED
  BY <1>2, <1>3, <1>4, <1>5 DEF LimitNext, Enter, Trim, CheckLength, Unreachable, Incr, Expire, Decide, Allow

\* The limiters, tokens and requests keep their types (AuthToken,
\* UserProjectContext, ApiResponse), with every bound: no more tokens in a bucket
\* than it holds, no more counts and failures than calls, no window beyond its
\* allowance.
THEOREM ApiTypeCorrect == LimitSpec /\ ApiSpec => []TypeOK
<1> DEFINE Inv == LimitInv /\ CallsInv /\ WindowPast
<1>1. LimitInit => Inv
  <2> SUFFICES ASSUME LimitInit PROVE CallsInv /\ WindowPast
    BY LimitInitInv
  <2>1. /\ \A c \in Callers : caller[c].pc = "idle"
        /\ \A k \in WindowKeys : counter[k].n = 0
        /\ faults = 0 /\ popErrors = 0 /\ calls = 0 /\ window = <<>>
    BY DEF LimitInit, IdleCaller
  <2>2. At(Busy) = {} /\ At({"incr"}) = {}
    BY <2>1 DEF At, Busy
  <2>3. Cardinality({}) = 0 /\ 0 + 0 + 0 <= 0 /\ 0 + 0 <= 0
    BY FS_EmptySet
  <2>4. CallsInv
    BY <2>1, <2>2, <2>3 DEF CallsInv
  <2>5. WindowPast
    BY <2>1 DEF WindowPast
  <2> QED
    BY <2>4, <2>5
<1>2. Inv /\ [LimitNext]_limitVars => Inv'
  <2> SUFFICES ASSUME Inv, [LimitNext]_limitVars PROVE CallsInv' /\ WindowPast'
    BY LimitNextInv
  <2>1. LimitTyped /\ OwnSteps
    BY DEF LimitInv
  <2>2. CASE LimitNext
    BY <2>1, <2>2, CallsNext, WindowPastNext
  <2>3. CASE UNCHANGED limitVars
    BY <2>3 DEF limitVars, CallsInv, WindowPast, At
  <2> QED
    BY <2>2, <2>3
<1>3. Inv => LimitTypeOK
  <2> SUFFICES ASSUME Inv PROVE LimitTypeOK
    OBVIOUS
  <2>1. /\ limiter \in Limiters /\ clock \in 0..MaxTime /\ calls \in 0..MaxCalls
        /\ window \in Seq(Nat) /\ grants \in Seq(Nat) /\ raced \in BOOLEAN
        /\ bucket.tokens \in 0..(MaxRequests * W) /\ bucket.at \in Nat /\ bucket.at <= clock
        /\ faults \in Nat /\ popErrors \in Nat
        /\ \A k \in WindowKeys : counter[k].n \in Nat
        /\ \A i \in DOMAIN grants : grants[i] <= clock
        /\ MaxTime \in Nat /\ MaxCalls \in Nat
    BY RateLimitsAssumption DEF LimitInv, LimitTyped, OwnSteps
  <2>2. ASSUME NEW s \in Seq(Nat), \A i \in DOMAIN s : s[i] <= clock PROVE s \in Seq(0..MaxTime)
    <3>1. Len(s) \in Nat /\ DOMAIN s = 1..Len(s) /\ s \in [1..Len(s) -> Nat]
      BY LenProperties
    <3>2. ASSUME NEW i \in 1..Len(s) PROVE s[i] \in 0..MaxTime
      <4>1. PICK x : x = s[i]
        OBVIOUS
      <4>2. x \in Nat
        BY <3>1, <4>1
      <4>3. i \in DOMAIN s
        BY <3>1
      <4>4. s[i] <= clock
        BY <2>2, <4>3
      <4>5. x <= clock
        BY <4>1, <4>4
      <4>6. x \in 0..MaxTime
        BY <2>1, <4>2, <4>5
      <4> QED
        BY <4>1, <4>6, Zenon
    <3>3. PICK n \in Nat : n = Len(s) /\ s \in [1..n -> Nat]
      BY <3>1
    <3>4. \A i \in 1..n : s[i] \in 0..MaxTime
      BY <3>2, <3>3
    <3>5. s \in [1..n -> 0..MaxTime]
      BY <3>3, <3>4
    <3>6. s \in UNION {[1..k -> 0..MaxTime] : k \in Nat}
      BY <3>3, <3>5, Zenon
    <3> QED
      BY <3>6, SeqDef, Zenon
  <2>3. window \in Seq(0..MaxTime) /\ grants \in Seq(0..MaxTime)
    BY <2>1, <2>2 DEF WindowPast
  <2>4. At({"incr"}) \subseteq Callers /\ At(Busy) \subseteq Callers
    BY DEF At
  <2>5. PICK x \in Nat, y \in Nat : x = Cardinality(At({"incr"})) /\ y = Cardinality(At(Busy))
    BY <2>4, FS_Subset, FS_CardinalityType, RateLimitsAssumption
  <2>6. faults + popErrors + y <= calls
    BY <2>5 DEF CallsInv
  <2>7. faults \in 0..MaxCalls /\ popErrors \in 0..MaxCalls
    BY <2>1, <2>5, <2>6
  <2>8. ASSUME NEW k \in WindowKeys PROVE counter[k].n \in 0..MaxCalls
    <3>1. counter[k].n + x <= calls
      BY <2>5 DEF CallsInv
    <3> QED
      BY <2>1, <2>5, <3>1
  <2>9. bucket.at \in 0..MaxTime
    BY <2>1
  <2> QED
    BY <2>1, <2>3, <2>7, <2>8, <2>9 DEF LimitTypeOK
<1>4. ApiInv => ApiTypeOK
  <2> SUFFICES ASSUME ApiInv PROVE ApiTypeOK
    OBVIOUS
  <2>1. \A i \in DOMAIN tokens : tokens[i] \in TokenRecord
    BY EntryIs DEF ApiInv, StoreInv
  <2>2. \A r \in Requests : req[r] \in RequestRecord
    BY DEF ApiInv, RequestsInv
  <2>3. \A r \in Requests : /\ req[r].pc \in RequestLabels /\ req[r].status \in Statuses
                            /\ req[r].user \in Owners /\ req[r].touched \in Owners
    BY <2>2 DEF RequestRecord
  <2> QED
    BY <2>1, <2>3 DEF ApiTypeOK, ApiInv, LaneInv, TokenRecord, RequestLabels, Statuses, Owners
<1>5. LimitTypeOK /\ ApiTypeOK => TypeOK
  BY DEF TypeOK
<1> HIDE DEF Inv
<1> QED
  BY <1>1, <1>2, <1>3, <1>4, <1>5, ApiStartInv, ApiNextInv, PTL DEF LimitSpec, ApiSpec
================================================================================
