----------------------------- MODULE RateLimiter -----------------------------
(***************************************************************************)
(* The per-IP rate limiter in front of the speed-test endpoints: allow     *)
(* (limiterFor, ReserveN, CancelAt), the eviction of idle buckets (gc) and *)
(* the Retry-After answer of the RateLimit middleware.                     *)
(*                                                                         *)
(* Requests are concurrent goroutines.  allow reads the clock first, then  *)
(* takes rl.mu for limiterFor only; the reservation and its cancellation   *)
(* are two more critical sections, of the rate.Limiter itself.  Time is    *)
(* counted in ticks and so are tokens: a token is worth Period ticks, the  *)
(* time its refill takes, so the rate is one unit per tick.                *)
(***************************************************************************)
EXTENDS Integers, Sequences, FiniteSets

CONSTANTS
    IPs,        \* client addresses
    Requests,   \* request goroutines, reused
    Burst,      \* ratePerMin: tokens in a full bucket
    Period,     \* ticks to refill one token (60 s / ratePerMin)
    IdleTTL,    \* ratelimitIdleTTL, in ticks
    Second,     \* ticks in a second, the unit of Retry-After
    MaxStall,   \* bound on the ticks a goroutine spends inside allow
    MaxClock,   \* bound on time
    MaxGen,     \* bound on the limiters created for one IP
    MaxDebt     \* bound on a bucket's debt when a request enters

Full == Burst * Period
Zero == -(Full + 1)   \* the zero time.Time: long before the start

(* The code's numbers: 15 minutes of idling against the 60 seconds in      *)
(* which every bucket is full again, and against goroutines descheduled    *)
(* for much less than half of that.                                        *)
ASSUME RateAssumption ==
    /\ Burst \in Nat \ {0} /\ Period \in Nat \ {0} /\ Second \in Nat \ {0}
    /\ MaxStall \in Nat /\ MaxClock \in Nat /\ MaxGen \in Nat \ {0}
    /\ MaxDebt \in Nat /\ IPs # {}
    /\ IdleTTL \in Nat /\ IdleTTL >= Full + MaxStall /\ IdleTTL >= 2 * MaxStall

VARIABLES
    clock,
    limiters,   \* rl.limiters: IP -> generation of its bucket, 0 if absent
    lastSeen,   \* rl.lastSeen: IP -> time, Zero if absent
    heap,       \* the buckets ever created, by IP and generation
    created,    \* generations used up, by IP
    pc,         \* progress of a request through allow
    req,        \* its locals: address, time.Now(), its bucket's generation,
                \* its reservation
    owed,       \* history: refill time still owed for the admissions so far
    promise,    \* history: when Retry-After told a lone request's client to return
    stalled     \* history: time has passed while a goroutine was inside allow

bookkeeping == <<limiters, lastSeen, created>>
vars == <<clock, limiters, lastSeen, heap, created, pc, req, owed, promise, stalled>>

-----------------------------------------------------------------------------
(* golang.org/x/time/rate.Limiter                                          *)

Least(a, b) == IF a < b THEN a ELSE b

NewLimiter == [tokens |-> Full, last |-> Zero, lastEvent |-> Zero]

\* Tokens at time t; a t before `last` earns nothing.
advance(b, t) == Least(Full, b.tokens + (t - Least(b.last, t)))

\* The bucket after ReserveN(t, 1); lastEvent is the reservation's timeToAct.
ReserveN(b, t) ==
    LET tokens == advance(b, t) - Period
    IN  [tokens |-> tokens, last |-> t,
         lastEvent |-> IF tokens < 0 THEN t - tokens ELSE t]

\* The bucket after CancelAt(t) of a reservation with timeToAct act: tokens
\* promised to reservations made later are not given back.
CancelAt(b, t, act) ==
    LET restore == Period - (b.lastEvent - act)
        prevEvent == act - Period
    IN  IF act < t \/ restore <= 0 THEN b
        ELSE [tokens |-> Least(Full, advance(b, t) + restore),
              last |-> t,
              lastEvent |-> IF act = b.lastEvent /\ prevEvent >= t
                              THEN prevEvent ELSE b.lastEvent]

-----------------------------------------------------------------------------
\* The locals of a goroutine that is not in allow.
NoRequest == [ip |-> CHOOSE a \in IPs : TRUE, now |-> 0, lim |-> 0, timeToAct |-> 0]

Init ==
    /\ clock = 0
    /\ limiters = [a \in IPs |-> 0]
    /\ lastSeen = [a \in IPs |-> Zero]
    /\ heap = [a \in IPs |-> [g \in 1 .. MaxGen |-> NewLimiter]]
    /\ created = [a \in IPs |-> 0]
    /\ pc = [q \in Requests |-> "idle"]
    /\ req = [q \in Requests |-> NoRequest]
    /\ owed = [a \in IPs |-> 0]
    /\ promise = [a \in IPs |-> Zero]
    /\ stalled = FALSE

InFlight(a) == {q \in Requests : pc[q] # "idle" /\ req[q].ip = a}

\* Time passes, but no goroutine is kept inside allow for more than MaxStall.
ClockTick ==
    /\ clock < MaxClock
    /\ \A q \in Requests : pc[q] # "idle" => clock - req[q].now < MaxStall
    /\ clock' = clock + 1
    /\ owed' = [a \in IPs |-> IF owed[a] > 0 THEN owed[a] - 1 ELSE 0]
    /\ stalled' = (stalled \/ \E q \in Requests : pc[q] # "idle")
    /\ UNCHANGED <<bookkeeping, heap, pc, req, promise>>

\* A request on a limited path enters allow and reads the clock.  Overlapping
\* rejections can put a bucket into debt without limit: MaxDebt cuts that off.
Enter(q, a) ==
    /\ pc[q] = "idle"
    /\ limiters[a] # 0 => heap[a][limiters[a]].tokens >= -MaxDebt
    /\ pc' = [pc EXCEPT ![q] = "lookup"]
    /\ req' = [req EXCEPT ![q].ip = a, ![q].now = clock]
    /\ UNCHANGED <<clock, bookkeeping, heap, owed, promise, stalled>>

\* Mutant: lastSeen is set when the bucket is created and not refreshed.
limiterForNoRefresh(q) ==
    LET a == req[q].ip IN
    /\ pc[q] = "lookup"
    /\ \/ /\ limiters[a] # 0
          /\ req' = [req EXCEPT ![q].lim = limiters[a]]
          /\ UNCHANGED <<limiters, heap, created, lastSeen>>
       \/ /\ limiters[a] = 0 /\ created[a] < MaxGen
          /\ created' = [created EXCEPT ![a] = @ + 1]
          /\ limiters' = [limiters EXCEPT ![a] = created'[a]]
          /\ heap' = [heap EXCEPT ![a][created'[a]] = NewLimiter]
          /\ req' = [req EXCEPT ![q].lim = created'[a]]
          /\ lastSeen' = [lastSeen EXCEPT ![a] = req[q].now]
    /\ pc' = [pc EXCEPT ![q] = "reserve"]
    /\ UNCHANGED <<clock, owed, promise, stalled>>

\* limiterFor, under rl.mu: refresh lastSeen, find or create the bucket.
limiterFor(q) ==
    LET a == req[q].ip IN
    /\ pc[q] = "lookup"
    /\ lastSeen' = [lastSeen EXCEPT ![a] = req[q].now]
    /\ \/ /\ limiters[a] # 0
          /\ req' = [req EXCEPT ![q].lim = limiters[a]]
          /\ UNCHANGED <<limiters, heap, created>>
       \/ /\ limiters[a] = 0 /\ created[a] < MaxGen
          /\ created' = [created EXCEPT ![a] = @ + 1]
          /\ limiters' = [limiters EXCEPT ![a] = created'[a]]
          /\ heap' = [heap EXCEPT ![a][created'[a]] = NewLimiter]
          /\ req' = [req EXCEPT ![q].lim = created'[a]]
    /\ pc' = [pc EXCEPT ![q] = "reserve"]
    /\ UNCHANGED <<clock, owed, promise, stalled>>

\* allow returns: its locals are gone.
Return(q) ==
    /\ pc' = [pc EXCEPT ![q] = "idle"]
    /\ req' = [req EXCEPT ![q] = NoRequest]

\* Mutant: the seconds are rounded down.
RetryAfterFloor(delay) == delay \div Second

\* RateLimit's Retry-After: whole seconds, rounded up, at least one.
RetryAfterSecs(delay) ==
    LET secs == (delay + Second - 1) \div Second
    IN  IF secs < 1 THEN 1 ELSE secs

\* ReserveN on the bucket found above: admitted when it may act at once, else
\* delayed (DelayFrom).  A delay given to a request that was alone is a promise
\* to its client, which any later request of that client uses up.
reserve(q) ==
    LET a == req[q].ip
        b == ReserveN(heap[a][req[q].lim], req[q].now)
        delay == b.lastEvent - req[q].now
    IN
    /\ pc[q] = "reserve"
    /\ heap' = [heap EXCEPT ![a][req[q].lim] = b]
    /\ \/ /\ b.lastEvent <= req[q].now
          /\ Return(q)
          /\ owed' = [owed EXCEPT ![a] = @ + Period]
          /\ promise' = [promise EXCEPT ![a] = Zero]
       \/ /\ b.lastEvent > req[q].now
          /\ pc' = [pc EXCEPT ![q] = "cancel"]
          /\ req' = [req EXCEPT ![q].timeToAct = b.lastEvent]
          /\ promise' = [promise EXCEPT ![a] =
               IF InFlight(a) = {q} THEN req[q].now + Second * RetryAfterSecs(delay) ELSE Zero]
          /\ UNCHANGED owed
    /\ UNCHANGED <<clock, bookkeeping, stalled>>

\* Denied: CancelAt, and 429 with Retry-After.
cancel(q) ==
    /\ pc[q] = "cancel"
    /\ heap' = [heap EXCEPT ![req[q].ip][req[q].lim] =
                  CancelAt(@, req[q].now, req[q].timeToAct)]
    /\ Return(q)
    /\ UNCHANGED <<clock, bookkeeping, owed, promise, stalled>>

\* Mutant: gc forgets the limiter but keeps its lastSeen entry.
gcHalf ==
    LET idle == {a \in IPs : lastSeen[a] # Zero /\ lastSeen[a] < clock - IdleTTL} IN
    /\ idle # {}
    /\ limiters' = [a \in IPs |-> IF a \in idle THEN 0 ELSE limiters[a]]
    /\ UNCHANGED <<clock, lastSeen, heap, created, pc, req, owed, promise, stalled>>

\* gc, under rl.mu: drop every bucket not seen since the cutoff.
gc ==
    LET idle == {a \in IPs : lastSeen[a] # Zero /\ lastSeen[a] < clock - IdleTTL} IN
    /\ idle # {}
    /\ lastSeen' = [a \in IPs |-> IF a \in idle THEN Zero ELSE lastSeen[a]]
    /\ limiters' = [a \in IPs |-> IF a \in idle THEN 0 ELSE limiters[a]]
    /\ UNCHANGED <<clock, heap, created, pc, req, owed, promise, stalled>>

allow(q) == limiterFor(q) \/ reserve(q) \/ cancel(q)

Next ==
    \/ ClockTick
    \/ \E q \in Requests, a \in IPs : Enter(q, a)
    \/ \E q \in Requests : allow(q)
    \/ gc

Spec == Init /\ [][Next]_vars

-----------------------------------------------------------------------------
Bucket == [tokens : Int, last : Int, lastEvent : Int]

\* The types of the limiter's state; in particular no bucket ever holds more
\* than its burst (rate.Limiter's cap), whatever the order of clock readings.
TypeOK ==
    /\ clock \in 0 .. MaxClock
    /\ limiters \in [IPs -> 0 .. MaxGen]
    /\ lastSeen \in [IPs -> {Zero} \cup 0 .. MaxClock]
    /\ heap \in [IPs -> [1 .. MaxGen -> Bucket]]
    /\ \A a \in IPs, g \in 1 .. MaxGen : heap[a][g].tokens <= Full
    /\ created \in [IPs -> 0 .. MaxGen]
    /\ pc \in [Requests -> {"idle", "lookup", "reserve", "cancel"}]
    /\ req \in [Requests -> [ip : IPs, now : 0 .. MaxClock, lim : 0 .. MaxGen,
                             timeToAct : Int]]
    /\ owed \in [IPs -> Nat]
    /\ promise \in [IPs -> Int]
    /\ stalled \in BOOLEAN

\* The two maps hold the same clients, so gc can always find and drop a bucket
\* and the limiter's memory does not grow with every client ever seen.
MapsAgree == \A a \in IPs : limiters[a] # 0 <=> lastSeen[a] # Zero

\* A request never draws from a bucket that gc has dropped, although it uses
\* the pointer after limiterFor has released rl.mu.
NoEvictedBucketInUse ==
    \A q \in Requests : pc[q] \in {"reserve", "cancel"} =>
        req[q].lim = limiters[req[q].ip]

\* A request does not stay longer than MaxStall.  A client is seen when its
\* bucket is looked up, at most MaxStall before any request that uses it.
SeenInv ==
    /\ \A q \in Requests : pc[q] # "idle" =>
         /\ req[q].now <= clock /\ clock - req[q].now <= MaxStall
         /\ ~stalled => req[q].now = clock
    /\ \A q \in Requests : pc[q] \in {"reserve", "cancel"} =>
         /\ limiters[req[q].ip] # 0
         /\ lastSeen[req[q].ip] >= req[q].now - MaxStall
         /\ ~stalled => lastSeen[req[q].ip] = clock
    /\ \A a \in IPs : lastSeen[a] <= clock

Denied(a) == {q \in Requests : pc[q] = "cancel" /\ req[q].ip = a}
Current(a) == heap[a][limiters[a]]

\* While nobody stalls, a client's bucket holds no more than its admissions leave
\* of it, now and after any denied request has handed its token back; those
\* were given times to act a token apart; and what a client owes is paid before
\* gc forgets it.
ShareOf(a) ==
    LET have == advance(Current(a), clock) IN
    /\ limiters[a] = 0 => owed[a] = 0
    /\ limiters[a] # 0 =>
         /\ Current(a).last <= clock
         /\ owed[a] = 0 \/ owed[a] + (clock - lastSeen[a]) <= Full
         /\ owed[a] + have <= Full
         /\ \A q \in Denied(a) :
              LET act == req[q].timeToAct IN
              /\ clock < act /\ act <= clock - have /\ act <= Current(a).lastEvent
              /\ owed[a] + Period - (act - clock) <= Full
              /\ \A p \in Denied(a) \ {q} :
                   act + Period <= req[p].timeToAct \/ req[p].timeToAct + Period <= act

\* A promise made to a client: its bucket has a token at that time, or will have
\* once the denied request has handed its own back.
PromiseOf(a) ==
    limiters[a] # 0 /\ promise[a] # Zero =>
        /\ Denied(a) = {} => advance(Current(a), promise[a]) >= Period
        /\ \A q \in Denied(a) :
             /\ Denied(a) = {q} /\ req[q].timeToAct <= promise[a]
             /\ req[q].timeToAct = clock - advance(Current(a), clock)
             /\ req[q].timeToAct = Current(a).lastEvent

AccountInv == ~stalled => \A a \in IPs : ShareOf(a) /\ PromiseOf(a)

\* The limiter's invariant, which every step keeps: however requests and gc are
\* interleaved, the maps agree, nobody uses a bucket that was dropped, no
\* bucket overflows and its accounts are right.
LimiterInv == TypeOK /\ MapsAgree /\ NoEvictedBucketInUse /\ SeenInv /\ AccountInv

\* "N requests per minute" in every window of time, across evictions and
\* rejections: what is admitted between any two moments is at most a full
\* bucket and the refill in between.  `owed` is the largest excess of the
\* admissions over the refill in any window that ends now.  A goroutine that is
\* descheduled inside allow turns its bucket's clock back and is left out.
WindowBound == ~stalled => \A a \in IPs : owed[a] <= Full

\* A client that makes one request at a time, was denied and waits as long as
\* Retry-After says, is let through, whatever debt earlier overlapping requests
\* have left in its bucket (no goroutine being descheduled).
RetryAfterHonest ==
    [][\A q \in Requests :
         LET kept == promise[req[q].ip] IN
         ~stalled /\ pc[q] = "reserve" /\ pc'[q] # "reserve" /\ kept # Zero /\ kept <= req[q].now
           => pc'[q] = "idle"]_vars

\* "Hand the token back so it does not count against the bucket"
\* (ratelimit_handler.go 152-153): once no request of a client is in flight,
\* denied requests have left no debt in its bucket.
DenialCostsNothing ==
    \A a \in IPs :
        limiters[a] # 0 /\ InFlight(a) = {} => heap[a][limiters[a]].tokens >= 0
=============================================================================
