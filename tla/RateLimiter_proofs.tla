------------------------- MODULE RateLimiter_proofs -------------------------
(***************************************************************************)
(* Proofs about RateLimiter for any addresses, goroutines, rate and burst. *)
(***************************************************************************)
EXTENDS RateLimiter, TLAPS

-----------------------------------------------------------------------------
(* The token bucket                                                        *)

\* A full bucket holds at least one token, and the zero time is before all others.
LEMMA Sizes ==
    /\ Period \in Nat /\ Period >= 1 /\ Full \in Nat /\ Full >= Period
    /\ Zero \in Int /\ Zero < 0
    /\ Second \in Nat /\ Second >= 1
<1>1. Burst \in Nat /\ Burst >= 1 /\ Period \in Nat /\ Period >= 1 BY RateAssumption
<1>2. Burst * Period \in Nat /\ Burst * Period >= Period BY <1>1
<1> QED BY <1>1, <1>2, RateAssumption DEF Full, Zero

\* The refill is capped, never negative and grows with time.
LEMMA Advance ==
    ASSUME NEW b \in Bucket, b.tokens <= Full, NEW t \in Int, NEW u \in Int, t <= u
    PROVE  /\ advance(b, t) \in Int /\ advance(b, t) <= Full /\ b.tokens <= advance(b, t)
           /\ advance(b, t) <= advance(b, u)
           /\ advance(b, u) <= advance(b, t) + (u - t)
BY Sizes DEF advance, Least, Bucket

\* A reservation takes one token and is given the time at which it is there.
LEMMA Reserve ==
    ASSUME NEW b \in Bucket, b.tokens <= Full, NEW t \in Int
    PROVE  /\ ReserveN(b, t) \in Bucket /\ ReserveN(b, t).last = t
           /\ ReserveN(b, t).tokens = advance(b, t) - Period
           /\ ReserveN(b, t).tokens <= Full
           /\ advance(ReserveN(b, t), t) = advance(b, t) - Period
           /\ advance(b, t) >= Period => ReserveN(b, t).lastEvent = t
           /\ advance(b, t) < Period => ReserveN(b, t).lastEvent = t + Period - advance(b, t)
<1>1. advance(b, t) \in Int /\ advance(b, t) <= Full BY Advance
<1>2. ReserveN(b, t) = [tokens |-> advance(b, t) - Period, last |-> t,
         lastEvent |-> IF advance(b, t) - Period < 0 THEN t - (advance(b, t) - Period) ELSE t]
  BY DEF ReserveN
<1> DEFINE c == ReserveN(b, t)
<1>3. c \in Bucket /\ c.last = t /\ c.tokens = advance(b, t) - Period /\ c.tokens <= Full
  BY <1>1, <1>2, Sizes DEF Bucket
<1>4. advance(c, t) = c.tokens
  <2> HIDE DEF c
  <2> QED BY <1>3, Sizes DEF advance, Least, Bucket
<1> QED BY <1>1, <1>2, <1>3, <1>4, Sizes

\* A cancellation in time gives back one token at most: what was promised to
\* later reservations stays taken.
LEMMA Cancel ==
    ASSUME NEW b \in Bucket, b.tokens <= Full, NEW t \in Int, NEW act \in Int
    PROVE  /\ CancelAt(b, t, act) \in Bucket /\ CancelAt(b, t, act).tokens <= Full
           /\ b.last <= t => CancelAt(b, t, act).last <= t
           /\ \/ CancelAt(b, t, act) = b
              \/ /\ CancelAt(b, t, act).last = t
                 /\ act > b.lastEvent - Period
                 /\ \/ advance(CancelAt(b, t, act), t) = Full
                       /\ Full <= advance(b, t) + Period - (b.lastEvent - act)
                    \/ advance(CancelAt(b, t, act), t) = advance(b, t) + Period - (b.lastEvent - act)
                 /\ \/ CancelAt(b, t, act).lastEvent = b.lastEvent
                    \/ /\ act = b.lastEvent
                       /\ CancelAt(b, t, act).lastEvent = act - Period
           /\ act >= t /\ act = b.lastEvent =>
                /\ CancelAt(b, t, act).last = t
                /\ CancelAt(b, t, act).tokens \in {Full, advance(b, t) + Period}
<1> DEFINE restore == Period - (b.lastEvent - act)
           v == Least(Full, advance(b, t) + restore)
           c == CancelAt(b, t, act)
<1>1. advance(b, t) \in Int /\ advance(b, t) <= Full /\ restore \in Int
  BY Advance, Sizes DEF Bucket
<1>2. v \in Int /\ v <= Full /\ ((v = Full /\ Full <= advance(b, t) + restore) \/ v = advance(b, t) + restore)
  BY <1>1, Sizes DEF Least
<1>3. CASE act < t \/ restore <= 0
  <2>1. c = b BY <1>3 DEF CancelAt
  <2> HIDE DEF c
  <2> QED BY <1>3, <2>1, Sizes DEF Bucket, c
<1>4. CASE ~(act < t \/ restore <= 0)
  <2>1. c = [tokens |-> v, last |-> t,
             lastEvent |-> IF act = b.lastEvent /\ act - Period >= t THEN act - Period ELSE b.lastEvent]
    BY <1>4 DEF CancelAt
  <2>2. c \in Bucket /\ c.last = t /\ c.tokens = v
          /\ (c.lastEvent = b.lastEvent \/ (act = b.lastEvent /\ c.lastEvent = act - Period))
    <3> HIDE DEF v, restore
    <3> QED BY <1>2, <2>1, Sizes DEF Bucket
  <2>3. advance(c, t) = v
    <3> HIDE DEF v, c, restore
    <3> QED BY <1>2, <2>2, Sizes DEF advance, Least, Bucket
  <2>4. act > b.lastEvent - Period BY <1>4, Sizes DEF Bucket
  <2> HIDE DEF v, c
  <2> QED BY <1>1, <1>2, <2>2, <2>3, <2>4, Sizes DEF c
<1> QED BY <1>3, <1>4

\* A bucket that is new is full at any time.
LEMMA NewIsFull ==
    /\ NewLimiter \in Bucket /\ NewLimiter.tokens = Full /\ NewLimiter.last = Zero
    /\ \A t \in Int : advance(NewLimiter, t) = Full
BY Sizes DEF NewLimiter, Bucket, advance, Least

\* Whole seconds, rounded up, cover the delay.
LEMMA RetryCovers ==
    ASSUME NEW d \in Nat
    PROVE  RetryAfterSecs(d) \in Nat /\ Second * RetryAfterSecs(d) >= d
<1>1. Second \in Nat /\ Second >= 1 BY Sizes
<1> DEFINE n == (d + Second - 1) \div Second
<1>2. n \in Nat /\ Second * n >= d
  <2> DEFINE x == d + Second - 1
  <2>1. x \in Nat BY <1>1
  <2>2. x \div Second \in Int /\ x \div Second >= 0
    <3> HIDE DEF x
    <3> QED BY <1>1, <2>1
  <2>3. Second * (x \div Second) >= x - Second + 1
    <3> HIDE DEF x
    <3> QED BY <1>1, <2>1
  <2> QED BY <1>1, <2>2, <2>3
<1>4. CASE n < 1
  <2>1. RetryAfterSecs(d) = 1 BY <1>4 DEF RetryAfterSecs
  <2>2. n = 0 BY <1>2, <1>4
  <2> QED BY <1>1, <1>2, <2>1, <2>2
<1>5. CASE ~(n < 1)
  <2>1. RetryAfterSecs(d) = n BY <1>5 DEF RetryAfterSecs
  <2> QED BY <1>2, <2>1
<1> QED BY <1>4, <1>5

-----------------------------------------------------------------------------
(* Steps                                                                   *)

\* A request that has its bucket holds the one the map holds.
LEMMA InUse ==
    ASSUME LimiterInv, NEW q \in Requests, pc[q] \in {"reserve", "cancel"}
    PROVE  /\ req[q].ip \in IPs /\ req[q].lim \in 1 .. MaxGen
           /\ req[q].lim = limiters[req[q].ip] /\ limiters[req[q].ip] # 0
           /\ req[q].now \in 0 .. MaxClock /\ req[q].timeToAct \in Int
           /\ heap[req[q].ip][req[q].lim] = Current(req[q].ip)
           /\ Current(req[q].ip) \in Bucket /\ Current(req[q].ip).tokens <= Full
<1>r. req[q] \in [ip : IPs, now : 0 .. MaxClock, lim : 0 .. MaxGen, timeToAct : Int]
  BY DEF LimiterInv, TypeOK
<1> DEFINE x == req[q].ip
           g == req[q].lim
<1>t. x \in IPs /\ g \in 0 .. MaxGen /\ req[q].now \in 0 .. MaxClock /\ req[q].timeToAct \in Int
  BY <1>r
<1>1. g = limiters[x] BY DEF LimiterInv, NoEvictedBucketInUse
<1>2. limiters[x] # 0 BY DEF LimiterInv, SeenInv
<1> HIDE DEF x, g
<1>3. g \in 1 .. MaxGen BY <1>t, <1>1, <1>2, RateAssumption
<1>4. heap \in [IPs -> [1 .. MaxGen -> Bucket]] /\ heap[x][g].tokens <= Full
  BY <1>t, <1>3 DEF LimiterInv, TypeOK
<1>5. heap[x][g] \in Bucket BY <1>t, <1>3, <1>4
<1>6. Current(x) = heap[x][g] BY <1>1 DEF Current
<1>7. /\ x \in IPs /\ g \in 1 .. MaxGen /\ g = limiters[x] /\ limiters[x] # 0
      /\ heap[x][g] = Current(x) /\ Current(x) \in Bucket /\ Current(x).tokens <= Full
  BY <1>t, <1>1, <1>2, <1>3, <1>4, <1>5, <1>6
<1> QED BY <1>t, <1>7 DEF x, g

\* The bucket of a client in the map is a bucket, and not too full.
LEMMA CurrentType ==
    ASSUME LimiterInv, NEW a \in IPs, limiters[a] # 0
    PROVE  Current(a) \in Bucket /\ Current(a).tokens <= Full /\ limiters[a] \in 1 .. MaxGen
<1>1. limiters[a] \in 1 .. MaxGen BY RateAssumption DEF LimiterInv, TypeOK
<1>2. heap \in [IPs -> [1 .. MaxGen -> Bucket]] /\ heap[a][limiters[a]].tokens <= Full
  BY <1>1 DEF LimiterInv, TypeOK
<1>3. heap[a][limiters[a]] \in Bucket BY <1>1, <1>2
<1> QED BY <1>1, <1>2, <1>3 DEF Current

\* A step that leaves a client's bucket, debts and denied requests alone leaves
\* its accounts in order; it may see the client again.
LEMMA Frame ==
    ASSUME LimiterInv, NEW a \in IPs, ShareOf(a), PromiseOf(a),
           clock' = clock, limiters'[a] = limiters[a],
           lastSeen'[a] \in Int, lastSeen[a] <= lastSeen'[a],
           limiters[a] # 0 => Current(a)' = Current(a),
           owed'[a] = owed[a], promise'[a] = promise[a], Denied(a)' = Denied(a),
           \A q \in Denied(a) : req'[q].timeToAct = req[q].timeToAct
    PROVE  ShareOf(a)' /\ PromiseOf(a)'
<1>1. owed[a] \in Nat /\ clock \in Nat /\ lastSeen[a] \in Int
  BY Sizes, RateAssumption DEF LimiterInv, TypeOK
<1>2. owed[a] = 0 \/ owed[a] + (clock - lastSeen[a]) <= Full
        => owed'[a] = 0 \/ owed'[a] + (clock' - lastSeen'[a]) <= Full
  BY <1>1, Sizes
<1>3. ShareOf(a)' BY <1>2 DEF ShareOf
<1>4. PromiseOf(a)' BY DEF PromiseOf
<1> QED BY <1>3, <1>4

\* One bucket of the heap is replaced by another.
LEMMA HeapPut ==
    ASSUME TypeOK, NEW x \in IPs, NEW g \in 1 .. MaxGen, NEW b \in Bucket, b.tokens <= Full,
           heap' = [heap EXCEPT ![x] = [heap[x] EXCEPT ![g] = b]]
    PROVE  /\ heap' \in [IPs -> [1 .. MaxGen -> Bucket]]
           /\ \A a \in IPs, i \in 1 .. MaxGen : heap'[a][i].tokens <= Full
           /\ heap'[x][g] = b /\ \A a \in IPs : a # x => heap'[a] = heap[a]
<1> DEFINE h == [heap[x] EXCEPT ![g] = b]
<1>1. heap \in [IPs -> [1 .. MaxGen -> Bucket]]
        /\ \A a \in IPs, i \in 1 .. MaxGen : heap[a][i].tokens <= Full
  BY DEF TypeOK
<1>2. h \in [1 .. MaxGen -> Bucket] /\ h[g] = b
        /\ \A i \in 1 .. MaxGen : i # g => h[i] = heap[x][i]
  BY <1>1
<1>3. heap' = [heap EXCEPT ![x] = h] OBVIOUS
<1> HIDE DEF h
<1>4. heap' \in [IPs -> [1 .. MaxGen -> Bucket]] /\ heap'[x] = h
        /\ \A a \in IPs : a # x => heap'[a] = heap[a]
  BY <1>1, <1>2, <1>3
<1>5. ASSUME NEW a \in IPs, NEW i \in 1 .. MaxGen PROVE heap'[a][i].tokens <= Full
  <2>1. CASE a # x BY <1>1, <1>4, <2>1
  <2>2. CASE a = x /\ i # g BY <1>1, <1>2, <1>4, <2>2
  <2>3. CASE a = x /\ i = g BY <1>2, <1>4, <2>3
  <2> QED BY <2>1, <2>2, <2>3
<1> QED BY <1>2, <1>4, <1>5

\* Time passes.
LEMMA ClockTickKeeps == ASSUME LimiterInv, ClockTick PROVE LimiterInv'
<1> USE RateAssumption DEF LimiterInv
<1>1. clock' = clock + 1 /\ clock' \in 0 .. MaxClock BY DEF ClockTick, TypeOK
<1>2. UNCHANGED <<limiters, lastSeen, created, heap, pc, req, promise>> BY DEF ClockTick, bookkeeping
<1>3. TypeOK'
  <2>1. stalled' \in BOOLEAN BY Zenon DEF ClockTick
  <2>2. owed' \in [IPs -> Nat] BY DEF ClockTick, TypeOK
  <2> QED BY <1>1, <1>2, <2>1, <2>2 DEF TypeOK
<1>4. MapsAgree' /\ NoEvictedBucketInUse' BY <1>2 DEF MapsAgree, NoEvictedBucketInUse
<1>5. ~stalled' => ~stalled /\ \A q \in Requests : pc[q] = "idle" BY DEF ClockTick
<1>6. SeenInv'
  <2>1. \A q \in Requests : pc[q] # "idle" => clock - req[q].now < MaxStall BY DEF ClockTick
  <2>2. \A a \in IPs : lastSeen[a] \in Int BY Sizes DEF TypeOK
  <2>3. clock \in Int /\ \A q \in Requests : req[q].now \in Int BY DEF TypeOK
  <2> QED BY <1>1, <1>2, <1>5, <2>1, <2>2, <2>3 DEF SeenInv
<1>7. ASSUME ~stalled', NEW a \in IPs PROVE ShareOf(a)' /\ PromiseOf(a)'
  <2>1. ShareOf(a) /\ PromiseOf(a) BY <1>5, <1>7 DEF AccountInv
  <2>2. Denied(a) = {} /\ Denied(a)' = {} BY <1>2, <1>5, <1>7 DEF Denied
  <2>3. owed[a] \in Nat /\ owed'[a] = IF owed[a] > 0 THEN owed[a] - 1 ELSE 0
    BY DEF ClockTick, TypeOK
  <2>4. Current(a)' = Current(a) BY <1>2 DEF Current
  <2>5. CASE limiters[a] = 0 BY <1>2, <2>1, <2>3, <2>5 DEF ShareOf, PromiseOf
  <2>6. CASE limiters[a] # 0
    <3> DEFINE b == Current(a)
               h == advance(b, clock)
               k == advance(b, clock + 1)
    <3>1. b \in Bucket /\ b.tokens <= Full BY <2>6, CurrentType
    <3>2. clock \in Int /\ lastSeen[a] \in Int BY Sizes DEF TypeOK
    <3>3. h \in Int /\ k \in Int /\ k <= Full /\ k <= h + 1
      <4> HIDE DEF b
      <4> QED BY <3>1, <3>2, Advance
    <3>4. b.last <= clock /\ owed[a] + h <= Full
            /\ (owed[a] = 0 \/ owed[a] + (clock - lastSeen[a]) <= Full)
      BY <2>1, <2>6 DEF ShareOf
    <3> HIDE DEF b, h, k
    <3>5. b.last <= clock + 1 BY <3>1, <3>2, <3>4 DEF Bucket
    <3>6. owed'[a] + k <= Full BY <2>3, <3>3, <3>4, Sizes
    <3>7. owed'[a] = 0 \/ owed'[a] + (clock' - lastSeen'[a]) <= Full
      BY <1>1, <1>2, <2>3, <3>2, <3>4, Sizes
    <3>8. ShareOf(a)'
      <4>1. advance(Current(a), clock)' = k BY <1>1, <2>4 DEF b, k
      <4>2. Current(a)'.last <= clock' BY <1>1, <2>4, <3>5 DEF b
      <4> QED BY <1>2, <2>2, <2>6, <3>6, <3>7, <4>1, <4>2 DEF ShareOf
    <3>9. PromiseOf(a)' BY <1>2, <2>1, <2>2, <2>4 DEF PromiseOf
    <3> QED BY <3>8, <3>9
  <2> QED BY <2>5, <2>6
<1> QED BY <1>3, <1>4, <1>6, <1>7 DEF AccountInv

\* A request enters allow.
LEMMA EnterKeeps ==
    ASSUME LimiterInv, NEW q \in Requests, NEW x \in IPs, Enter(q, x) PROVE LimiterInv'
<1> USE RateAssumption DEF LimiterInv
<1>1. UNCHANGED <<clock, limiters, lastSeen, created, heap, owed, promise, stalled>>
  BY DEF Enter, bookkeeping
<1>2. pc[q] = "idle" /\ pc' = [pc EXCEPT ![q] = "lookup"] BY DEF Enter
<1>3. req' = [req EXCEPT ![q] = [req[q] EXCEPT !.ip = x, !.now = clock]] BY DEF Enter
<1>4. TypeOK'
  <2>1. pc' \in [Requests -> {"idle", "lookup", "reserve", "cancel"}] BY <1>2 DEF TypeOK
  <2>2. req' \in [Requests -> [ip : IPs, now : 0 .. MaxClock, lim : 0 .. MaxGen, timeToAct : Int]]
    <3> DEFINE R == [ip : IPs, now : 0 .. MaxClock, lim : 0 .. MaxGen, timeToAct : Int]
               r == [req[q] EXCEPT !.ip = x, !.now = clock]
    <3>1. req \in [Requests -> R] /\ clock \in 0 .. MaxClock BY DEF TypeOK
    <3> HIDE DEF LimiterInv
    <3>2. r \in R BY <3>1
    <3> HIDE DEF R, r
    <3>3. req' = [req EXCEPT ![q] = r] BY <1>3 DEF r
    <3>4. req' \in [Requests -> R] BY <3>1, <3>2, <3>3
    <3> QED BY <3>4 DEF R
  <2>3. \A a \in IPs, g \in 1 .. MaxGen : heap'[a][g].tokens <= Full BY <1>1 DEF TypeOK
  <2>4. stalled' \in BOOLEAN BY <1>1, Zenon DEF TypeOK
  <2>5. /\ clock' \in 0 .. MaxClock /\ limiters' \in [IPs -> 0 .. MaxGen]
        /\ lastSeen' \in [IPs -> {Zero} \cup 0 .. MaxClock]
        /\ heap' \in [IPs -> [1 .. MaxGen -> Bucket]] /\ created' \in [IPs -> 0 .. MaxGen]
        /\ owed' \in [IPs -> Nat] /\ promise' \in [IPs -> Int]
    BY <1>1 DEF TypeOK
  <2> HIDE DEF LimiterInv
  <2> QED BY <2>1, <2>2, <2>3, <2>4, <2>5, Zenon DEF TypeOK
<1>5. MapsAgree' BY <1>1 DEF MapsAgree
<1>6. \A p \in Requests : p # q => pc'[p] = pc[p] /\ req'[p] = req[p] BY <1>2, <1>3 DEF TypeOK
<1>7. pc'[q] = "lookup" /\ req'[q].now = clock BY <1>2, <1>3 DEF TypeOK
<1>8. NoEvictedBucketInUse' BY <1>1, <1>6, <1>7 DEF NoEvictedBucketInUse
<1>9. SeenInv'
  <2>1. clock \in Int /\ clock - clock <= MaxStall /\ clock <= clock BY DEF TypeOK
  <2> QED BY <1>1, <1>6, <1>7, <2>1 DEF SeenInv
<1>10. ASSUME ~stalled', NEW a \in IPs PROVE ShareOf(a)' /\ PromiseOf(a)'
  <2>1. ShareOf(a) /\ PromiseOf(a) BY <1>1, <1>10 DEF AccountInv
  <2>2. Denied(a)' = Denied(a) /\ q \notin Denied(a) BY <1>2, <1>6, <1>7 DEF Denied
  <2>3. \A p \in Denied(a) : req'[p].timeToAct = req[p].timeToAct BY <1>6, <2>2 DEF Denied
  <2>4. Current(a)' = Current(a) BY <1>1 DEF Current
  <2>5. lastSeen'[a] \in Int /\ lastSeen[a] <= lastSeen'[a]
    <3>1. lastSeen[a] \in Int BY Sizes DEF TypeOK
    <3> QED BY <1>1, <3>1
  <2> HIDE DEF LimiterInv
  <2> QED BY <1>1, <2>1, <2>2, <2>3, <2>4, <2>5, Frame
<1> QED BY <1>4, <1>5, <1>8, <1>9, <1>10 DEF AccountInv

\* The lookup, in a map that has the client and in one that has not.
LEMMA limiterForKeeps == ASSUME LimiterInv, NEW q \in Requests, limiterFor(q) PROVE LimiterInv'
<1> USE RateAssumption DEF LimiterInv
<1> DEFINE x == req[q].ip
           t == req[q].now
<1>l. limiters \in [IPs -> 0 .. MaxGen] /\ lastSeen \in [IPs -> {Zero} \cup 0 .. MaxClock]
        /\ created \in [IPs -> 0 .. MaxGen]
  BY DEF TypeOK
<1>h. heap \in [IPs -> [1 .. MaxGen -> Bucket]]
        /\ \A a \in IPs, i \in 1 .. MaxGen : heap[a][i].tokens <= Full
  BY DEF TypeOK
<1>p. pc \in [Requests -> {"idle", "lookup", "reserve", "cancel"}]
        /\ req \in [Requests -> [ip : IPs, now : 0 .. MaxClock, lim : 0 .. MaxGen, timeToAct : Int]]
  BY DEF TypeOK
<1> HIDE DEF LimiterInv
<1>1. x \in IPs /\ t \in 0 .. MaxClock /\ pc[q] = "lookup" BY <1>p DEF limiterFor
<1>2. UNCHANGED <<clock, owed, promise, stalled>> /\ pc' = [pc EXCEPT ![q] = "reserve"]
        /\ lastSeen' = [lastSeen EXCEPT ![x] = t]
  BY DEF limiterFor
<1>3. PICK g \in 1 .. MaxGen :
        /\ limiters' = [limiters EXCEPT ![x] = g]
        /\ req' = [req EXCEPT ![q] = [req[q] EXCEPT !.lim = g]]
        /\ created' \in [IPs -> 0 .. MaxGen]
        /\ \/ limiters[x] = g /\ heap' = heap
           \/ limiters[x] = 0 /\ heap' = [heap EXCEPT ![x] = [heap[x] EXCEPT ![g] = NewLimiter]]
  <2>1. CASE limiters[x] # 0 /\ req' = [req EXCEPT ![q].lim = limiters[x]]
               /\ UNCHANGED <<limiters, heap, created>>
    <3>1. limiters[x] \in 1 .. MaxGen BY <1>l, <1>1, <2>1
    <3>2. limiters' = [limiters EXCEPT ![x] = limiters[x]] BY <1>l, <1>1, <2>1
    <3> QED BY <1>l, <1>1, <2>1, <3>1, <3>2
  <2>2. CASE /\ limiters[x] = 0 /\ created[x] < MaxGen
             /\ created' = [created EXCEPT ![x] = @ + 1]
             /\ limiters' = [limiters EXCEPT ![x] = created'[x]]
             /\ heap' = [heap EXCEPT ![x][created'[x]] = NewLimiter]
             /\ req' = [req EXCEPT ![q].lim = created'[x]]
    <3>1. created'[x] \in 1 .. MaxGen /\ created' \in [IPs -> 0 .. MaxGen]
      BY <1>l, <1>1, <2>2
    <3> QED BY <1>1, <2>2, <3>1
  <2> QED BY <2>1, <2>2 DEF limiterFor
<1> HIDE DEF x, t
<1>4. pc'[q] = "reserve" /\ req'[q].ip = x /\ req'[q].now = t /\ req'[q].lim = g
  BY <1>p, <1>2, <1>3 DEF x, t
<1>5. \A p \in Requests : p # q => pc'[p] = pc[p] /\ req'[p] = req[p] BY <1>p, <1>2, <1>3
<1>6. lastSeen'[x] = t /\ limiters'[x] = g /\ g # 0
        /\ \A a \in IPs : a # x => lastSeen'[a] = lastSeen[a] /\ limiters'[a] = limiters[a]
  BY <1>l, <1>1, <1>2, <1>3
<1>7. TypeOK'
  <2>1. limiters' \in [IPs -> 0 .. MaxGen] /\ lastSeen' \in [IPs -> {Zero} \cup 0 .. MaxClock]
    <3>1. g \in 0 .. MaxGen /\ t \in {Zero} \cup 0 .. MaxClock BY <1>1, <1>3
    <3> QED BY <1>l, <1>1, <1>2, <1>3, <3>1
  <2>2. heap' \in [IPs -> [1 .. MaxGen -> Bucket]]
          /\ \A a \in IPs, i \in 1 .. MaxGen : heap'[a][i].tokens <= Full
    <3>1. CASE heap' = heap BY <1>h, <3>1
    <3>2. CASE heap' = [heap EXCEPT ![x] = [heap[x] EXCEPT ![g] = NewLimiter]]
      <4>1. NewLimiter \in Bucket /\ NewLimiter.tokens <= Full BY NewIsFull, Sizes
      <4>2. TypeOK BY DEF LimiterInv
      <4> QED BY <1>1, <3>2, <4>1, <4>2, HeapPut
    <3> QED BY <1>3, <3>1, <3>2
  <2>4. pc' \in [Requests -> {"idle", "lookup", "reserve", "cancel"}] BY <1>p, <1>2
  <2>5. req' \in [Requests -> [ip : IPs, now : 0 .. MaxClock, lim : 0 .. MaxGen, timeToAct : Int]]
    BY <1>p, <1>3
  <2> QED BY <1>2, <1>3, <2>1, <2>2, <2>4, <2>5 DEF LimiterInv, TypeOK
<1>8. MapsAgree'
  <2>1. t # Zero BY <1>1, Sizes
  <2> QED BY <1>6, <2>1 DEF LimiterInv, MapsAgree
<1>9. \A p \in Requests : p # q /\ pc[p] \in {"reserve", "cancel"} /\ req[p].ip = x => limiters[x] = g
  BY <1>3 DEF LimiterInv, SeenInv
<1>10. NoEvictedBucketInUse'
  <2>1. \A p \in Requests : pc[p] \in {"reserve", "cancel"} => req[p].lim = limiters[req[p].ip]
    BY DEF LimiterInv, NoEvictedBucketInUse
  <2>2. \A p \in Requests : req[p].ip \in IPs BY <1>p
  <2> QED BY <1>4, <1>5, <1>6, <1>9, <2>1, <2>2 DEF NoEvictedBucketInUse
<1>11. t <= clock /\ clock - t <= MaxStall /\ (~stalled => t = clock) BY <1>1 DEF LimiterInv, SeenInv, t
<1>12. SeenInv'
  <2>1. t \in Int /\ clock \in Int /\ MaxStall \in Nat BY <1>1 DEF LimiterInv, TypeOK
  <2>2. t >= t - MaxStall BY <2>1
  <2>3. \A p \in Requests : pc[p] # "idle" => t >= req[p].now - MaxStall
    <3>1. \A p \in Requests : pc[p] # "idle" => req[p].now <= clock /\ req[p].now \in Int
      BY <1>p DEF LimiterInv, SeenInv
    <3> QED BY <1>11, <2>1, <3>1
  <2>4. SeenInv BY DEF LimiterInv
  <2>5. \A p \in Requests : req[p].ip \in IPs BY <1>p
  <2>6. \A p \in Requests : pc'[p] # "idle" =>
          req'[p].now <= clock /\ clock - req'[p].now <= MaxStall /\ (~stalled => req'[p].now = clock)
    BY <1>4, <1>5, <1>11, <2>4 DEF SeenInv
  <2>7. \A p \in Requests : pc'[p] \in {"reserve", "cancel"} =>
          /\ limiters'[req'[p].ip] # 0
          /\ lastSeen'[req'[p].ip] >= req'[p].now - MaxStall
          /\ ~stalled => lastSeen'[req'[p].ip] = clock
    <3> SUFFICES ASSUME NEW p \in Requests, pc'[p] \in {"reserve", "cancel"}
                 PROVE  /\ limiters'[req'[p].ip] # 0
                        /\ lastSeen'[req'[p].ip] >= req'[p].now - MaxStall
                        /\ ~stalled => lastSeen'[req'[p].ip] = clock
      OBVIOUS
    <3>1. CASE p = q BY <1>4, <1>6, <1>11, <2>2, <3>1
    <3>2. CASE p # q /\ req[p].ip = x BY <1>5, <1>6, <1>11, <2>3, <3>2
    <3>3. CASE p # q /\ req[p].ip # x BY <1>5, <1>6, <2>4, <2>5, <3>3 DEF SeenInv
    <3> QED BY <3>1, <3>2, <3>3
  <2>8. \A a \in IPs : lastSeen'[a] <= clock BY <1>6, <1>11, <2>4 DEF SeenInv
  <2> QED BY <1>2, <2>6, <2>7, <2>8 DEF SeenInv
<1>13. ASSUME ~stalled', NEW a \in IPs PROVE ShareOf(a)' /\ PromiseOf(a)'
  <2>1. ShareOf(a) /\ PromiseOf(a) BY <1>2, <1>13 DEF LimiterInv, AccountInv
  <2>2. Denied(a)' = Denied(a) /\ q \notin Denied(a)
    BY <1>1, <1>4, <1>5 DEF Denied
  <2>3. \A p \in Denied(a) : req'[p].timeToAct = req[p].timeToAct BY <1>5, <2>2 DEF Denied
  <2>4. lastSeen[a] \in Int /\ lastSeen'[a] \in Int
    <3>1. \A z \in {Zero} \cup 0 .. MaxClock : z \in Int BY Sizes
    <3> QED BY <1>l, <1>7, <3>1 DEF TypeOK
  <2>5. lastSeen[a] <= lastSeen'[a]
    <3>1. lastSeen[a] <= clock BY DEF LimiterInv, SeenInv
    <3> QED BY <1>2, <1>6, <1>11, <1>13, <2>4, <3>1
  <2>6. CASE a # x \/ limiters[x] = g
    <3>1. limiters'[a] = limiters[a] BY <1>6, <2>6
    <3>2. Current(a)' = Current(a) BY <1>h, <1>1, <1>3, <1>6, <2>6 DEF Current
    <3> QED BY <1>2, <2>1, <2>2, <2>3, <2>4, <2>5, <3>1, <3>2, Frame
  <2>7. CASE a = x /\ limiters[x] = 0
    <3>1. Current(a)' = NewLimiter
      <4>1. limiters'[x] = g /\ heap'[x] = [heap[x] EXCEPT ![g] = NewLimiter]
        BY <1>h, <1>1, <1>3, <1>6, <2>7
      <4>2. heap[x] \in [1 .. MaxGen -> Bucket] BY <1>h, <1>1
      <4>3. heap'[x][g] = NewLimiter BY <1>3, <4>1, <4>2
      <4> QED BY <2>7, <4>1, <4>3 DEF Current
    <3>2. Denied(a)' = {} BY <2>2, <2>7 DEF Denied, LimiterInv, SeenInv
    <3>3. owed'[a] = 0 BY <1>2, <2>1, <2>7 DEF ShareOf
    <3>4. clock' \in Int /\ promise'[a] \in Int /\ clock' >= 0 BY <1>7 DEF TypeOK
    <3>5. advance(Current(a)', clock') = Full /\ advance(Current(a)', promise'[a]) = Full
            /\ Current(a)'.last = Zero
      BY <3>1, <3>4, NewIsFull
    <3>6. 0 + Full <= Full /\ Full >= Period /\ Zero <= clock' BY <3>4, Sizes
    <3>7. ShareOf(a)' BY <3>2, <3>3, <3>5, <3>6 DEF ShareOf
    <3>8. PromiseOf(a)' BY <3>2, <3>5, <3>6 DEF PromiseOf
    <3> QED BY <3>7, <3>8
  <2> QED BY <1>3, <2>6, <2>7
<1> QED BY <1>7, <1>8, <1>10, <1>12, <1>13 DEF LimiterInv, AccountInv

\* The eviction: no client in use is idle, and what is forgotten was paid.
LEMMA gcKeeps == ASSUME LimiterInv, gc PROVE LimiterInv'
<1> USE RateAssumption DEF LimiterInv
<1> DEFINE idle == {a \in IPs : lastSeen[a] # Zero /\ lastSeen[a] < clock - IdleTTL}
<1>1. UNCHANGED <<clock, heap, created, pc, req, owed, promise, stalled>>
        /\ lastSeen' = [a \in IPs |-> IF a \in idle THEN Zero ELSE lastSeen[a]]
        /\ limiters' = [a \in IPs |-> IF a \in idle THEN 0 ELSE limiters[a]]
  BY DEF gc
<1>2. \A a \in idle : a \in IPs /\ lastSeen[a] < clock - IdleTTL OBVIOUS
<1> HIDE DEF idle
<1>3. \A a \in IPs : IF a \in idle THEN lastSeen'[a] = Zero /\ limiters'[a] = 0
                     ELSE lastSeen'[a] = lastSeen[a] /\ limiters'[a] = limiters[a]
  BY <1>1
<1>4. TypeOK'
  <2>1. limiters' \in [IPs -> 0 .. MaxGen] /\ lastSeen' \in [IPs -> {Zero} \cup 0 .. MaxClock]
    BY <1>1 DEF TypeOK
  <2> QED BY <1>1, <2>1 DEF TypeOK
<1>5. MapsAgree' BY <1>3 DEF MapsAgree
<1>6. clock \in Int /\ IdleTTL \in Int /\ MaxStall \in Nat
        /\ \A a \in IPs : lastSeen[a] \in Int
  <2>1. \A z \in {Zero} \cup 0 .. MaxClock : z \in Int BY Sizes
  <2> QED BY <2>1 DEF TypeOK
<1>7. ASSUME NEW q \in Requests, pc[q] \in {"reserve", "cancel"} PROVE req[q].ip \in IPs \ idle
  <2>1. req[q].ip \in IPs /\ req[q].now \in Int BY DEF TypeOK
  <2>2. clock - req[q].now <= MaxStall /\ lastSeen[req[q].ip] >= req[q].now - MaxStall
    BY <1>7 DEF SeenInv
  <2>3. lastSeen[req[q].ip] >= clock - IdleTTL
    <3>1. IdleTTL >= MaxStall + MaxStall BY <1>6
    <3> QED BY <1>6, <2>1, <2>2, <3>1
  <2> QED BY <1>2, <1>6, <2>1, <2>3
<1>8. NoEvictedBucketInUse' BY <1>1, <1>3, <1>7 DEF NoEvictedBucketInUse
<1>9. SeenInv'
  <2>1. Zero <= clock BY Sizes DEF TypeOK
  <2> QED BY <1>1, <1>3, <1>7, <2>1 DEF SeenInv
<1>10. ASSUME ~stalled', NEW a \in IPs PROVE ShareOf(a)' /\ PromiseOf(a)'
  <2>1. ShareOf(a) /\ PromiseOf(a) BY <1>1, <1>10 DEF AccountInv
  <2>2. Denied(a)' = Denied(a) BY <1>1 DEF Denied
  <2>3. CASE a \notin idle
    <3>1. limiters'[a] = limiters[a] /\ lastSeen'[a] = lastSeen[a] BY <1>3, <2>3
    <3>2. Current(a)' = Current(a) BY <1>1, <3>1 DEF Current
    <3>3. lastSeen'[a] \in Int /\ lastSeen[a] <= lastSeen'[a] BY <1>6, <3>1
    <3>4. \A q \in Denied(a) : req'[q].timeToAct = req[q].timeToAct BY <1>1
    <3> HIDE DEF LimiterInv
    <3> QED BY <1>1, <2>1, <2>2, <3>1, <3>2, <3>3, <3>4, Frame
  <2>4. CASE a \in idle
    <3>1. limiters'[a] = 0 BY <1>3, <2>4
    <3>2. owed[a] = 0
      <4>1. limiters[a] = 0 => owed[a] = 0 BY <2>1 DEF ShareOf
      <4>2. limiters[a] # 0 => owed[a] = 0 \/ owed[a] + (clock - lastSeen[a]) <= Full
        BY <2>1 DEF ShareOf
      <4>3. clock - lastSeen[a] > Full BY <1>2, <1>6, <2>4, Sizes
      <4>4. owed[a] \in Nat BY DEF TypeOK
      <4> QED BY <1>6, <4>1, <4>2, <4>3, <4>4, Sizes
    <3> QED BY <1>1, <3>1, <3>2 DEF ShareOf, PromiseOf
  <2> QED BY <2>3, <2>4
<1> QED BY <1>4, <1>5, <1>8, <1>9, <1>10 DEF AccountInv

\* What Return leaves of the requests, and what it does to the others.
LEMMA Returned ==
    ASSUME TypeOK, NEW q \in Requests, Return(q)
    PROVE  /\ pc' \in [Requests -> {"idle", "lookup", "reserve", "cancel"}]
           /\ req' \in [Requests -> [ip : IPs, now : 0 .. MaxClock, lim : 0 .. MaxGen,
                                     timeToAct : Int]]
           /\ pc'[q] = "idle"
           /\ \A p \in Requests : p # q => pc'[p] = pc[p] /\ req'[p] = req[p]
<1>1. NoRequest \in [ip : IPs, now : 0 .. MaxClock, lim : 0 .. MaxGen, timeToAct : Int]
  <2>1. (CHOOSE a \in IPs : TRUE) \in IPs BY RateAssumption
  <2> QED BY <2>1, RateAssumption DEF NoRequest
<1>2. pc \in [Requests -> {"idle", "lookup", "reserve", "cancel"}]
        /\ req \in [Requests -> [ip : IPs, now : 0 .. MaxClock, lim : 0 .. MaxGen, timeToAct : Int]]
  BY DEF TypeOK
<1> HIDE DEF NoRequest
<1> QED BY <1>1, <1>2 DEF Return

\* A step of one request that only leaves allow, or goes on to hand its token
\* back, disturbs neither the maps nor the others.
LEMMA ControlKept ==
    ASSUME LimiterInv, NEW q \in Requests, pc[q] \in {"reserve", "cancel"},
           UNCHANGED <<clock, limiters, lastSeen, stalled>>,
           \A p \in Requests : p # q => pc'[p] = pc[p] /\ req'[p] = req[p],
           \/ pc'[q] = "idle"
           \/ pc'[q] = "cancel" /\ req'[q].ip = req[q].ip /\ req'[q].now = req[q].now
                /\ req'[q].lim = req[q].lim
    PROVE  MapsAgree' /\ NoEvictedBucketInUse' /\ SeenInv'
<1>1. MapsAgree' BY DEF LimiterInv, MapsAgree
<1>2. NoEvictedBucketInUse' BY DEF LimiterInv, NoEvictedBucketInUse
<1>3. SeenInv' BY DEF LimiterInv, SeenInv
<1> QED BY <1>1, <1>2, <1>3

\* The reservation: admitted, it pays with tokens the bucket has; denied, it is
\* given a time to act one token after every other denied request's.
LEMMA reserveKeeps == ASSUME LimiterInv, NEW q \in Requests, reserve(q) PROVE LimiterInv'
<1>0. TypeOK /\ pc[q] = "reserve" BY DEF LimiterInv, reserve
<1>x. PICK x \in IPs, t \in 0 .. MaxClock, g \in 1 .. MaxGen :
        x = req[q].ip /\ t = req[q].now /\ g = req[q].lim
  BY <1>0, InUse
<1> DEFINE b == Current(x)
           c == ReserveN(b, t)
           secs == Second * RetryAfterSecs(c.lastEvent - t)
<1>i. /\ req[q].lim = limiters[req[q].ip] /\ limiters[req[q].ip] # 0
      /\ heap[req[q].ip][req[q].lim] = Current(req[q].ip)
      /\ Current(req[q].ip) \in Bucket /\ Current(req[q].ip).tokens <= Full
  BY <1>0, InUse
<1>1. /\ x \in IPs /\ g \in 1 .. MaxGen /\ g = limiters[x] /\ limiters[x] # 0
      /\ t \in 0 .. MaxClock /\ heap[x][g] = b /\ b \in Bucket /\ b.tokens <= Full
  <2>1. req[q].ip = x /\ req[q].now = t /\ req[q].lim = g BY <1>x
  <2>2. g = limiters[x] /\ limiters[x] # 0 BY <1>i, <2>1
  <2>3. Current(req[q].ip) = b BY <2>1 DEF Current
  <2> HIDE DEF b
  <2>4. heap[x][g] = b
    <3>1. heap[req[q].ip][req[q].lim] = b BY <1>i, <2>3, Zenon
    <3> QED BY <2>1, <3>1, Zenon
  <2>5. b \in Bucket BY <1>i, <2>3, Zenon
  <2>6. b.tokens <= Full
    <3>1. Current(req[q].ip).tokens <= Full BY <1>i
    <3> QED BY <2>3, <3>1, Zenon
  <2> QED BY <2>2, <2>4, <2>5, <2>6
<1>2. /\ UNCHANGED <<clock, limiters, lastSeen, created, stalled>>
      /\ heap' = [heap EXCEPT ![x] = [heap[x] EXCEPT ![g] = c]]
  BY <1>1, <1>x DEF reserve, bookkeeping
<1>3. \/ /\ c.lastEvent <= t /\ Return(q)
         /\ owed' = [owed EXCEPT ![x] = owed[x] + Period]
         /\ promise' = [promise EXCEPT ![x] = Zero]
      \/ /\ c.lastEvent > t /\ pc' = [pc EXCEPT ![q] = "cancel"]
         /\ req' = [req EXCEPT ![q] = [req[q] EXCEPT !.timeToAct = c.lastEvent]]
         /\ owed' = owed
         /\ promise' = [promise EXCEPT ![x] = IF InFlight(x) = {q} THEN t + secs ELSE Zero]
  BY <1>1, <1>x DEF reserve
<1>4. /\ t \in Int /\ c \in Bucket /\ c.last = t /\ c.tokens <= Full
      /\ advance(b, t) \in Int /\ advance(c, t) = advance(b, t) - Period
      /\ advance(b, t) >= Period => c.lastEvent = t
      /\ advance(b, t) < Period => c.lastEvent = t + Period - advance(b, t)
  <2>1. t \in Int BY <1>1
  <2> HIDE DEF b
  <2>2. t <= t BY <2>1
  <2>3. advance(b, t) \in Int BY <1>1, <2>1, <2>2, Advance
  <2> QED BY <1>1, <2>1, <2>3, Reserve
<1>5. c.lastEvent \in Int /\ (c.lastEvent > t => secs \in Int /\ secs >= c.lastEvent - t)
  <2>1. c.lastEvent \in Int BY <1>4 DEF Bucket
  <2>2. c.lastEvent > t => c.lastEvent - t \in Nat BY <1>4, <2>1
  <2> QED BY <2>1, <2>2, RetryCovers, Sizes
<1> HIDE DEF b, c, secs
<1>6. /\ heap' \in [IPs -> [1 .. MaxGen -> Bucket]]
      /\ \A a \in IPs, i \in 1 .. MaxGen : heap'[a][i].tokens <= Full
      /\ heap'[x][g] = c /\ \A a \in IPs : a # x => heap'[a] = heap[a]
  <2>1. c \in Bucket /\ c.tokens <= Full BY <1>4
  <2>2. heap' = [heap EXCEPT ![x] = [heap[x] EXCEPT ![g] = c]] BY <1>2
  <2> QED BY <1>0, <2>1, <2>2, HeapPut
<1>p. pc \in [Requests -> {"idle", "lookup", "reserve", "cancel"}]
        /\ req \in [Requests -> [ip : IPs, now : 0 .. MaxClock, lim : 0 .. MaxGen, timeToAct : Int]]
        /\ owed \in [IPs -> Nat] /\ promise \in [IPs -> Int]
  BY <1>0 DEF TypeOK
<1>7. /\ pc' \in [Requests -> {"idle", "lookup", "reserve", "cancel"}]
      /\ req' \in [Requests -> [ip : IPs, now : 0 .. MaxClock, lim : 0 .. MaxGen, timeToAct : Int]]
      /\ \A p \in Requests : p # q => pc'[p] = pc[p] /\ req'[p] = req[p]
      /\ \/ c.lastEvent <= t /\ pc'[q] = "idle"
         \/ c.lastEvent > t /\ pc'[q] = "cancel" /\ req'[q].ip = x /\ req'[q].now = t
              /\ req'[q].lim = g /\ req'[q].timeToAct = c.lastEvent
  <2>1. CASE c.lastEvent <= t /\ Return(q) BY <1>0, <2>1, Returned
  <2>2. CASE c.lastEvent > t /\ pc' = [pc EXCEPT ![q] = "cancel"]
              /\ req' = [req EXCEPT ![q] = [req[q] EXCEPT !.timeToAct = c.lastEvent]]
    BY <1>p, <1>x, <1>5, <2>2
  <2> QED BY <1>3, <2>1, <2>2
<1>8. owed' \in [IPs -> Nat] /\ promise' \in [IPs -> Int]
        /\ (\A a \in IPs : a # x => owed'[a] = owed[a] /\ promise'[a] = promise[a])
        /\ \/ c.lastEvent <= t /\ owed'[x] = owed[x] + Period /\ promise'[x] = Zero
           \/ c.lastEvent > t /\ owed'[x] = owed[x]
                /\ promise'[x] = IF InFlight(x) = {q} THEN t + secs ELSE Zero
  <2>1. CASE c.lastEvent <= t /\ owed' = [owed EXCEPT ![x] = owed[x] + Period]
               /\ promise' = [promise EXCEPT ![x] = Zero]
    <3>1. owed[x] + Period \in Nat BY <1>p, <1>1, Sizes
    <3> QED BY <1>p, <1>1, <2>1, <3>1, Sizes
  <2>2. CASE c.lastEvent > t /\ owed' = owed
              /\ promise' = [promise EXCEPT ![x] = IF InFlight(x) = {q} THEN t + secs ELSE Zero]
    <3>1. (IF InFlight(x) = {q} THEN t + secs ELSE Zero) \in Int BY <1>4, <1>5, <2>2, Sizes
    <3> QED BY <1>p, <1>1, <2>2, <3>1
  <2> QED BY <1>3, <2>1, <2>2
<1>9. TypeOK' BY <1>0, <1>2, <1>6, <1>7, <1>8 DEF TypeOK
<1>10. MapsAgree' /\ NoEvictedBucketInUse' /\ SeenInv'
  BY <1>0, <1>2, <1>x, <1>7, ControlKept
<1>11. ASSUME ~stalled', NEW a \in IPs PROVE ShareOf(a)' /\ PromiseOf(a)'
  <2>1. ShareOf(a) /\ PromiseOf(a) BY <1>2, <1>11 DEF LimiterInv, AccountInv
  <2>2. CASE a # x
    <3>1. Current(a)' = Current(a) BY <1>2, <1>6, <2>2 DEF Current
    <3>2. Denied(a)' = Denied(a) /\ q \notin Denied(a) BY <1>0, <1>x, <1>7, <2>2 DEF Denied
    <3>3. \A p \in Denied(a) : req'[p].timeToAct = req[p].timeToAct BY <1>7, <3>2 DEF Denied
    <3>4. lastSeen[a] \in Int BY <1>0, Sizes DEF TypeOK
    <3>5. lastSeen'[a] \in Int /\ lastSeen[a] <= lastSeen'[a] BY <1>2, <3>4
    <3> QED BY <1>2, <1>8, <2>1, <2>2, <3>1, <3>2, <3>3, <3>5, Frame
  <2>3. CASE a = x
    <3> DEFINE h == advance(b, clock)
    <3>1. t = clock /\ lastSeen[x] = clock /\ clock \in Int
      BY <1>0, <1>2, <1>x, <1>11 DEF LimiterInv, SeenInv, TypeOK
    <3>2. h \in Int /\ advance(c, clock) = h - Period /\ c.last = clock BY <1>4, <3>1
    <3>3. Current(x)' = c BY <1>1, <1>2, <1>6 DEF Current
    <3>4. owed[x] + h <= Full /\ owed[x] \in Nat BY <1>p, <1>1, <2>1, <2>3 DEF ShareOf, b
    <3>5. \A p \in Denied(x) :
            /\ req[p].timeToAct \in Int /\ clock < req[p].timeToAct
            /\ req[p].timeToAct <= clock - h
            /\ owed[x] + Period - (req[p].timeToAct - clock) <= Full
            /\ \A r \in Denied(x) \ {p} : req[p].timeToAct + Period <= req[r].timeToAct
                                            \/ req[r].timeToAct + Period <= req[p].timeToAct
      <4>1. \A p \in Denied(x) : req[p].timeToAct \in Int BY <1>p DEF Denied
      <4> QED BY <1>1, <2>1, <2>3, <4>1 DEF ShareOf, b
    <3>6. limiters'[x] = limiters[x] /\ lastSeen'[x] = clock /\ clock' = clock BY <1>2, <3>1
    <3>7. advance(Current(x), clock)' = h - Period BY <3>2, <3>3, <3>6
    <3> HIDE DEF h
    <3>8. CASE h >= Period
      <4>1. c.lastEvent <= t BY <1>4, <3>1, <3>8 DEF h
      <4>2. pc'[q] = "idle" /\ owed'[x] = owed[x] + Period /\ promise'[x] = Zero
        <5>1. ~(c.lastEvent > t) BY <1>4, <1>5, <4>1
        <5> QED BY <1>7, <1>8, <5>1
      <4>3. Denied(x) = {} BY <3>1, <3>2, <3>5, <3>8, Sizes
      <4>4. Denied(x)' = {} BY <1>0, <1>7, <4>2, <4>3 DEF Denied
      <4>5. owed'[x] + (h - Period) <= Full /\ owed'[x] + (clock - clock) <= Full
              /\ clock <= clock
        BY <3>1, <3>2, <3>4, <3>8, <4>2, Sizes
      <4>6. ShareOf(x)' BY <1>1, <3>2, <3>3, <3>6, <3>7, <4>4, <4>5 DEF ShareOf
      <4>7. PromiseOf(x)' BY <4>2 DEF PromiseOf
      <4> QED BY <2>3, <4>6, <4>7
    <3>9. CASE ~(h >= Period)
      <4> DEFINE act == c.lastEvent
      <4>1. act = clock + Period - h /\ act > t /\ act \in Int
        BY <1>4, <3>1, <3>2, <3>9, Sizes DEF h
      <4>2. pc'[q] = "cancel" /\ req'[q].ip = x /\ req'[q].timeToAct = act
              /\ owed'[x] = owed[x]
              /\ promise'[x] = IF InFlight(x) = {q} THEN t + secs ELSE Zero
        <5>1. ~(c.lastEvent <= t) BY <1>4, <4>1
        <5> QED BY <1>7, <1>8, <5>1
      <4>3. Denied(x)' = Denied(x) \cup {q} /\ q \notin Denied(x)
        BY <1>0, <1>7, <4>2 DEF Denied
      <4>4. \A p \in Denied(x) : req'[p] = req[p] BY <1>7, <4>3 DEF Denied
      <4> HIDE DEF act
      <4>5. /\ clock < act /\ act <= clock - (h - Period) /\ act <= act
            /\ owed[x] + Period - (act - clock) <= Full
        BY <3>1, <3>2, <3>4, <4>1, Sizes
      <4>6. ASSUME NEW p \in Denied(x)
            PROVE  /\ req[p].timeToAct <= clock - (h - Period) /\ req[p].timeToAct <= act
                   /\ req[p].timeToAct + Period <= act
        BY <3>1, <3>2, <3>5, <4>1, Sizes
      <4>7. owed[x] + (h - Period) <= Full /\ clock <= clock
              /\ (owed[x] = 0 \/ owed[x] + (clock - clock) <= Full)
        <5>1. owed[x] = 0 \/ owed[x] + (clock - lastSeen[x]) <= Full
          BY <1>1, <2>1, <2>3 DEF ShareOf
        <5> QED BY <3>1, <3>2, <3>4, <5>1, Sizes
      <4>8. ShareOf(x)'
        <5>1. \A p \in Denied(x)' :
                /\ clock < req'[p].timeToAct /\ req'[p].timeToAct <= clock - (h - Period)
                /\ req'[p].timeToAct <= act
                /\ owed[x] + Period - (req'[p].timeToAct - clock) <= Full
          BY <3>5, <4>2, <4>3, <4>4, <4>5, <4>6
        <5>2. \A p \in Denied(x)' : \A r \in Denied(x)' \ {p} :
                req'[p].timeToAct + Period <= req'[r].timeToAct
                  \/ req'[r].timeToAct + Period <= req'[p].timeToAct
          BY <3>5, <4>2, <4>3, <4>4, <4>6
        <5> QED BY <1>1, <3>2, <3>3, <3>6, <3>7, <4>2, <4>7, <5>1, <5>2 DEF ShareOf, act
      <4>9. PromiseOf(x)'
        <5>1. SUFFICES ASSUME promise'[x] # Zero PROVE PromiseOf(x)' BY DEF PromiseOf
        <5>2. InFlight(x) = {q} /\ promise'[x] = t + secs BY <4>2, <5>1
        <5>3. Denied(x)' = {q} BY <1>0, <4>3, <5>2 DEF InFlight, Denied
        <5>4. act <= promise'[x] BY <1>4, <1>5, <3>1, <4>1, <5>2 DEF act
        <5>5. act = clock - (h - Period) BY <3>1, <3>2, <4>1, Sizes
        <5> QED BY <3>3, <3>6, <3>7, <4>2, <5>3, <5>4, <5>5 DEF PromiseOf, act
      <4> QED BY <2>3, <4>8, <4>9
    <3> QED BY <3>8, <3>9
  <2> QED BY <2>2, <2>3
<1> QED BY <1>9, <1>10, <1>11 DEF LimiterInv, AccountInv

\* The cancellation: at most the request's own token comes back, and less when
\* others have reserved after it.
LEMMA cancelKeeps == ASSUME LimiterInv, NEW q \in Requests, cancel(q) PROVE LimiterInv'
<1>0. TypeOK /\ pc[q] = "cancel" BY DEF LimiterInv, cancel
<1>x. PICK x \in IPs, t \in 0 .. MaxClock, g \in 1 .. MaxGen, act \in Int :
        x = req[q].ip /\ t = req[q].now /\ g = req[q].lim /\ act = req[q].timeToAct
  BY <1>0, InUse
<1> DEFINE b == Current(x)
           c == CancelAt(b, t, act)
<1>1. /\ g = limiters[x] /\ limiters[x] # 0 /\ heap[x][g] = b /\ b \in Bucket /\ b.tokens <= Full
      /\ t \in Int
  BY <1>0, <1>x, InUse
<1>2. /\ UNCHANGED <<clock, limiters, lastSeen, created, owed, promise, stalled>> /\ Return(q)
      /\ heap' = [heap EXCEPT ![x] = [heap[x] EXCEPT ![g] = c]]
  BY <1>1, <1>x DEF cancel, bookkeeping
<1>3. c \in Bucket /\ c.tokens <= Full
  <2> HIDE DEF b
  <2> QED BY <1>1, Cancel
<1>4. /\ heap' \in [IPs -> [1 .. MaxGen -> Bucket]]
      /\ \A a \in IPs, i \in 1 .. MaxGen : heap'[a][i].tokens <= Full
      /\ heap'[x][g] = c /\ \A a \in IPs : a # x => heap'[a] = heap[a]
  <2>1. TypeOK /\ heap' = [heap EXCEPT ![x] = [heap[x] EXCEPT ![g] = c]] BY <1>0, <1>2
  <2> HIDE DEF b, c
  <2> QED BY <1>3, <2>1, HeapPut
<1>5. /\ pc' \in [Requests -> {"idle", "lookup", "reserve", "cancel"}]
      /\ req' \in [Requests -> [ip : IPs, now : 0 .. MaxClock, lim : 0 .. MaxGen, timeToAct : Int]]
      /\ pc'[q] = "idle"
      /\ \A p \in Requests : p # q => pc'[p] = pc[p] /\ req'[p] = req[p]
  BY <1>0, <1>2, Returned
<1>6. TypeOK' BY <1>0, <1>2, <1>4, <1>5 DEF TypeOK
<1>7. MapsAgree' /\ NoEvictedBucketInUse' /\ SeenInv' BY <1>0, <1>2, <1>5, ControlKept
<1>8. \A a \in IPs : Denied(a)' = Denied(a) \ {q} /\ \A p \in Denied(a)' : req'[p] = req[p]
  BY <1>5 DEF Denied
<1>9. ASSUME ~stalled', NEW a \in IPs PROVE ShareOf(a)' /\ PromiseOf(a)'
  <2>1. ShareOf(a) /\ PromiseOf(a) BY <1>2, <1>9 DEF LimiterInv, AccountInv
  <2>2. CASE a # x
    <3>1. Current(a)' = Current(a) BY <1>2, <1>4, <2>2 DEF Current
    <3>2. q \notin Denied(a) BY <1>x, <2>2 DEF Denied
    <3>3. Denied(a)' = Denied(a) /\ \A p \in Denied(a) : req'[p].timeToAct = req[p].timeToAct
      BY <1>8, <3>2
    <3>4. lastSeen[a] \in Int BY <1>0, Sizes DEF TypeOK
    <3>5. lastSeen'[a] \in Int /\ lastSeen[a] <= lastSeen'[a] BY <1>2, <3>4
    <3> QED BY <1>2, <2>1, <3>1, <3>3, <3>5, Frame
  <2>3. CASE a = x
    <3> DEFINE h == advance(b, clock)
               k == advance(c, clock)
    <3>1. t = clock /\ clock \in Int BY <1>0, <1>2, <1>x, <1>9 DEF LimiterInv, SeenInv, TypeOK
    <3>2. Current(x)' = c BY <1>1, <1>2, <1>4 DEF Current
    <3>3. /\ b.last <= clock /\ owed[x] + h <= Full
          /\ owed[x] = 0 \/ owed[x] + (clock - lastSeen[x]) <= Full
      BY <1>1, <2>1, <2>3 DEF ShareOf
    <3>4. q \in Denied(x) BY <1>0, <1>x DEF Denied
    <3>5. /\ clock < act /\ act <= clock - h /\ act <= b.lastEvent
          /\ owed[x] + Period - (act - clock) <= Full
      BY <1>1, <1>x, <2>1, <2>3, <3>4 DEF ShareOf
    <3>6. ASSUME NEW p \in Denied(x)'
          PROVE  /\ p \in Denied(x) /\ req'[p] = req[p] /\ req[p].timeToAct \in Int
                 /\ clock < req[p].timeToAct /\ req[p].timeToAct <= clock - h
                 /\ req[p].timeToAct <= b.lastEvent
                 /\ owed[x] + Period - (req[p].timeToAct - clock) <= Full
                 /\ act + Period <= req[p].timeToAct \/ req[p].timeToAct + Period <= act
                 /\ \A r \in Denied(x)' \ {p} :
                      req[p].timeToAct + Period <= req[r].timeToAct
                        \/ req[r].timeToAct + Period <= req[p].timeToAct
      <4>1. p \in Denied(x) \ {q} /\ req'[p] = req[p] BY <1>8
      <4>2. req[p].timeToAct \in Int BY <1>0, <4>1 DEF TypeOK, Denied
      <4> QED BY <1>1, <1>8, <1>x, <2>1, <2>3, <3>4, <4>1, <4>2 DEF ShareOf
    <3>7. h \in Int /\ k \in Int /\ owed[x] \in Nat /\ b.lastEvent \in Int /\ c.lastEvent \in Int
            /\ b.last \in Int /\ c.last \in Int /\ c.tokens \in Int
      <4>1. clock <= clock BY <3>1
      <4> HIDE DEF b, c
      <4>2. h \in Int /\ k \in Int BY <1>1, <1>3, <3>1, <4>1, Advance
      <4> QED BY <1>0, <1>1, <1>3, <4>2 DEF TypeOK, Bucket
    <3>8. /\ c.last <= clock
          /\ \/ c = b
             \/ /\ act > b.lastEvent - Period
                /\ \/ k = Full /\ Full <= h + Period - (b.lastEvent - act)
                   \/ k = h + Period - (b.lastEvent - act)
                /\ c.lastEvent = b.lastEvent \/ (act = b.lastEvent /\ c.lastEvent = act - Period)
          /\ act = b.lastEvent => c.last = clock /\ c.tokens \in {Full, h + Period}
      <4>1. act >= clock BY <3>1, <3>5
      <4> HIDE DEF b
      <4> QED BY <1>1, <3>1, <3>3, <4>1, Cancel
    <3>9. limiters'[x] = limiters[x] /\ lastSeen'[x] = lastSeen[x] /\ clock' = clock
            /\ owed'[x] = owed[x] /\ promise'[x] = promise[x] /\ advance(Current(x), clock)' = k
      BY <1>2, <3>2
    <3>10. PromiseOf(x)'
      <4> SUFFICES ASSUME promise[x] # Zero PROVE PromiseOf(x)' BY <3>9 DEF PromiseOf
      <4>1. Denied(x) = {q} /\ act <= promise[x] /\ act = clock - h /\ act = b.lastEvent
        BY <1>1, <1>x, <2>1, <2>3, <3>4 DEF PromiseOf
      <4>2. Denied(x)' = {} BY <1>8, <4>1
      <4>3. c.last = clock /\ c.tokens \in {Full, h + Period} BY <3>8, <4>1
      <4>4. promise[x] \in Int BY <1>0 DEF TypeOK
      <4> HIDE DEF b, c, h
      <4>5. advance(c, promise[x]) >= Period
        BY <1>3, <3>1, <3>5, <3>7, <4>1, <4>3, <4>4, Sizes DEF advance, Least
      <4> QED BY <3>2, <3>9, <4>2, <4>5 DEF PromiseOf
    <3> HIDE DEF b, c, h, k
    <3>11. owed[x] + k <= Full
      <4>1. CASE c = b BY <3>3, <4>1 DEF h, k
      <4>2. CASE k = Full /\ Full <= h + Period - (b.lastEvent - act)
        BY <3>1, <3>5, <3>7, <4>2, Sizes
      <4>3. CASE k = h + Period - (b.lastEvent - act) BY <3>1, <3>5, <3>7, <4>3, Sizes
      <4> QED BY <3>8, <4>1, <4>2, <4>3
    <3>12. ASSUME NEW p \in Denied(x)'
           PROVE  req'[p].timeToAct <= clock - k /\ req'[p].timeToAct <= c.lastEvent
      <4>1. CASE c = b BY <3>6, <4>1 DEF h, k
      <4>2. CASE /\ act > b.lastEvent - Period
                 /\ \/ k = Full /\ Full <= h + Period - (b.lastEvent - act)
                    \/ k = h + Period - (b.lastEvent - act)
                 /\ c.lastEvent = b.lastEvent \/ (act = b.lastEvent /\ c.lastEvent = act - Period)
        <5>1. k <= h + Period - (b.lastEvent - act) BY <3>7, <4>2, Sizes
        <5>2. req[p].timeToAct + Period <= act BY <3>6, <3>7, <4>2, Sizes
        <5>3. req[p].timeToAct <= clock - k BY <3>1, <3>5, <3>6, <3>7, <5>1, <5>2, Sizes
        <5>4. req[p].timeToAct <= c.lastEvent BY <3>6, <3>7, <4>2, <5>2, Sizes
        <5> QED BY <3>6, <5>3, <5>4
      <4> QED BY <3>8, <4>1, <4>2
    <3>13. ShareOf(x)'
      <4>1. \A p \in Denied(x)' :
              /\ clock < req'[p].timeToAct
              /\ owed[x] + Period - (req'[p].timeToAct - clock) <= Full
              /\ \A r \in Denied(x)' \ {p} :
                   req'[p].timeToAct + Period <= req'[r].timeToAct
                     \/ req'[r].timeToAct + Period <= req'[p].timeToAct
        BY <3>6
      <4> QED BY <1>1, <3>2, <3>3, <3>8, <3>9, <3>11, <3>12, <4>1 DEF ShareOf
    <3> QED BY <2>3, <3>10, <3>13
  <2> QED BY <2>2, <2>3
<1> QED BY <1>6, <1>7, <1>9 DEF LimiterInv, AccountInv

-----------------------------------------------------------------------------
(* Theorems                                                                *)

\* The limiter starts in order.
LEMMA InitLimiter == ASSUME Init PROVE LimiterInv
<1> USE RateAssumption DEF Init
<1>1. NoRequest \in [ip : IPs, now : 0 .. MaxClock, lim : 0 .. MaxGen, timeToAct : Int]
  <2>1. (CHOOSE a \in IPs : TRUE) \in IPs OBVIOUS
  <2> QED BY <2>1 DEF NoRequest
<1>2. TypeOK
  <2>1. stalled \in BOOLEAN BY Zenon
  <2>2. Full <= Full BY Sizes
  <2>3. heap \in [IPs -> [1 .. MaxGen -> Bucket]]
          /\ \A a \in IPs, i \in 1 .. MaxGen : heap[a][i].tokens <= Full
    BY <2>2, NewIsFull
  <2>4. lastSeen \in [IPs -> {Zero} \cup 0 .. MaxClock] /\ promise \in [IPs -> Int] BY Sizes
  <2>5. limiters \in [IPs -> 0 .. MaxGen] /\ created \in [IPs -> 0 .. MaxGen]
          /\ owed \in [IPs -> Nat] /\ clock \in 0 .. MaxClock
    OBVIOUS
  <2>6. req \in [Requests -> [ip : IPs, now : 0 .. MaxClock, lim : 0 .. MaxGen, timeToAct : Int]]
          /\ pc \in [Requests -> {"idle", "lookup", "reserve", "cancel"}]
    BY <1>1
  <2> QED BY <2>1, <2>3, <2>4, <2>5, <2>6 DEF TypeOK
<1>3. MapsAgree /\ NoEvictedBucketInUse BY DEF MapsAgree, NoEvictedBucketInUse
<1>4. SeenInv BY Sizes DEF SeenInv
<1>5. AccountInv BY DEF AccountInv, ShareOf, PromiseOf
<1> QED BY <1>2, <1>3, <1>4, <1>5 DEF LimiterInv

\* Every step keeps the limiter in order.
LEMMA NextLimiter == ASSUME LimiterInv, [Next]_vars PROVE LimiterInv'
<1>1. CASE UNCHANGED vars
  <2> USE <1>1 DEF vars, LimiterInv
  <2>1. TypeOK' BY DEF TypeOK
  <2>2. MapsAgree' /\ NoEvictedBucketInUse' BY DEF MapsAgree, NoEvictedBucketInUse
  <2>3. SeenInv' BY DEF SeenInv
  <2>4. AccountInv' BY DEF AccountInv, ShareOf, PromiseOf, Denied, Current
  <2> QED BY <2>1, <2>2, <2>3, <2>4
<1> QED BY <1>1, ClockTickKeeps, EnterKeeps, limiterForKeeps, reserveKeeps, cancelKeeps, gcKeeps
        DEF Next, allow

\* For any interleaving of requests and gc (allow, limiterFor, gc): the two maps
\* agree, no request uses a bucket that was dropped, no bucket overflows, and
\* while no goroutine stalls the buckets' accounts are right.
THEOREM LimiterStaysInOrder == Spec => []LimiterInv
BY InitLimiter, NextLimiter, PTL DEF Spec

\* For any rate and burst, across evictions and rejections, what allow admits in
\* any window of time is at most a full bucket and the refill in between, as long
\* as no time has passed inside a call of allow (~stalled).  A goroutine that slept
\* between reading the clock and reserving earns that interval twice.
THEOREM RateIsBounded == Spec => []WindowBound
<1>1. ASSUME LimiterInv PROVE WindowBound
  <2> SUFFICES ASSUME ~stalled, NEW a \in IPs PROVE owed[a] <= Full BY DEF WindowBound
  <2>1. ShareOf(a) BY <1>1 DEF LimiterInv, AccountInv
  <2>2. owed[a] \in Nat /\ clock \in Int /\ lastSeen[a] \in Int
    BY <1>1, Sizes DEF LimiterInv, TypeOK
  <2>3. lastSeen[a] <= clock BY <1>1 DEF LimiterInv, SeenInv
  <2>4. owed[a] = 0 \/ owed[a] + (clock - lastSeen[a]) <= Full BY <2>1 DEF ShareOf
  <2> QED BY <2>2, <2>3, <2>4, Sizes
<1> QED BY <1>1, LimiterStaysInOrder, PTL

\* A client that makes one request at a time and comes back when Retry-After says
\* is admitted, as long as no time has passed inside a call of allow (~stalled).
THEOREM RetryAfterIsKept == Spec => RetryAfterHonest
<1> DEFINE Honest(q) ==
      LET kept == promise[req[q].ip] IN
      ~stalled /\ pc[q] = "reserve" /\ pc'[q] # "reserve" /\ kept # Zero /\ kept <= req[q].now
        => pc'[q] = "idle"
<1>1. ASSUME LimiterInv, [Next]_vars, NEW q \in Requests PROVE Honest(q)
  <2> SUFFICES ASSUME ~stalled, pc[q] = "reserve", pc'[q] # "reserve",
                      promise[req[q].ip] # Zero, promise[req[q].ip] <= req[q].now
               PROVE  pc'[q] = "idle"
    OBVIOUS
  <2>0. TypeOK BY <1>1 DEF LimiterInv
  <2>1. reserve(q)
    <3>1. ASSUME NEW p \in Requests, p # q, allow(p) PROVE pc'[q] = pc[q]
      <4>1. \/ pc' = [pc EXCEPT ![p] = "idle"]
            \/ pc' = [pc EXCEPT ![p] = "reserve"]
            \/ pc' = [pc EXCEPT ![p] = "cancel"]
        BY <3>1, Zenon DEF allow, limiterFor, reserve, cancel, Return
      <4>2. pc \in [Requests -> {"idle", "lookup", "reserve", "cancel"}] BY <2>0 DEF TypeOK
      <4> QED BY <3>1, <4>1, <4>2
    <3>2. \A p \in Requests, a \in IPs : Enter(p, a) => pc'[q] = pc[q] BY <2>0 DEF TypeOK, Enter
    <3>3. ClockTick \/ gc \/ UNCHANGED vars => pc'[q] = pc[q] BY DEF ClockTick, gc, vars
    <3>4. ~limiterFor(q) /\ ~cancel(q) BY DEF limiterFor, cancel
    <3> QED BY <1>1, <3>1, <3>2, <3>3, <3>4 DEF Next, allow
  <2>2. PICK x \in IPs, t \in 0 .. MaxClock, g \in 1 .. MaxGen :
          x = req[q].ip /\ t = req[q].now /\ g = req[q].lim
    BY <1>1, InUse
  <2> DEFINE b == Current(x)
  <2>3. limiters[x] # 0 /\ heap[x][g] = b /\ b \in Bucket /\ b.tokens <= Full
    BY <1>1, <2>2, InUse
  <2>4. t = clock /\ t \in Int /\ promise[x] \in Int
    BY <1>1, <2>0, <2>2 DEF LimiterInv, SeenInv, TypeOK
  <2>5. ShareOf(x) /\ PromiseOf(x) BY <1>1 DEF LimiterInv, AccountInv
  <2>6. Denied(x) = {}
    <3> SUFFICES ASSUME NEW p \in Denied(x) PROVE FALSE OBVIOUS
    <3>1. clock < req[p].timeToAct BY <2>3, <2>5 DEF ShareOf
    <3>2. req[p].timeToAct <= promise[x] BY <2>2, <2>3, <2>5 DEF PromiseOf
    <3>3. req[p].timeToAct \in Int BY <2>0 DEF TypeOK, Denied
    <3> QED BY <2>2, <2>4, <3>1, <3>2, <3>3
  <2>7. advance(b, promise[x]) >= Period BY <2>2, <2>3, <2>5, <2>6 DEF PromiseOf
  <2> HIDE DEF b
  <2>8. advance(b, t) >= Period
    <3>1. advance(b, promise[x]) <= advance(b, t) /\ advance(b, promise[x]) \in Int
      BY <2>2, <2>3, <2>4, Advance
    <3>2. t <= t BY <2>4
    <3>3. advance(b, t) \in Int BY <2>3, <2>4, <3>2, Advance
    <3> QED BY <2>7, <3>1, <3>3, Sizes
  <2>9. ReserveN(b, t).lastEvent = t BY <2>3, <2>4, <2>8, Reserve
  <2>10. ~(t > t) BY <2>4
  <2>11. Return(q) BY <2>1, <2>2, <2>3, <2>9, <2>10 DEF reserve
  <2> QED BY <2>0, <2>11, Returned
<1>2. ASSUME LimiterInv, [Next]_vars PROVE [\A q \in Requests : Honest(q)]_vars BY <1>1, <1>2
<1> QED BY <1>2, LimiterStaysInOrder, PTL DEF Spec, RetryAfterHonest
=============================================================================
